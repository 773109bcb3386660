----------------------------- MODULE FtpPoolProofs -----------------------------
(***************************************************************************)
(* Theorems about FtpPool, for any number of downloads, workers, attempts and *)
(* any size of the pool, with connections that close, transfers that outlast  *)
(* their time limit and replacements of stale entries: a connection works for *)
(* one download, and nobody waits in a pool larger than the workers.          *)
(***************************************************************************)
EXTENDS FtpPool, FiniteSetTheorems, SequenceTheorems, WellFoundedInduction, TLAPS

Points == {"idle", "create", "replace", "wait", "ready", "transfer", "backoff", "done"}

PoolEntry(n) == [client : 1 .. n, inUse : BOOLEAN]

\* What a download at this point has: a connection, an index into a pool of len entries,
\* and attempts.
Knows(q, c, s, a, len) ==
    /\ q \in Points /\ a \in 0 .. MaxAttempts /\ (q = "idle" <=> a = 0)
    /\ q = "backoff" => a < MaxAttempts
    /\ q \in {"ready", "transfer"} => c # NoClient
    /\ q \in {"idle", "done", "create", "replace", "wait"} => c = NoClient
    /\ IF q = "replace" THEN s \in 1 .. len ELSE s = 0

Typed ==
    /\ maxSize \in Sizes /\ made \in Nat
    /\ pool \in Seq(PoolEntry(made))
    /\ closed \subseteq 1 .. made /\ drained \in BOOLEAN
    /\ running \in [Clients -> Downloads \cup {NoDownload}]
    /\ \A c \in Clients : running[c] # NoDownload => c \in 1 .. made
    /\ pc \in [Downloads -> Points] /\ att \in [Downloads -> 0 .. MaxAttempts]
    /\ client \in [Downloads -> 1 .. made \cup {NoClient}]
    /\ slot \in [Downloads -> Nat]
    /\ \A d \in Downloads : Knows(pc[d], client[d], slot[d], att[d], Len(pool))

\* The entries of pool p are different connections, and those in use are the ones that
\* the downloads hold, each its own, as h tells.
Fits(p, h) ==
    /\ \A i, j \in 1 .. Len(p) : p[i].client = p[j].client => i = j
    /\ \A d, e \in Downloads : h[d] # NoClient /\ h[e] = h[d] => d = e
    /\ \A i \in 1 .. Len(p) : p[i].inUse <=> \E d \in Downloads : h[d] = p[i].client

\* A download that may still make a connection in this attempt.
Seeking == {"create", "replace", "wait"}

\* The attempts that have come to a connection, or to nothing.
Spent == {x \in Downloads \X (1 .. MaxAttempts) :
            \/ x[2] < att[x[1]]
            \/ x[2] = att[x[1]] /\ pc[x[1]] \notin Seeking}

\* Every connection was made for an attempt of its own.
Counted == made <= Cardinality(Spent)

FewActive == Cardinality(Active) <= Workers

IInv == Typed /\ Fits(pool, client) /\ Counted /\ FewActive /\ NobodyWaits

-----------------------------------------------------------------------------
(* The operators on the pool                                                 *)

LEMMA MinExists ==
    ASSUME NEW I, I \subseteq Nat, I # {}
    PROVE  Min(I) \in I
<1> DEFINE R == OpToRel(<, Nat)
<1>r. IsWellFoundedOn(R, Nat)
  BY NatLessThanWellFounded
<1>o. \A x, y \in Nat : ~(<<y, x>> \in R) => x <= y
  BY DEF OpToRel
<1> HIDE DEF R
<1>1. PICK m \in I : \A y \in I : ~(<<y, m>> \in R)
  BY <1>r, WFMin
<1>2. \A y \in I : m <= y
  BY <1>1, <1>o
<1> QED
  BY <1>2 DEF Min

LEMMA FreeFacts ==
    ASSUME NEW p, Len(p) \in Nat
    PROVE  /\ Free(p) \in 0 .. Len(p)
           /\ Free(p) # 0 => ~p[Free(p)].inUse /\ p[Free(p)].client \notin closed
           /\ Free(p) = 0 => \A i \in 1 .. Len(p) : p[i].inUse \/ p[i].client \in closed
<1> DEFINE I == {i \in 1 .. Len(p) : ~p[i].inUse /\ p[i].client \notin closed}
<1>1. Free(p) = IF I # {} THEN Min(I) ELSE 0
  BY DEF Free, SelectInSeq
<1>2. I # {} => Min(I) \in I
  <2>1. I \subseteq Nat
    OBVIOUS
  <2> HIDE DEF I
  <2> QED
    BY <2>1, MinExists
<1> QED
  BY <1>1, <1>2

LEMMA ClosedIndexFacts ==
    ASSUME NEW p, Len(p) \in Nat
    PROVE  /\ ClosedIndex(p) \in 0 .. Len(p)
           /\ ClosedIndex(p) = 0 => \A i \in 1 .. Len(p) : p[i].client \notin closed
<1> DEFINE I == {i \in 1 .. Len(p) : p[i].client \in closed}
<1>1. ClosedIndex(p) = IF I # {} THEN Min(I) ELSE 0
  BY DEF ClosedIndex, SelectInSeq
<1>2. I # {} => Min(I) \in I
  <2>1. I \subseteq Nat
    OBVIOUS
  <2> HIDE DEF I
  <2> QED
    BY <2>1, MinExists
<1> QED
  BY <1>1, <1>2

LEMMA EntryFine ==
    ASSUME NEW n, NEW p \in Seq(PoolEntry(n))
    PROVE  /\ Len(p) \in Nat
           /\ \A j \in 1 .. Len(p) : p[j].client \in 1 .. n /\ p[j].inUse \in BOOLEAN
<1>1. Len(p) \in Nat /\ \A j \in 1 .. Len(p) : p[j] \in PoolEntry(n)
  BY LenProperties, ElementOfSeq
<1> QED
  BY <1>1 DEF PoolEntry

\* An entry given back ...
LEMMA EntryFree ==
    ASSUME NEW n, NEW p \in Seq(PoolEntry(n)), NEW i \in 1 .. Len(p)
    PROVE  /\ [p EXCEPT ![i].inUse = FALSE] \in Seq(PoolEntry(n))
           /\ Len([p EXCEPT ![i].inUse = FALSE]) = Len(p)
           /\ \A j \in 1 .. Len(p) :
                /\ [p EXCEPT ![i].inUse = FALSE][j].client = p[j].client
                /\ [p EXCEPT ![i].inUse = FALSE][j].inUse = IF j = i THEN FALSE ELSE p[j].inUse
<1> DEFINE e == [p[i] EXCEPT !.inUse = FALSE]
           q == [p EXCEPT ![i].inUse = FALSE]
<1>1. p[i] \in PoolEntry(n)
  BY ElementOfSeq
<1>2. e \in PoolEntry(n) /\ e.client = p[i].client /\ e.inUse = FALSE
  BY <1>1 DEF PoolEntry
<1>3. q = [p EXCEPT ![i] = e]
  BY LenProperties
<1> HIDE DEF e, q
<1>4. /\ q \in Seq(PoolEntry(n)) /\ Len(q) = Len(p)
      /\ \A j \in 1 .. Len(p) : q[j] = IF j = i THEN e ELSE p[j]
  BY <1>2, <1>3, ExceptSeq
<1> QED
  BY <1>2, <1>4 DEF q

\* ... and one that is taken.
LEMMA EntryTaken ==
    ASSUME NEW n, NEW p \in Seq(PoolEntry(n)), NEW i \in 1 .. Len(p)
    PROVE  /\ [p EXCEPT ![i].inUse = TRUE] \in Seq(PoolEntry(n))
           /\ Len([p EXCEPT ![i].inUse = TRUE]) = Len(p)
           /\ \A j \in 1 .. Len(p) :
                /\ [p EXCEPT ![i].inUse = TRUE][j].client = p[j].client
                /\ [p EXCEPT ![i].inUse = TRUE][j].inUse <=> j = i \/ p[j].inUse
<1> DEFINE e == [p[i] EXCEPT !.inUse = TRUE]
           q == [p EXCEPT ![i].inUse = TRUE]
<1>1. p[i] \in PoolEntry(n)
  BY ElementOfSeq
<1>2. e \in PoolEntry(n) /\ e.client = p[i].client /\ e.inUse = TRUE
  BY <1>1 DEF PoolEntry
<1>3. q = [p EXCEPT ![i] = e]
  BY LenProperties
<1> HIDE DEF e, q
<1>4. /\ q \in Seq(PoolEntry(n)) /\ Len(q) = Len(p)
      /\ \A j \in 1 .. Len(p) : q[j] = IF j = i THEN e ELSE p[j]
  BY <1>2, <1>3, ExceptSeq
<1> QED
  BY <1>2, <1>4 DEF q

\* An entry of the pool belongs to nobody when its connection is given back.
LEMMA ReleasedFacts ==
    ASSUME NEW n, NEW p \in Seq(PoolEntry(n)), NEW c,
           \A i, j \in 1 .. Len(p) : p[i].client = p[j].client => i = j
    PROVE  /\ Released(p, c) \in Seq(PoolEntry(n)) /\ Len(Released(p, c)) = Len(p)
           /\ \A j \in 1 .. Len(p) :
                /\ Released(p, c)[j].client = p[j].client
                /\ Released(p, c)[j].inUse <=> p[j].inUse /\ p[j].client # c
<1> DEFINE I == {i \in 1 .. Len(p) : p[i].client = c}
           k == IF I # {} THEN Min(I) ELSE 0
<1>1. Len(p) \in Nat /\ \A j \in 1 .. Len(p) : p[j].inUse \in BOOLEAN
  BY EntryFine
<1>2. Released(p, c) = IF k = 0 THEN p ELSE [p EXCEPT ![k].inUse = FALSE]
  BY DEF Released, SelectInSeq
<1>3. I # {} => Min(I) \in I
  <2>1. I \subseteq Nat
    OBVIOUS
  <2> HIDE DEF I
  <2> QED
    BY <2>1, MinExists
<1>4. CASE I = {}
  BY <1>1, <1>2, <1>4
<1>5. CASE I # {}
  <2>1. k \in 1 .. Len(p) /\ p[k].client = c /\ k # 0
    BY <1>1, <1>3, <1>5
  <2> HIDE DEF k
  <2>2. \A j \in 1 .. Len(p) : p[j].client = c <=> j = k
    BY <2>1
  <2>3. Released(p, c) = [p EXCEPT ![k].inUse = FALSE]
    BY <1>2, <2>1
  <2> HIDE DEF I
  <2> QED
    <3> DEFINE q == [p EXCEPT ![k].inUse = FALSE]
    <3>1. /\ q \in Seq(PoolEntry(n)) /\ Len(q) = Len(p)
          /\ \A j \in 1 .. Len(p) : /\ q[j].client = p[j].client
                                    /\ q[j].inUse = IF j = k THEN FALSE ELSE p[j].inUse
      BY <2>1, EntryFree
    <3> HIDE DEF q
    <3> QED
      BY <2>2, <2>3, <1>1, <3>1 DEF q
<1> QED
  BY <1>4, <1>5

\* A download that gives its connection back leaves it to the pool.
LEMMA ReleasedFits ==
    ASSUME NEW n, NEW p \in Seq(PoolEntry(n)), NEW d \in Downloads,
           NEW h \in [Downloads -> 1 .. n \cup {NoClient}], NoClient \notin 1 .. n, Fits(p, h)
    PROVE  Fits(Released(p, h[d]), [h EXCEPT ![d] = NoClient])
<1> DEFINE q == Released(p, h[d])
           g == [h EXCEPT ![d] = NoClient]
<1>1. /\ Len(q) = Len(p)
      /\ \A j \in 1 .. Len(p) : /\ q[j].client = p[j].client
                                /\ q[j].inUse <=> p[j].inUse /\ p[j].client # h[d]
  BY ReleasedFacts DEF Fits
<1>2. \A e \in Downloads : g[e] = IF e = d THEN NoClient ELSE h[e]
  OBVIOUS
<1>3. \A j \in 1 .. Len(p) : p[j].client \in 1 .. n
  BY EntryFine
<1> HIDE DEF q, g
<1>4. \A i, j \in 1 .. Len(q) : q[i].client = q[j].client => i = j
  BY <1>1 DEF Fits
<1>5. \A e, f \in Downloads : g[e] # NoClient /\ g[f] = g[e] => e = f
  BY <1>2 DEF Fits
<1>6. \A i \in 1 .. Len(q) : q[i].inUse <=> \E e \in Downloads : g[e] = q[i].client
  <2> SUFFICES ASSUME NEW i \in 1 .. Len(p)
               PROVE  q[i].inUse <=> \E e \in Downloads : g[e] = p[i].client
    BY <1>1
  <2>1. p[i].client # NoClient
    BY <1>3
  <2>2. CASE p[i].client = h[d]
    <3>1. \A e \in Downloads : h[e] = p[i].client => e = d
      BY <2>1, <2>2 DEF Fits
    <3> QED
      BY <1>1, <1>2, <2>1, <2>2, <3>1
  <2>3. CASE p[i].client # h[d]
    BY <1>1, <1>2, <2>1, <2>3 DEF Fits
  <2> QED
    BY <2>2, <2>3
<1> QED
  BY <1>4, <1>5, <1>6 DEF Fits, q, g

\* A download without a connection takes one that is not in use.
LEMMA TakeFits ==
    ASSUME NEW n, NEW p \in Seq(PoolEntry(n)), NEW d \in Downloads,
           NEW h \in [Downloads -> 1 .. n \cup {NoClient}], NoClient \notin 1 .. n, Fits(p, h),
           h[d] = NoClient, NEW i \in 1 .. Len(p), ~p[i].inUse
    PROVE  /\ Fits([p EXCEPT ![i].inUse = TRUE], [h EXCEPT ![d] = p[i].client])
           /\ [p EXCEPT ![i].inUse = TRUE] \in Seq(PoolEntry(n))
           /\ Len([p EXCEPT ![i].inUse = TRUE]) = Len(p)
           /\ p[i].client \in 1 .. n
<1> DEFINE q == [p EXCEPT ![i].inUse = TRUE]
           g == [h EXCEPT ![d] = p[i].client]
<1>1. /\ q \in Seq(PoolEntry(n)) /\ Len(q) = Len(p)
      /\ \A j \in 1 .. Len(p) : /\ q[j].client = p[j].client
                                /\ q[j].inUse <=> j = i \/ p[j].inUse
  BY EntryTaken
<1>2. \A e \in Downloads : g[e] = IF e = d THEN p[i].client ELSE h[e]
  OBVIOUS
<1>3. \A j \in 1 .. Len(p) : p[j].client \in 1 .. n /\ p[j].client # NoClient
  BY EntryFine
<1>4. \A e \in Downloads : h[e] # p[i].client
  BY DEF Fits
<1> HIDE DEF q, g
<1>5. \A j, k \in 1 .. Len(q) : q[j].client = q[k].client => j = k
  BY <1>1 DEF Fits
<1>6. \A e, f \in Downloads : g[e] # NoClient /\ g[f] = g[e] => e = f
  BY <1>2, <1>4 DEF Fits
<1>7. \A j \in 1 .. Len(q) : q[j].inUse <=> \E e \in Downloads : g[e] = q[j].client
  <2> SUFFICES ASSUME NEW j \in 1 .. Len(p)
               PROVE  q[j].inUse <=> \E e \in Downloads : g[e] = p[j].client
    BY <1>1
  <2>1. CASE j = i
    BY <1>1, <1>2, <2>1
  <2>2. CASE j # i
    <3>1. p[j].client # p[i].client /\ p[j].client # NoClient
      BY <1>3, <2>2 DEF Fits
    <3>2. q[j].inUse <=> p[j].inUse
      BY <1>1, <2>2
    <3>3. \A e \in Downloads : g[e] = p[j].client <=> h[e] = p[j].client
      BY <1>2, <3>1
    <3>4. p[j].inUse <=> \E e \in Downloads : h[e] = p[j].client
      BY DEF Fits
    <3> QED
      BY <3>2, <3>3, <3>4
  <2> QED
    BY <2>1, <2>2
<1> QED
  BY <1>1, <1>3, <1>5, <1>6, <1>7 DEF Fits, q, g

\* A connection that was just made is nobody else's, at the end of the pool ...
LEMMA AppendFits ==
    ASSUME NEW n \in Nat, NEW p \in Seq(PoolEntry(n)), NEW d \in Downloads,
           NEW h \in [Downloads -> 1 .. n \cup {NoClient}], NoClient \notin 1 .. n + 1, Fits(p, h),
           h[d] = NoClient
    PROVE  /\ Fits(Append(p, Entry(n + 1)), [h EXCEPT ![d] = n + 1])
           /\ Append(p, Entry(n + 1)) \in Seq(PoolEntry(n + 1))
           /\ Len(Append(p, Entry(n + 1))) = Len(p) + 1
<1> DEFINE q == Append(p, Entry(n + 1))
           g == [h EXCEPT ![d] = n + 1]
<1>1. Entry(n + 1) \in PoolEntry(n + 1) /\ p \in Seq(PoolEntry(n + 1))
  <2>1. PoolEntry(n) \subseteq PoolEntry(n + 1)
    BY DEF PoolEntry
  <2> QED
    <3>1. p \in Seq(PoolEntry(n + 1))
      BY <2>1, SeqMonotonic
    <3>2. Entry(n + 1) \in PoolEntry(n + 1)
      BY DEF PoolEntry, Entry
    <3> QED
      BY <3>1, <3>2
<1>2. /\ q \in Seq(PoolEntry(n + 1)) /\ Len(q) = Len(p) + 1 /\ Len(p) \in Nat
      /\ \A j \in 1 .. Len(p) : q[j] = p[j]
      /\ q[Len(p) + 1] = Entry(n + 1)
  BY <1>1, AppendProperties, LenProperties
<1>3. \A e \in Downloads : g[e] = IF e = d THEN n + 1 ELSE h[e]
  OBVIOUS
<1>4. \A j \in 1 .. Len(p) : p[j].client \in 1 .. n
  BY EntryFine
<1> HIDE DEF q, g
<1>5. /\ q[Len(p) + 1].client = n + 1 /\ q[Len(p) + 1].inUse
      /\ \A j \in 1 .. Len(p) : q[j].client \in 1 .. n /\ q[j].client # n + 1
  BY <1>2, <1>4 DEF Entry
<1>6. \A j, k \in 1 .. Len(q) : q[j].client = q[k].client => j = k
  BY <1>2, <1>5 DEF Fits
<1>7. \A e, f \in Downloads : g[e] # NoClient /\ g[f] = g[e] => e = f
  BY <1>3 DEF Fits
<1>8. \A j \in 1 .. Len(q) : q[j].inUse <=> \E e \in Downloads : g[e] = q[j].client
  <2> SUFFICES ASSUME NEW j \in 1 .. Len(q)
               PROVE  q[j].inUse <=> \E e \in Downloads : g[e] = q[j].client
    OBVIOUS
  <2>1. CASE j = Len(p) + 1
    BY <2>1, <1>3, <1>5
  <2>2. CASE j \in 1 .. Len(p)
    <3>1. q[j].client = p[j].client /\ q[j].inUse = p[j].inUse /\ q[j].client # n + 1
          /\ q[j].client # NoClient
      BY <2>2, <1>2, <1>5
    <3>2. \A e \in Downloads : g[e] = q[j].client <=> h[e] = q[j].client
      BY <1>3, <3>1
    <3>3. p[j].inUse <=> \E e \in Downloads : h[e] = p[j].client
      BY <2>2 DEF Fits
    <3> QED
      BY <3>1, <3>2, <3>3
  <2> QED
    BY <1>2, <2>1, <2>2
<1> QED
  BY <1>2, <1>6, <1>7, <1>8 DEF Fits, q, g

\* ... or in the place of one that has closed.
LEMMA ReplaceFits ==
    ASSUME NEW n \in Nat, NEW p \in Seq(PoolEntry(n)), NEW d \in Downloads,
           NEW h \in [Downloads -> 1 .. n \cup {NoClient}], NoClient \notin 1 .. n + 1, Fits(p, h),
           h[d] = NoClient, NEW i \in 1 .. Len(p)
    PROVE  /\ Fits([p EXCEPT ![i] = Entry(n + 1)], [h EXCEPT ![d] = n + 1])
           /\ [p EXCEPT ![i] = Entry(n + 1)] \in Seq(PoolEntry(n + 1))
           /\ Len([p EXCEPT ![i] = Entry(n + 1)]) = Len(p)
<1> DEFINE q == [p EXCEPT ![i] = Entry(n + 1)]
           g == [h EXCEPT ![d] = n + 1]
<1>1. Entry(n + 1) \in PoolEntry(n + 1) /\ p \in Seq(PoolEntry(n + 1))
  <2>1. PoolEntry(n) \subseteq PoolEntry(n + 1)
    BY DEF PoolEntry
  <2> QED
    <3>1. p \in Seq(PoolEntry(n + 1))
      BY <2>1, SeqMonotonic
    <3>2. Entry(n + 1) \in PoolEntry(n + 1)
      BY DEF PoolEntry, Entry
    <3> QED
      BY <3>1, <3>2
<1>2. /\ q \in Seq(PoolEntry(n + 1)) /\ Len(q) = Len(p)
      /\ \A j \in 1 .. Len(p) : q[j] = IF j = i THEN Entry(n + 1) ELSE p[j]
  BY <1>1, ExceptSeq
<1>3. \A e \in Downloads : g[e] = IF e = d THEN n + 1 ELSE h[e]
  OBVIOUS
<1>4. \A j \in 1 .. Len(p) : p[j].client \in 1 .. n
  BY EntryFine
<1> HIDE DEF q, g
<1>5. /\ q[i].client = n + 1 /\ q[i].inUse
      /\ \A j \in 1 .. Len(p) : j # i => q[j] = p[j] /\ q[j].client \in 1 .. n /\ q[j].client # n + 1
  BY <1>2, <1>4 DEF Entry
<1>6. \A j, k \in 1 .. Len(q) : q[j].client = q[k].client => j = k
  BY <1>2, <1>5 DEF Fits
<1>7. \A e, f \in Downloads : g[e] # NoClient /\ g[f] = g[e] => e = f
  BY <1>3 DEF Fits
<1>8. \A j \in 1 .. Len(q) : q[j].inUse <=> \E e \in Downloads : g[e] = q[j].client
  <2> SUFFICES ASSUME NEW j \in 1 .. Len(p)
               PROVE  q[j].inUse <=> \E e \in Downloads : g[e] = q[j].client
    BY <1>2
  <2>1. CASE j = i
    BY <2>1, <1>3, <1>5
  <2>2. CASE j # i
    <3>1. q[j] = p[j] /\ q[j].client # n + 1 /\ q[j].client # NoClient
      BY <2>2, <1>5
    <3>2. \A e \in Downloads : g[e] = q[j].client <=> h[e] = q[j].client
      BY <1>3, <3>1
    <3>3. p[j].inUse <=> \E e \in Downloads : h[e] = p[j].client
      BY DEF Fits
    <3> QED
      BY <3>1, <3>2, <3>3
  <2> QED
    BY <2>1, <2>2
<1> QED
  BY <1>2, <1>6, <1>7, <1>8 DEF Fits, q, g

-----------------------------------------------------------------------------
(* Counting                                                                  *)

LEMMA Constants ==
    /\ Cardinality(Downloads) \in Nat /\ Cardinality(Downloads) * MaxAttempts \in Nat
    /\ MaxAttempts \in Nat \ {0} /\ Workers \in Nat \ {0} /\ Sizes \subseteq Nat
<1>1. Cardinality(Downloads) \in Nat
  BY FtpPoolAssumption, FS_CardinalityType
<1> QED
  BY <1>1, FtpPoolAssumption

LEMMA AttemptsFinite ==
    LET All == Downloads \X (1 .. MaxAttempts)
    IN  IsFiniteSet(All) /\ Cardinality(All) = Cardinality(Downloads) * MaxAttempts
<1>1. IsFiniteSet(1 .. MaxAttempts) /\ Cardinality(1 .. MaxAttempts) = MaxAttempts
  BY Constants, FS_Interval
<1> QED
  BY <1>1, FtpPoolAssumption, FS_Product

LEMMA SpentFinite == IsFiniteSet(Spent) /\ Cardinality(Spent) \in Nat
<1>1. Spent \subseteq Downloads \X (1 .. MaxAttempts)
  BY DEF Spent
<1>2. IsFiniteSet(Spent)
  BY <1>1, AttemptsFinite, FS_Subset
<1> QED
  BY <1>2, FS_CardinalityType

LEMMA ActiveFinite == IsFiniteSet(Active) /\ Cardinality(Active) \in Nat
<1>1. Active \subseteq Downloads
  BY DEF Active
<1>2. IsFiniteSet(Active)
  BY <1>1, FtpPoolAssumption, FS_Subset
<1> QED
  BY <1>2, FS_CardinalityType

\* The connections made are among those that the constants allow, and an attempt that may
\* still make one has its number left.
LEMMA MadeBound ==
    ASSUME Typed, Counted
    PROVE  /\ made <= Cardinality(Downloads) * MaxAttempts
           /\ NoClient \notin 1 .. made
           /\ \A d \in Downloads : pc[d] \in Seeking => NoClient \notin 1 .. made + 1
<1> DEFINE All == Downloads \X (1 .. MaxAttempts)
<1>1. Spent \subseteq All
  BY DEF Spent
<1>2. IsFiniteSet(All) /\ Cardinality(All) = Cardinality(Downloads) * MaxAttempts
  BY AttemptsFinite
<1>3. Cardinality(Spent) <= Cardinality(All)
  BY <1>1, <1>2, FS_Subset
<1>4. made <= Cardinality(Downloads) * MaxAttempts
  BY <1>2, <1>3, Constants, SpentFinite DEF Typed, Counted
<1>5. ASSUME NEW d \in Downloads, pc[d] \in Seeking
      PROVE  made + 1 <= Cardinality(Downloads) * MaxAttempts
  <2> DEFINE x == <<d, att[d]>>
  <2>1. att[d] \in 1 .. MaxAttempts
    BY <1>5, Constants DEF Typed, Knows, Seeking
  <2>2. x \in All /\ x \notin Spent
    BY <2>1, <1>5 DEF Spent
  <2>3. Spent \cup {x} \subseteq All
    BY <1>1, <2>2
  <2> HIDE DEF x, All
  <2>4. Cardinality(Spent \cup {x}) = Cardinality(Spent) + 1
    BY <2>2, SpentFinite, FS_AddElement
  <2>5. Cardinality(Spent \cup {x}) <= Cardinality(All)
    BY <2>3, <1>2, FS_Subset
  <2> QED
    BY <2>4, <2>5, <1>2, Constants, SpentFinite DEF Typed, Counted
<1> QED
  BY <1>4, <1>5, Constants, FtpPoolAssumption DEF Clients, Typed

-----------------------------------------------------------------------------
(* The initial states, and a step of one download                            *)

LEMMA InitIInv == Init => IInv
<1> SUFFICES ASSUME Init PROVE IInv
  OBVIOUS
<1> USE DEF Init
<1>1. Typed
  <2>1. pool \in Seq(PoolEntry(made)) /\ Len(pool) = 0
    OBVIOUS
  <2>2. \A d \in Downloads : Knows(pc[d], client[d], slot[d], att[d], Len(pool))
    BY <2>1, Constants DEF Knows, Points
  <2>3. /\ made \in Nat /\ 0 \in 0 .. MaxAttempts
        /\ \A c \in Clients : running[c] = NoDownload
        /\ att \in [Downloads -> 0 .. MaxAttempts]
    BY Constants
  <2> QED
    BY <2>1, <2>2, <2>3 DEF Typed, Points
<1>2. Fits(pool, client)
  <2>1. Len(pool) = 0
    OBVIOUS
  <2> QED
    BY <2>1 DEF Fits
<1>3. Counted
  BY SpentFinite DEF Counted
<1>4. FewActive
  <2>1. Active = {}
    BY DEF Active
  <2> QED
    BY <2>1, FS_EmptySet, Constants DEF FewActive
<1> QED
  BY <1>1, <1>2, <1>3, <1>4 DEF IInv, NobodyWaits

\* What a step leaves of the clients' flags and transfers.
Calm ==
    /\ closed \subseteq 1 .. made
    /\ running \in [Clients -> Downloads \cup {NoDownload}]
    /\ \A c \in Clients : running[c] # NoDownload => c \in 1 .. made

\* Download d goes to q with connection c, index s and attempt a.
Moves(d, q, c, s, a) ==
    /\ pc' = [pc EXCEPT ![d] = q] /\ client' = [client EXCEPT ![d] = c]
    /\ slot' = [slot EXCEPT ![d] = s] /\ att' = [att EXCEPT ![d] = a]
    /\ UNCHANGED <<maxSize, drained>>

LEMMA DownloadStep ==
    ASSUME IInv, NEW d \in Downloads, NEW q \in Points, NEW c, NEW s, NEW a,
           Moves(d, q, c, s, a), Calm', made' \in Nat,
           pool' \in Seq(PoolEntry(made')), Len(pool') >= Len(pool), Fits(pool', client'),
           c \in 1 .. made' \cup {NoClient}, Knows(q, c, s, a, Len(pool')),
           \/ made' = made
           \/ made' = made + 1 /\ pc[d] \in Seeking /\ q \notin Seeking /\ a = att[d],
           \/ a = att[d] /\ (q \in Seeking => pc[d] \in Seeking)
           \/ a = att[d] + 1,
           \/ q \in {"idle", "done"}
           \/ pc[d] \notin {"idle", "done"}
           \/ Cardinality(Active) < Workers,
           maxSize > Workers => q # "wait"
    PROVE  IInv'
<1> USE DEF IInv, Moves
<1>0. Len(pool) \in Nat /\ Len(pool') \in Nat /\ made <= made' /\ att[d] \in Nat
  BY LenProperties DEF Typed
<1>1. Typed'
  <2>1. s \in Nat /\ a \in 0 .. MaxAttempts
    BY <1>0 DEF Knows
  <2>2. client' \in [Downloads -> 1 .. made' \cup {NoClient}]
    BY <1>0 DEF Typed
  <2>3. \A e \in Downloads : Knows(pc'[e], client'[e], slot'[e], att'[e], Len(pool'))
    <3> SUFFICES ASSUME NEW e \in Downloads
                 PROVE  Knows(pc'[e], client'[e], slot'[e], att'[e], Len(pool'))
      OBVIOUS
    <3>1. CASE e = d
      BY <3>1 DEF Typed
    <3>2. CASE e # d
      <4>1. Knows(pc[e], client[e], slot[e], att[e], Len(pool))
        BY DEF Typed
      <4>2. /\ pc'[e] = pc[e] /\ client'[e] = client[e] /\ slot'[e] = slot[e]
            /\ att'[e] = att[e]
        BY <3>2 DEF Typed
      <4> QED
        BY <4>1, <4>2, <1>0 DEF Knows
    <3> QED
      BY <3>1, <3>2
  <2> QED
    BY <2>1, <2>2, <2>3 DEF Typed, Calm
<1>2. Counted'
  <2>1. Spent \subseteq Spent'
    BY <1>0 DEF Typed, Spent
  <2>f. IsFiniteSet(Spent') /\ Cardinality(Spent') \in Nat
    <3>1. Spent' \subseteq Downloads \X (1 .. MaxAttempts)
      BY DEF Spent
    <3>2. IsFiniteSet(Spent')
      BY <3>1, AttemptsFinite, FS_Subset
    <3> QED
      BY <3>2, FS_CardinalityType
  <2>2. CASE made' = made
    <3>1. Cardinality(Spent) <= Cardinality(Spent')
      BY <2>1, <2>f, FS_Subset
    <3> QED
      BY <2>2, <2>f, <3>1, SpentFinite DEF Counted, Typed
  <2>3. CASE made' = made + 1 /\ pc[d] \in Seeking /\ q \notin Seeking /\ a = att[d]
    <3> DEFINE x == <<d, att[d]>>
    <3>1. att[d] \in 1 .. MaxAttempts
      BY <2>3, Constants DEF Typed, Knows, Seeking
    <3>2. x \in Spent' /\ x \notin Spent
      BY <2>3, <3>1 DEF Spent, Typed
    <3>3. Spent \cup {x} \subseteq Spent'
      BY <2>1, <3>2
    <3> HIDE DEF x
    <3>4. Cardinality(Spent \cup {x}) = Cardinality(Spent) + 1
      BY <3>2, SpentFinite, FS_AddElement
    <3>5. Cardinality(Spent \cup {x}) <= Cardinality(Spent')
      BY <3>3, <2>f, FS_Subset
    <3> QED
      BY <3>4, <3>5, <2>3, <2>f, SpentFinite DEF Counted, Typed
  <2> QED
    BY <2>2, <2>3
<1>3. FewActive'
  <2>1. CASE q \in {"idle", "done"} \/ pc[d] \notin {"idle", "done"}
    <3>1. Active' \subseteq Active
      BY <2>1 DEF Active, Typed
    <3>2. IsFiniteSet(Active') /\ Cardinality(Active') <= Cardinality(Active)
      BY <3>1, ActiveFinite, FS_Subset
    <3>3. Cardinality(Active') \in Nat
      BY <3>2, FS_CardinalityType
    <3> QED
      BY <3>2, <3>3, ActiveFinite, Constants DEF FewActive
  <2>2. CASE Cardinality(Active) < Workers
    <3>1. Active' \subseteq Active \cup {d}
      BY DEF Active, Typed
    <3>2. /\ IsFiniteSet(Active \cup {d})
          /\ Cardinality(Active \cup {d}) \in {Cardinality(Active), Cardinality(Active) + 1}
      BY ActiveFinite, FS_AddElement
    <3>3. IsFiniteSet(Active') /\ Cardinality(Active') <= Cardinality(Active \cup {d})
      BY <3>1, <3>2, FS_Subset
    <3>4. Cardinality(Active') \in Nat /\ Cardinality(Active \cup {d}) \in Nat
      BY <3>2, <3>3, FS_CardinalityType
    <3> QED
      BY <2>2, <3>2, <3>3, <3>4, ActiveFinite, Constants DEF FewActive
  <2> QED
    BY <2>1, <2>2
<1>4. NobodyWaits'
  BY DEF Typed, NobodyWaits
<1> QED
  BY <1>1, <1>2, <1>3, <1>4

\* The step of a download that makes no connection.
LEMMA StayStep ==
    ASSUME IInv, NEW d \in Downloads, NEW q \in Points, NEW c \in 1 .. made \cup {NoClient},
           NEW s, NEW a, Moves(d, q, c, s, a), Calm', made' = made,
           pool' \in Seq(PoolEntry(made)), Len(pool') = Len(pool), Fits(pool', client'),
           Knows(q, c, s, a, Len(pool)),
           \/ a = att[d] /\ (q \in Seeking => pc[d] \in Seeking)
           \/ a = att[d] + 1,
           \/ q \in {"idle", "done"}
           \/ pc[d] \notin {"idle", "done"}
           \/ Cardinality(Active) < Workers,
           maxSize > Workers => q # "wait"
    PROVE  IInv'
<1>1. made \in Nat /\ pool \in Seq(PoolEntry(made))
  BY DEF IInv, Typed
<1>2. Len(pool) \in Nat
  BY <1>1, EntryFine
<1>3. /\ made' \in Nat /\ pool' \in Seq(PoolEntry(made')) /\ Len(pool') >= Len(pool)
      /\ c \in 1 .. made' \cup {NoClient} /\ Knows(q, c, s, a, Len(pool'))
  BY <1>1, <1>2
<1> QED
  BY <1>3, DownloadStep

-----------------------------------------------------------------------------
(* The parts the steps are made of                                           *)

\* The pool a download looks at when it has given its connection back.
LEMMA GivenBack ==
    ASSUME IInv, NEW d \in Downloads
    PROVE  LET p == Released(pool, client[d])
           IN  /\ p \in Seq(PoolEntry(made)) /\ Len(p) = Len(pool)
               /\ Fits(p, [client EXCEPT ![d] = NoClient])
<1>1. /\ pool \in Seq(PoolEntry(made)) /\ client \in [Downloads -> 1 .. made \cup {NoClient}]
      /\ Fits(pool, client)
  BY DEF IInv, Typed
<1>2. NoClient \notin 1 .. made
  BY MadeBound DEF IInv
<1>3. \A i, j \in 1 .. Len(pool) : pool[i].client = pool[j].client => i = j
  BY <1>1 DEF Fits
<1>4. Fits(Released(pool, client[d]), [client EXCEPT ![d] = NoClient])
  BY <1>1, <1>2, ReleasedFits
<1>5. /\ Released(pool, client[d]) \in Seq(PoolEntry(made))
      /\ Len(Released(pool, client[d])) = Len(pool)
  BY <1>1, <1>3, ReleasedFacts
<1> QED
  BY <1>4, <1>5

\* Where a download that begins an attempt, or looks again, may stand.
Asking(d, a) ==
    /\ a \in 1 .. MaxAttempts /\ slot[d] = 0
    /\ \/ a = att[d] /\ pc[d] = "wait"
       \/ a = att[d] + 1 /\ pc[d] \in {"idle", "backoff"}
    /\ pc[d] # "idle" \/ Cardinality(Active) < Workers

LEMMA TakeStep ==
    ASSUME IInv, NEW d \in Downloads, NEW a, Asking(d, a), att' = [att EXCEPT ![d] = a],
           UNCHANGED <<maxSize, made, closed, running, drained>>,
           NEW p \in Seq(PoolEntry(made)), Len(p) = Len(pool),
           Fits(p, [client EXCEPT ![d] = NoClient]),
           Free(p) # 0, Take(d, p, Free(p))
    PROVE  IInv'
<1> DEFINE h == [client EXCEPT ![d] = NoClient]
           i == Free(p)
<1>1. Len(p) \in Nat
  BY EntryFine
<1>2. i \in 1 .. Len(p) /\ ~p[i].inUse
  BY <1>1, FreeFacts
<1>3. /\ h \in [Downloads -> 1 .. made \cup {NoClient}] /\ h[d] = NoClient /\ Fits(p, h)
      /\ NoClient \notin 1 .. made
  BY MadeBound DEF IInv, Typed
<1>4. /\ pool' = [p EXCEPT ![i].inUse = TRUE] /\ pc' = [pc EXCEPT ![d] = "ready"]
      /\ client' = [client EXCEPT ![d] = p[i].client] /\ slot' = slot
  BY DEF Take
<1>5. client' = [h EXCEPT ![d] = p[i].client] /\ Moves(d, "ready", p[i].client, 0, a)
  BY <1>4 DEF IInv, Typed, Asking, Moves
<1> HIDE DEF h, i
<1>6. /\ Fits([p EXCEPT ![i].inUse = TRUE], [h EXCEPT ![d] = p[i].client])
      /\ [p EXCEPT ![i].inUse = TRUE] \in Seq(PoolEntry(made))
      /\ Len([p EXCEPT ![i].inUse = TRUE]) = Len(p)
      /\ p[i].client \in 1 .. made
  BY <1>2, <1>3, TakeFits
<1>7. Knows("ready", p[i].client, 0, a, Len(pool))
  BY <1>3, <1>6, Constants DEF Knows, Points, Asking
<1>8. Calm' /\ made' = made /\ "ready" \in Points
  BY DEF IInv, Typed, Calm, Points
<1>9. /\ (a = att[d] /\ pc[d] \in Seeking) \/ a = att[d] + 1
      /\ pc[d] \notin {"idle", "done"} \/ Cardinality(Active) < Workers
  BY DEF Asking, Seeking
<1> QED
  BY <1>4, <1>5, <1>6, <1>7, <1>8, <1>9, StayStep

\* In a full pool every entry that is neither free nor closed is held by another download.
LEMMA FullPool ==
    ASSUME IInv, NEW d \in Downloads, NEW p \in Seq(PoolEntry(made)),
           Fits(p, [client EXCEPT ![d] = NoClient]), Len(p) >= maxSize,
           Free(p) = 0, ClosedIndex(p) = 0
    PROVE  maxSize <= Workers
<1> DEFINE h == [client EXCEPT ![d] = NoClient]
           Holder(i) == CHOOSE e \in Downloads : h[e] = p[i].client
           f == [i \in 1 .. Len(p) |-> Holder(i)]
<1>1. Len(p) \in Nat /\ NoClient \notin 1 .. made
      /\ \A i \in 1 .. Len(p) : p[i].client \in 1 .. made
  BY EntryFine, MadeBound DEF IInv
<1>2. \A i \in 1 .. Len(p) : p[i].inUse
  BY <1>1, FreeFacts, ClosedIndexFacts
<1>3. \A i \in 1 .. Len(p) : \E e \in Downloads : h[e] = p[i].client
  BY <1>2 DEF Fits
<1>4. \A i \in 1 .. Len(p) : Holder(i) \in Downloads /\ h[Holder(i)] = p[i].client
  BY <1>3
<1>5. \A e \in Downloads : h[e] # NoClient => e \in Active
  BY DEF IInv, Typed, Knows, Active
<1>6. \A i \in 1 .. Len(p) : Holder(i) \in Active
  BY <1>1, <1>4, <1>5
<1>7. \A i, j \in 1 .. Len(p) : p[i].client = p[j].client => i = j
  BY DEF Fits
<1> HIDE DEF h, Holder
<1>8. f \in Injection(1 .. Len(p), Active)
  <2>1. f \in [1 .. Len(p) -> Active] /\ \A i \in 1 .. Len(p) : f[i] = Holder(i)
    BY <1>6
  <2>2. \A i, j \in 1 .. Len(p) : Holder(i) = Holder(j) => i = j
    BY <1>4, <1>7
  <2> HIDE DEF f
  <2> QED
    BY <2>1, <2>2 DEF Injection, IsInjective
<1>9. Cardinality(1 .. Len(p)) <= Cardinality(Active)
  BY <1>8, ActiveFinite, FS_Injection
<1>10. Cardinality(1 .. Len(p)) = Len(p)
  BY <1>1, FS_Interval
<1>11. Cardinality(Active) <= Workers /\ maxSize \in Nat
  BY Constants DEF IInv, FewActive, Typed
<1> QED
  BY <1>1, <1>9, <1>10, <1>11, ActiveFinite, Constants

LEMMA PollStep ==
    ASSUME IInv, NEW d \in Downloads, NEW a, Asking(d, a), att' = [att EXCEPT ![d] = a],
           UNCHANGED <<maxSize, made, closed, running, drained>>,
           NEW p \in Seq(PoolEntry(made)), Len(p) = Len(pool),
           Fits(p, [client EXCEPT ![d] = NoClient]),
           Len(p) >= maxSize \/ pc[d] = "wait", Poll(d, p)
    PROVE  IInv'
<1>1. CASE Free(p) # 0
  BY <1>1, TakeStep DEF Poll
<1>2. CASE Free(p) = 0
  <2> DEFINE k == ClosedIndex(p)
             q == IF k # 0 THEN "replace" ELSE "wait"
  <2>1. pool' = p /\ client' = [client EXCEPT ![d] = NoClient] /\ Moves(d, q, NoClient, k, a)
    BY <1>2 DEF Poll, Moves
  <2>2. k \in 0 .. Len(p) /\ Len(p) \in Nat
    BY EntryFine, ClosedIndexFacts
  <2>3. Knows(q, NoClient, k, a, Len(p)) /\ q \in Points /\ q \in Seeking /\ a # 0
    BY <2>2, Constants DEF Knows, Points, Asking, Seeking
  <2>4. maxSize > Workers => q # "wait"
    <3>1. maxSize \in Nat
      BY Constants DEF IInv, Typed
    <3>2. CASE pc[d] = "wait"
      BY <3>2 DEF IInv, NobodyWaits
    <3>3. CASE Len(p) >= maxSize /\ k = 0
      <4>1. maxSize <= Workers
        BY <1>2, <3>3, FullPool
      <4> QED
        BY <3>1, <4>1, Constants
    <3> QED
      BY <3>2, <3>3
  <2>5. Calm' /\ made' = made
    BY DEF IInv, Typed, Calm
  <2>6. (a = att[d] /\ pc[d] \in Seeking) \/ a = att[d] + 1
    BY DEF Asking, Seeking
  <2>7. pc[d] \notin {"idle", "done"} \/ Cardinality(Active) < Workers
    BY DEF Asking
  <2> HIDE DEF k, q
  <2> QED
    BY <2>1, <2>2, <2>3, <2>4, <2>5, <2>6, <2>7, StayStep
<1> QED
  BY <1>1, <1>2

LEMMA AcquireStep ==
    ASSUME IInv, NEW d \in Downloads, NEW a, Asking(d, a), pc[d] # "wait",
           att' = [att EXCEPT ![d] = a],
           UNCHANGED <<maxSize, made, closed, running, drained>>,
           NEW p \in Seq(PoolEntry(made)), Len(p) = Len(pool),
           Fits(p, [client EXCEPT ![d] = NoClient]), Acquire(d, p)
    PROVE  IInv'
<1>1. CASE Free(p) # 0 /\ Take(d, p, Free(p))
  BY <1>1, TakeStep
<1>2. CASE /\ Free(p) = 0 /\ Len(p) < maxSize
           /\ pool' = p
           /\ client' = [client EXCEPT ![d] = NoClient]
           /\ pc' = [pc EXCEPT ![d] = "create"]
           /\ UNCHANGED slot
  <2>1. Moves(d, "create", NoClient, 0, a)
    BY <1>2 DEF IInv, Typed, Asking, Moves
  <2>2. Knows("create", NoClient, 0, a, Len(p)) /\ "create" \in Points /\ Len(p) \in Nat
    BY EntryFine, Constants DEF Knows, Points, Asking
  <2>3. Calm' /\ made' = made
    BY DEF IInv, Typed, Calm
  <2>4. /\ a = att[d] + 1
        /\ pc[d] \notin {"idle", "done"} \/ Cardinality(Active) < Workers
    BY DEF Asking
  <2> QED
    BY <1>2, <2>1, <2>2, <2>3, <2>4, StayStep
<1>3. CASE Free(p) = 0 /\ Len(p) >= maxSize /\ Poll(d, p)
  BY <1>3, PollStep
<1> QED
  BY <1>1, <1>2, <1>3 DEF Acquire

\* A download that is over, or that will try again.
LEMMA FinishStep ==
    ASSUME IInv, NEW d \in Downloads, pc[d] \notin {"idle", "done"}, Finish(d),
           UNCHANGED <<maxSize, made, drained>>, Calm'
    PROVE  IInv'
<1>1. /\ pool' \in Seq(PoolEntry(made)) /\ Len(pool') = Len(pool) /\ Fits(pool', client')
  BY GivenBack DEF Finish
<1>m. Moves(d, "done", NoClient, 0, att[d])
  BY DEF Finish, IInv, Typed, Moves
<1>2. Knows("done", NoClient, 0, att[d], Len(pool)) /\ "done" \in Points /\ "done" \notin Seeking
  BY DEF IInv, Typed, Knows, Points, Seeking
<1> QED
  BY <1>1, <1>m, <1>2, StayStep

LEMMA FailStep ==
    ASSUME IInv, NEW d \in Downloads, pc[d] \notin {"idle", "done"}, FailAttempt(d),
           UNCHANGED <<maxSize, made, drained>>, Calm'
    PROVE  IInv'
<1>1. CASE /\ att[d] < MaxAttempts
           /\ pc' = [pc EXCEPT ![d] = "backoff"]
           /\ slot' = [slot EXCEPT ![d] = 0]
           /\ UNCHANGED <<pool, client, att>>
  <2>1. /\ client[d] \in 1 .. made \cup {NoClient} /\ Moves(d, "backoff", client[d], 0, att[d])
        /\ pool' = pool /\ pool \in Seq(PoolEntry(made)) /\ Fits(pool', client')
    BY <1>1 DEF IInv, Typed, Moves
  <2>2. /\ Knows("backoff", client[d], 0, att[d], Len(pool))
        /\ "backoff" \in Points /\ "backoff" \notin Seeking
    BY <1>1 DEF IInv, Typed, Knows, Points, Seeking
  <2> QED
    BY <2>1, <2>2, StayStep
<1>2. CASE att[d] = MaxAttempts /\ Finish(d)
  BY <1>2, FinishStep
<1> QED
  BY <1>1, <1>2 DEF FailAttempt

-----------------------------------------------------------------------------
(* The actions                                                               *)

LEMMA StartStep == ASSUME IInv, NEW d \in Downloads, Start(d), UNCHANGED maxSize PROVE IInv'
<1>1. /\ pc[d] = "idle" /\ att' = [att EXCEPT ![d] = 1] /\ Acquire(d, pool)
      /\ UNCHANGED <<maxSize, made, closed, running, drained>>
      /\ Cardinality(Active) < Workers
  BY DEF Start
<1>2. att[d] = 0 /\ slot[d] = 0 /\ client[d] = NoClient
  BY <1>1 DEF IInv, Typed, Knows
<1>3. Asking(d, 1)
  BY <1>1, <1>2, Constants DEF Asking
<1>4. pool \in Seq(PoolEntry(made)) /\ Fits(pool, [client EXCEPT ![d] = NoClient])
  BY <1>2 DEF IInv, Typed
<1> QED
  BY <1>1, <1>3, <1>4, AcquireStep

LEMMA RetryStep == ASSUME IInv, NEW d \in Downloads, Retry(d), UNCHANGED maxSize PROVE IInv'
<1> DEFINE p == Released(pool, client[d])
<1>1. /\ pc[d] = "backoff" /\ att' = [att EXCEPT ![d] = att[d] + 1] /\ Acquire(d, p)
      /\ UNCHANGED <<maxSize, made, closed, running, drained>>
  BY DEF Retry
<1>2. Asking(d, att[d] + 1)
  <2>1. /\ att[d] \in 0 .. MaxAttempts /\ att[d] < MaxAttempts /\ slot[d] = 0
    BY <1>1 DEF IInv, Typed, Knows
  <2> QED
    BY <1>1, <2>1, Constants DEF Asking
<1>3. /\ p \in Seq(PoolEntry(made)) /\ Len(p) = Len(pool)
      /\ Fits(p, [client EXCEPT ![d] = NoClient])
  BY GivenBack
<1> HIDE DEF p
<1> QED
  BY <1>1, <1>2, <1>3, AcquireStep

LEMMA CreatedStep == ASSUME IInv, NEW d \in Downloads, Created(d), UNCHANGED maxSize PROVE IInv'
<1> DEFINE p == Append(pool, Entry(made + 1))
<1>1. /\ pc[d] = "create" /\ made' = made + 1 /\ pool' = p
      /\ client' = [client EXCEPT ![d] = made + 1] /\ pc' = [pc EXCEPT ![d] = "ready"]
      /\ UNCHANGED <<closed, running, att, slot, drained, maxSize>>
  BY DEF Created
<1>2. /\ made \in Nat /\ pool \in Seq(PoolEntry(made)) /\ client[d] = NoClient
      /\ client \in [Downloads -> 1 .. made \cup {NoClient}] /\ Fits(pool, client)
      /\ slot[d] = 0 /\ att[d] # 0 /\ att[d] \in 0 .. MaxAttempts
  BY <1>1 DEF IInv, Typed, Knows
<1>3. NoClient \notin 1 .. made + 1
  BY <1>1, MadeBound DEF IInv, Seeking
<1>4. /\ p \in Seq(PoolEntry(made + 1)) /\ Len(p) = Len(pool) + 1
      /\ Fits(p, [client EXCEPT ![d] = made + 1])
  BY <1>2, <1>3, AppendFits
<1> HIDE DEF p
<1>5. Moves(d, "ready", made + 1, 0, att[d])
  BY <1>1, <1>2 DEF IInv, Typed, Moves
<1>6. Len(pool) \in Nat /\ Len(pool') >= Len(pool) /\ pool' \in Seq(PoolEntry(made'))
  BY <1>1, <1>2, <1>4, EntryFine
<1>7. /\ Knows("ready", made + 1, 0, att[d], Len(pool')) /\ "ready" \in Points
      /\ made' \in Nat /\ made + 1 \in 1 .. made'
  BY <1>1, <1>2, <1>3, Constants DEF Knows, Points
<1>8. Calm'
  BY <1>1, <1>2 DEF IInv, Typed, Calm
<1>9. "create" \in Seeking /\ "ready" \notin Seeking /\ Fits(pool', client')
  BY <1>1, <1>4 DEF Seeking
<1> QED
  BY <1>1, <1>5, <1>6, <1>7, <1>8, <1>9, DownloadStep

LEMMA ReplacedStep == ASSUME IInv, NEW d \in Downloads, Replaced(d), UNCHANGED maxSize PROVE IInv'
<1> DEFINE i == slot[d]
           p == [pool EXCEPT ![i] = Entry(made + 1)]
<1>1. /\ pc[d] = "replace" /\ made' = made + 1 /\ pool' = p
      /\ client' = [client EXCEPT ![d] = made + 1] /\ pc' = [pc EXCEPT ![d] = "ready"]
      /\ slot' = [slot EXCEPT ![d] = 0]
      /\ UNCHANGED <<closed, running, att, drained, maxSize>>
  BY DEF Replaced
<1>2. /\ made \in Nat /\ pool \in Seq(PoolEntry(made)) /\ client[d] = NoClient
      /\ client \in [Downloads -> 1 .. made \cup {NoClient}] /\ Fits(pool, client)
      /\ i \in 1 .. Len(pool) /\ att[d] # 0 /\ att[d] \in 0 .. MaxAttempts
  BY <1>1 DEF IInv, Typed, Knows
<1>3. NoClient \notin 1 .. made + 1
  BY <1>1, MadeBound DEF IInv, Seeking
<1> HIDE DEF i
<1>4. /\ p \in Seq(PoolEntry(made + 1)) /\ Len(p) = Len(pool)
      /\ Fits(p, [client EXCEPT ![d] = made + 1])
  BY <1>2, <1>3, ReplaceFits
<1> HIDE DEF p
<1>5. Moves(d, "ready", made + 1, 0, att[d])
  BY <1>1, <1>2 DEF IInv, Typed, Moves
<1>6. Len(pool) \in Nat /\ Len(pool') >= Len(pool) /\ pool' \in Seq(PoolEntry(made'))
  BY <1>1, <1>2, <1>4, EntryFine
<1>7. /\ Knows("ready", made + 1, 0, att[d], Len(pool')) /\ "ready" \in Points
      /\ made' \in Nat /\ made + 1 \in 1 .. made'
  BY <1>1, <1>2, <1>3, Constants DEF Knows, Points
<1>8. Calm'
  BY <1>1, <1>2 DEF IInv, Typed, Calm
<1>9. "replace" \in Seeking /\ "ready" \notin Seeking /\ Fits(pool', client')
  BY <1>1, <1>4 DEF Seeking
<1> QED
  BY <1>1, <1>5, <1>6, <1>7, <1>8, <1>9, DownloadStep

LEMMA ConnectFailsStep ==
    ASSUME IInv, NEW d \in Downloads, ConnectFails(d), UNCHANGED maxSize PROVE IInv'
<1>1. pc[d] \notin {"idle", "done"} /\ FailAttempt(d) /\ UNCHANGED <<maxSize, made, drained>>
  BY DEF ConnectFails
<1>2. Calm'
  BY DEF ConnectFails, IInv, Typed, Calm
<1> QED
  BY <1>1, <1>2, FailStep

LEMMA WakeStep == ASSUME IInv, NEW d \in Downloads, Wake(d), UNCHANGED maxSize PROVE IInv'
<1>1. pc[d] = "wait" /\ UNCHANGED <<maxSize, made, closed, running, drained>>
  BY DEF Wake
<1>2. CASE Poll(d, pool) /\ UNCHANGED att
  <2>1. att' = [att EXCEPT ![d] = att[d]] /\ Asking(d, att[d])
    BY <1>1, <1>2 DEF IInv, Typed, Knows, Asking
  <2>2. client[d] = NoClient
    BY <1>1 DEF IInv, Typed, Knows
  <2>3. pool \in Seq(PoolEntry(made)) /\ Fits(pool, [client EXCEPT ![d] = NoClient])
    BY <2>2 DEF IInv, Typed
  <2> QED
    BY <1>1, <1>2, <2>1, <2>3, PollStep
<1>3. CASE FailAttempt(d)
  <2>1. Calm'
    BY <1>1 DEF IInv, Typed, Calm
  <2> QED
    BY <1>1, <1>3, <2>1, FailStep
<1> QED
  BY <1>2, <1>3 DEF Wake

LEMMA LaunchStep == ASSUME IInv, NEW d \in Downloads, Launch(d), UNCHANGED maxSize PROVE IInv'
<1> DEFINE c == client[d]
<1>1. pc[d] = "ready" /\ UNCHANGED <<maxSize, made, drained>> /\ c \in 1 .. made
  BY DEF Launch, IInv, Typed, Knows
<1>2. CASE /\ running[c] = NoDownload /\ c \notin closed
           /\ running' = [running EXCEPT ![c] = d]
           /\ pc' = [pc EXCEPT ![d] = "transfer"]
           /\ UNCHANGED <<pool, client, att, slot, closed>>
  <2>1. Calm'
    BY <1>1, <1>2 DEF IInv, Typed, Calm
  <2>2. Moves(d, "transfer", c, 0, att[d])
    BY <1>1, <1>2 DEF IInv, Typed, Knows, Moves
  <2>3. /\ Knows("transfer", c, 0, att[d], Len(pool))
        /\ "transfer" \in Points /\ "transfer" \notin Seeking
    BY <1>1 DEF IInv, Typed, Knows, Points, Seeking
  <2>4. /\ pool' \in Seq(PoolEntry(made)) /\ Len(pool') = Len(pool) /\ Fits(pool', client')
    BY <1>2 DEF IInv, Typed
  <2> QED
    BY <1>1, <2>1, <2>2, <2>3, <2>4, StayStep
<1>3. CASE Finish(d) /\ UNCHANGED <<closed, running>>
  <2>1. Calm'
    BY <1>1, <1>3 DEF IInv, Typed, Calm
  <2> QED
    BY <1>1, <1>3, <2>1, FinishStep
<1>4. CASE FailAttempt(d) /\ UNCHANGED <<closed, running>>
  <2>1. Calm'
    BY <1>1, <1>4 DEF IInv, Typed, Calm
  <2> QED
    BY <1>1, <1>4, <2>1, FailStep
<1>5. CASE /\ closed' = closed \cup {c}
           /\ running' = [running EXCEPT ![c] = NoDownload]
           /\ FailAttempt(d)
  <2>1. Calm'
    BY <1>1, <1>5 DEF IInv, Typed, Calm
  <2> QED
    BY <1>1, <1>5, <2>1, FailStep
<1> QED
  BY <1>2, <1>3, <1>4, <1>5 DEF Launch

LEMMA CompleteStep == ASSUME IInv, NEW d \in Downloads, Complete(d), UNCHANGED maxSize PROVE IInv'
<1>1. /\ pc[d] = "transfer" /\ running' = [running EXCEPT ![client[d]] = NoDownload]
      /\ Finish(d) /\ UNCHANGED <<maxSize, made, closed, drained>>
  BY DEF Complete
<1>2. Calm'
  BY <1>1 DEF IInv, Typed, Calm
<1> QED
  BY <1>1, <1>2, FinishStep

LEMMA TransferFailsStep ==
    ASSUME IInv, NEW d \in Downloads, TransferFails(d), UNCHANGED maxSize PROVE IInv'
<1>1. /\ pc[d] = "transfer" /\ running' = [running EXCEPT ![client[d]] = NoDownload]
      /\ closed' \in {closed, closed \cup {client[d]}}
      /\ FailAttempt(d) /\ UNCHANGED <<maxSize, made, drained>>
  BY DEF TransferFails
<1>2. client[d] \in 1 .. made
  BY <1>1 DEF IInv, Typed, Knows
<1>3. Calm'
  BY <1>1, <1>2 DEF IInv, Typed, Calm
<1> QED
  BY <1>1, <1>3, FailStep

LEMMA TransferTimesOutStep ==
    ASSUME IInv, NEW d \in Downloads, TransferTimesOut(d), UNCHANGED maxSize PROVE IInv'
<1>1. pc[d] = "transfer" /\ FailAttempt(d) /\ UNCHANGED <<maxSize, made, drained>>
  BY DEF TransferTimesOut
<1>2. Calm'
  BY DEF TransferTimesOut, IInv, Typed, Calm
<1> QED
  BY <1>1, <1>2, FailStep

\* A step of the client library or of the server.
LEMMA QuietStep ==
    ASSUME IInv, Calm', UNCHANGED <<maxSize, pool, made, pc, att, client, slot, drained>>
    PROVE  IInv'
<1> USE DEF IInv
<1>1. Typed'
  BY DEF Typed, Calm
<1>2. Counted' /\ FewActive' /\ NobodyWaits'
  BY DEF Counted, Spent, FewActive, Active, NobodyWaits
<1> QED
  BY <1>1, <1>2

LEMMA AbandonedEndsStep ==
    ASSUME IInv, NEW c \in Clients, AbandonedEnds(c), UNCHANGED maxSize PROVE IInv'
<1>1. Calm'
  BY DEF AbandonedEnds, Abandoned, IInv, Typed, Calm
<1> QED
  BY <1>1, QuietStep DEF AbandonedEnds

LEMMA IdleClosesStep ==
    ASSUME IInv, NEW c \in Clients, IdleCloses(c), UNCHANGED maxSize PROVE IInv'
<1>1. c \in 1 .. made
  BY Constants DEF IdleCloses, Clients, IInv, Typed
<1>2. Calm'
  BY <1>1 DEF IdleCloses, IInv, Typed, Calm
<1> QED
  BY <1>2, QuietStep DEF IdleCloses

LEMMA DrainStep == ASSUME IInv, Drain, UNCHANGED maxSize PROVE IInv'
<1> USE DEF IInv
<1>1. \A d \in Downloads : client[d] = NoClient /\ slot[d] = 0 /\ pc[d] \in {"idle", "done"}
  BY DEF Drain, Active, Typed, Knows
<1>2. /\ pool' = <<>> /\ Len(pool') = 0 /\ pool' \in Seq(PoolEntry(made'))
      /\ UNCHANGED <<maxSize, made, pc, att, client, slot>> /\ drained' = TRUE
  BY DEF Drain
<1>3. Calm'
  <2>1. {pool[i].client : i \in DOMAIN pool} \subseteq 1 .. made
    <3>1. pool \in Seq(PoolEntry(made))
      BY DEF Typed
    <3>2. DOMAIN pool = 1 .. Len(pool)
      BY <3>1, LenProperties
    <3> QED
      BY <3>1, <3>2, EntryFine
  <2> DEFINE S == {pool[i].client : i \in DOMAIN pool}
  <2>2. /\ closed' = closed \cup S /\ made' = made
        /\ running' = [c \in Clients |-> IF c \in closed' THEN NoDownload ELSE running[c]]
    BY DEF Drain
  <2> HIDE DEF S
  <2> QED
    BY <2>1, <2>2 DEF Typed, Calm, S
<1>4. Typed'
  <2>1. \A d \in Downloads : Knows(pc'[d], client'[d], slot'[d], att'[d], Len(pool'))
    BY <1>1, <1>2 DEF Typed, Knows
  <2> QED
    BY <1>2, <1>3, <2>1 DEF Typed, Calm
<1>5. Fits(pool', client')
  BY <1>1, <1>2 DEF Fits
<1>6. Counted' /\ FewActive' /\ NobodyWaits'
  BY <1>2 DEF Counted, Spent, FewActive, Active, NobodyWaits
<1> QED
  BY <1>4, <1>5, <1>6

LEMMA NextIInv == IInv /\ [Next]_vars => IInv'
<1> SUFFICES ASSUME IInv, [Next]_vars PROVE IInv'
  OBVIOUS
<1>1. ASSUME NEW d \in Downloads, Start(d) \/ Step(d), UNCHANGED maxSize PROVE IInv'
  BY <1>1, StartStep, RetryStep, CreatedStep, ReplacedStep, ConnectFailsStep, WakeStep,
     LaunchStep, CompleteStep, TransferFailsStep, TransferTimesOutStep DEF Step
<1>2. ASSUME NEW c \in Clients, AbandonedEnds(c) \/ IdleCloses(c), UNCHANGED maxSize PROVE IInv'
  BY <1>2, AbandonedEndsStep, IdleClosesStep
<1>3. CASE Drain /\ UNCHANGED maxSize
  BY <1>3, DrainStep
<1>4. CASE UNCHANGED vars
  <2>1. Calm'
    BY <1>4 DEF vars, IInv, Typed, Calm
  <2> QED
    BY <1>4, <2>1, QuietStep DEF vars
<1> QED
  BY <1>1, <1>2, <1>3, <1>4 DEF Next

-----------------------------------------------------------------------------
(* The theorems                                                              *)

\* A connection works for one download, the pool never offers one that somebody holds, and
\* the index that a download keeps while it connects stays within the pool (acquire, release
\* and waitForConnection), whatever closes, times out or is replaced meanwhile.
THEOREM ConnectionsAreSafe == Spec => []PoolSafe
<1>1. IInv => PoolSafe
  <2> SUFFICES ASSUME IInv PROVE PoolSafe
    OBVIOUS
  <2> USE DEF IInv
  <2>1. TypeOK
    <3>1. Len(pool) \in Nat
      BY EntryFine DEF Typed
    <3>2. slot \in [Downloads -> 0 .. Len(pool)]
      BY <3>1 DEF Typed, Knows
    <3>3. made \in 0 .. Cardinality(Downloads) * MaxAttempts
      BY MadeBound, Constants DEF Typed
    <3> QED
      BY <3>2, <3>3 DEF TypeOK, Typed, Points, PoolEntry
  <2>2. OneHolder
    <3>1. DOMAIN pool = 1 .. Len(pool)
      BY LenProperties DEF Typed
    <3> QED
      BY <3>1 DEF OneHolder, Fits
  <2> QED
    BY <2>1, <2>2 DEF PoolSafe
<1> QED
  BY InitIInv, NextIInv, <1>1, PTL DEF Spec

\* With more connections than workers, as runSync sizes the pool, waitForConnection never
\* goes to sleep: a full pool has an entry that is free or that has closed.
THEOREM NobodySleeps == Spec => []NobodyWaits
<1>1. IInv => NobodyWaits
  BY DEF IInv
<1> QED
  BY InitIInv, NextIInv, <1>1, PTL DEF Spec
=============================================================================
