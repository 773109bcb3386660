------------------------ MODULE PaymentSchedulesProofs ------------------------
(***************************************************************************)
(* Theorems about PaymentSchedules, for any number of requests and rows, any *)
(* plans and amounts, and every environment: what the tables keep however     *)
(* requests overlap, what the cached totals say, and that the items of a      *)
(* schedule add up.  They rest on a theory of finite sums, which comes first.  *)
(***************************************************************************)
EXTENDS PaymentSchedules, FiniteSetTheorems, TLAPS

-----------------------------------------------------------------------------
(* Finite sums.  SumFunction is a fold, a recursive function on the subsets of *)
(* the domain; what holds of it is shown on a smallest subset for which it     *)
(* would not.                                                                  *)

\* The element a fold takes first.
First(s) == CHOOSE x \in s : TRUE

\* What the fold of a sum computes: g is its function on the subsets of S.
Sums(f, S, g) == g = [s \in SUBSET S |-> IF s = {} THEN 0 ELSE f[First(s)] + g[s \ {First(s)}]]

\* Among sets of subsets of a finite set, one has no smaller one.
LEMMA Smallest ==
    ASSUME NEW S, IsFiniteSet(S), NEW C, C \subseteq SUBSET S, C # {}
    PROVE  \E s \in C : \A u \in C : u \subseteq s => u = s
<1>1. IsWellFoundedOn(StrictSubsetOrdering(S), FiniteSubsetsOf(S)) /\ FiniteSubsetsOf(S) = SUBSET S
  BY FS_StrictSubsetOrderingWellFounded, FS_FiniteSubsetsOfFinite
<1>2. \E s \in C : \A u \in C : ~ (<<u, s>> \in StrictSubsetOrdering(S))
  BY <1>1, WFMin
<1>3. PICK s \in C : \A u \in C : ~ (<<u, s>> \in StrictSubsetOrdering(S))
  BY <1>2
<1>4. ASSUME NEW u \in C, u \subseteq s PROVE u = s
  <2>1. u \in SUBSET S /\ s \in SUBSET S
    OBVIOUS
  <2> QED
    BY <1>3, <1>4, <2>1 DEF StrictSubsetOrdering
<1> QED
  BY <1>4

LEMMA FirstOf == ASSUME NEW s, s # {} PROVE First(s) \in s
BY DEF First

LEMMA SumsOf ==
    ASSUME NEW f, NEW S, NEW g, Sums(f, S, g), NEW s \in SUBSET S
    PROVE  /\ s = {} => g[s] = 0
           /\ s # {} => g[s] = f[First(s)] + g[s \ {First(s)}]
BY DEF Sums

\* Two such functions agree where both are defined.
LEMMA SumsAgree ==
    ASSUME NEW f, NEW S, NEW T, NEW g, NEW h, Sums(f, S, g), Sums(f, T, h),
           NEW s \in SUBSET (S \cap T), IsFiniteSet(s)
    PROVE  g[s] = h[s]
<1> DEFINE C == {u \in SUBSET s : g[u] # h[u]}
<1>1. SUFFICES ASSUME C # {} PROVE FALSE
  OBVIOUS
<1>0. C \subseteq SUBSET s
  OBVIOUS
<1> HIDE DEF C
<1>2. PICK u \in C : \A v \in C : v \subseteq u => v = u
  BY <1>0, <1>1, Smallest
<1> USE DEF C
<1>3. u \in SUBSET S /\ u \in SUBSET T
  OBVIOUS
<1>4. CASE u = {}
  <2>1. g[u] = 0 /\ h[u] = 0
    BY <1>3, <1>4, SumsOf
  <2> QED
    BY <1>2, <2>1
<1>5. CASE u # {}
  <2> DEFINE v == u \ {First(u)}
  <2>1. v \subseteq u /\ v # u
    BY <1>5, FirstOf
  <2>2. g[v] = h[v]
    BY <1>2, <2>1
  <2>3. g[u] = f[First(u)] + g[v] /\ h[u] = f[First(u)] + h[v]
    BY <1>3, <1>5, SumsOf
  <2> QED
    BY <1>2, <2>2, <2>3
<1> QED
  BY <1>4, <1>5

\* There is one for every finite set.
LEMMA SumsExist ==
    ASSUME NEW f, NEW S, IsFiniteSet(S)
    PROVE  \E g : Sums(f, S, g)
<1> DEFINE C == {s \in SUBSET S : ~ \E g : Sums(f, s, g)}
<1>1. SUFFICES ASSUME C # {} PROVE FALSE
  OBVIOUS
<1>0. C \subseteq SUBSET S
  OBVIOUS
<1> HIDE DEF C
<1>2. PICK s \in C : \A u \in C : u \subseteq s => u = s
  BY <1>0, <1>1, Smallest
<1> USE DEF C
<1> DEFINE H(u) == CHOOSE g : Sums(f, u, g)
<1>3. ASSUME NEW u \in SUBSET s, u # s PROVE Sums(f, u, H(u))
  <2>1. \E g : Sums(f, u, g)
    BY <1>2, <1>3
  <2> QED
    BY <2>1, Zenon
<1> DEFINE p == s \ {First(s)}
           G == [u \in SUBSET s |->
                    IF u = {} THEN 0 ELSE IF u = s THEN f[First(s)] + H(p)[p] ELSE H(u)[u]]
<1> HIDE DEF H
<1>4. ASSUME NEW u \in SUBSET s, u # {}
      PROVE  G[u] = f[First(u)] + G[u \ {First(u)}]
  <2> DEFINE v == u \ {First(u)}
  <2>1. v \in SUBSET u /\ v # u /\ v \in SUBSET s /\ v # s /\ IsFiniteSet(v)
    BY <1>4, FirstOf, FS_Subset
  <2>2. Sums(f, v, H(v))
    BY <1>3, <2>1
  <2>3. G[v] = H(v)[v]
    <3>1. v = {} => H(v)[v] = 0
      BY <2>2, SumsOf
    <3> QED
      BY <2>1, <3>1
  <2>4. CASE u = s
    BY <1>4, <2>3, <2>4
  <2>5. CASE u # s
    <3>1. Sums(f, u, H(u))
      BY <1>3, <2>5
    <3>2. H(u)[u] = f[First(u)] + H(u)[v]
      BY <1>4, <3>1, SumsOf
    <3>3. H(u)[v] = H(v)[v]
      BY <2>1, <2>2, <3>1, SumsAgree
    <3>4. G[u] = H(u)[u]
      BY <1>4, <2>5
    <3> QED
      BY <2>3, <3>2, <3>3, <3>4
  <2> QED
    BY <2>4, <2>5
<1>5. G = [u \in SUBSET s |-> IF u = {} THEN 0 ELSE f[First(u)] + G[u \ {First(u)}]]
  <2>1. \A u \in SUBSET s : G[u] = IF u = {} THEN 0 ELSE f[First(u)] + G[u \ {First(u)}]
    BY <1>4
  <2>2. G = [u \in SUBSET s |-> G[u]]
    OBVIOUS
  <2> HIDE DEF G
  <2> QED
    BY <2>1, <2>2
<1> HIDE DEF G
<1>6. Sums(f, s, G)
  BY <1>5 DEF Sums
<1> QED
  BY <1>2, <1>6

LEMMA SumIsFold ==
    ASSUME NEW f, NEW S PROVE SumFunctionOnSet(f, S) = (CHOOSE g : Sums(f, S, g))[S]
BY Zenon DEF SumFunctionOnSet, FoldFunctionOnSet, MapThenFoldSet, Sums, First

\* The sum over a finite set, one element at a time.
LEMMA SumStep ==
    ASSUME NEW f, NEW S, IsFiniteSet(S)
    PROVE  /\ S = {} => SumFunctionOnSet(f, S) = 0
           /\ S # {} => SumFunctionOnSet(f, S)
                            = f[First(S)] + SumFunctionOnSet(f, S \ {First(S)})
<1> DEFINE H(u) == CHOOSE g : Sums(f, u, g)
           v == S \ {First(S)}
<1>1. Sums(f, S, H(S)) /\ Sums(f, v, H(v)) /\ IsFiniteSet(v)
  <2>1. IsFiniteSet(v)
    BY FS_Subset
  <2>2. (\E g : Sums(f, S, g)) /\ \E g : Sums(f, v, g)
    BY <2>1, SumsExist
  <2> QED
    BY <2>1, <2>2
<1>2. SumFunctionOnSet(f, S) = H(S)[S] /\ SumFunctionOnSet(f, v) = H(v)[v]
  BY SumIsFold
<1> HIDE DEF H
<1>3. H(S)[v] = H(v)[v]
  BY <1>1, SumsAgree
<1> QED
  BY <1>1, <1>2, <1>3, SumsOf

LEMMA SumInt ==
    ASSUME NEW f, NEW S, IsFiniteSet(S), \A x \in S : f[x] \in Int
    PROVE  SumFunctionOnSet(f, S) \in Int
<1> DEFINE C == {s \in SUBSET S : SumFunctionOnSet(f, s) \notin Int}
<1>1. SUFFICES ASSUME C # {} PROVE FALSE
  OBVIOUS
<1>2. C \subseteq SUBSET S
  OBVIOUS
<1> HIDE DEF C
<1>3. PICK s \in C : \A u \in C : u \subseteq s => u = s
  BY <1>1, <1>2, Smallest
<1> USE DEF C
<1>4. IsFiniteSet(s)
  BY FS_Subset
<1>5. s # {}
  BY <1>3, <1>4, SumStep
<1> DEFINE v == s \ {First(s)}
<1>6. v \subseteq s /\ v # s /\ First(s) \in S
  BY <1>5, FirstOf
<1>7. SumFunctionOnSet(f, v) \in Int
  BY <1>3, <1>6
<1>8. SumFunctionOnSet(f, s) = f[First(s)] + SumFunctionOnSet(f, v) /\ f[First(s)] \in Int
  BY <1>4, <1>5, <1>6, SumStep
<1> QED
  BY <1>3, <1>7, <1>8

\* ... whichever element comes first.
LEMMA SumAny ==
    ASSUME NEW f, NEW S, IsFiniteSet(S), \A x \in S : f[x] \in Int, NEW a \in S
    PROVE  SumFunctionOnSet(f, S) = f[a] + SumFunctionOnSet(f, S \ {a})
<1> DEFINE Wrong(s) == \E b \in s :
                          SumFunctionOnSet(f, s) # f[b] + SumFunctionOnSet(f, s \ {b})
           C == {s \in SUBSET S : Wrong(s)}
<1>1. SUFFICES ASSUME C # {} PROVE FALSE
  <2>1. ~Wrong(S) => SumFunctionOnSet(f, S) = f[a] + SumFunctionOnSet(f, S \ {a})
    OBVIOUS
  <2> QED
    BY <2>1
<1>2. C \subseteq SUBSET S
  OBVIOUS
<1> HIDE DEF C
<1>3. PICK s \in C : \A u \in C : u \subseteq s => u = s
  BY <1>1, <1>2, Smallest
<1> USE DEF C
<1>4. PICK b \in s : SumFunctionOnSet(f, s) # f[b] + SumFunctionOnSet(f, s \ {b})
  OBVIOUS
<1>5. \A u \in SUBSET s : u # s => ~Wrong(u)
  BY <1>3
<1> DEFINE c == First(s)
<1>6. c \in s
  BY <1>4, FirstOf
<1>7. IsFiniteSet(s) /\ IsFiniteSet(s \ {b}) /\ IsFiniteSet(s \ {c}) /\ IsFiniteSet((s \ {b}) \ {c})
  BY FS_Subset
<1>8. SumFunctionOnSet(f, s) = f[c] + SumFunctionOnSet(f, s \ {c})
  BY <1>6, <1>7, SumStep
<1>9. c # b
  BY <1>4, <1>8
<1>10. SumFunctionOnSet(f, s \ {c}) = f[b] + SumFunctionOnSet(f, (s \ {c}) \ {b})
  <2>1. s \ {c} \in SUBSET s /\ s \ {c} # s /\ b \in s \ {c}
    BY <1>6, <1>9
  <2> QED
    BY <1>5, <2>1
<1>11. SumFunctionOnSet(f, s \ {b}) = f[c] + SumFunctionOnSet(f, (s \ {b}) \ {c})
  <2>1. s \ {b} \in SUBSET s /\ s \ {b} # s /\ c \in s \ {b}
    BY <1>6, <1>9
  <2> QED
    BY <1>5, <2>1
<1>12. (s \ {c}) \ {b} = (s \ {b}) \ {c}
  OBVIOUS
<1>13. SumFunctionOnSet(f, (s \ {b}) \ {c}) \in Int
  <2>1. \A x \in (s \ {b}) \ {c} : f[x] \in Int
    OBVIOUS
  <2> QED
    BY <1>7, <2>1, SumInt
<1>14. f[b] \in Int /\ f[c] \in Int
  BY <1>6
<1> HIDE DEF c
<1> DEFINE rest == SumFunctionOnSet(f, (s \ {b}) \ {c})
<1>15. SumFunctionOnSet(f, s) = f[c] + (f[b] + rest)
  BY <1>8, <1>10, <1>12
<1>16. SumFunctionOnSet(f, s \ {b}) = f[c] + rest
  BY <1>11
<1>17. f[c] + (f[b] + rest) = f[b] + (f[c] + rest)
  <2> HIDE DEF rest
  <2> QED
    BY <1>13, <1>14 DEF rest
<1> QED
  BY <1>4, <1>15, <1>16, <1>17

\* The same numbers under other names have the same sum.
LEMMA SumRenamed ==
    ASSUME NEW f, NEW g, NEW D, NEW n, IsFiniteSet(D),
           \A x \in D : f[x] \in Int /\ g[n[x]] = f[x],
           \A x, y \in D : n[x] = n[y] => x = y
    PROVE  SumFunctionOnSet(g, {n[x] : x \in D}) = SumFunctionOnSet(f, D)
<1> DEFINE Image(s) == {n[x] : x \in s}
           C == {s \in SUBSET D : SumFunctionOnSet(g, Image(s)) # SumFunctionOnSet(f, s)}
<1>1. SUFFICES ASSUME C # {} PROVE FALSE
  OBVIOUS
<1>2. C \subseteq SUBSET D
  OBVIOUS
<1> HIDE DEF C
<1>3. PICK s \in C : \A u \in C : u \subseteq s => u = s
  BY <1>1, <1>2, Smallest
<1> USE DEF C
<1>4. IsFiniteSet(s) /\ IsFiniteSet(Image(s))
  <2>1. IsFiniteSet(s)
    BY FS_Subset
  <2>2. [x \in s |-> n[x]] \in Surjection(s, Image(s))
    BY DEF Surjection
  <2> QED
    BY <2>1, <2>2, FS_Surjection
<1>5. CASE s = {}
  <2>1. Image(s) = {}
    BY <1>5
  <2> QED
    BY <1>3, <1>4, <1>5, <2>1, SumStep
<1>6. CASE s # {}
  <2>1. PICK a \in s : TRUE
    BY <1>6
  <2>2. s \ {a} \in SUBSET D /\ s \ {a} \subseteq s /\ s \ {a} # s
    OBVIOUS
  <2>3. SumFunctionOnSet(g, Image(s \ {a})) = SumFunctionOnSet(f, s \ {a})
    BY <1>3, <2>2
  <2>4. Image(s \ {a}) = Image(s) \ {n[a]} /\ n[a] \in Image(s)
    OBVIOUS
  <2>5. SumFunctionOnSet(f, s) = f[a] + SumFunctionOnSet(f, s \ {a})
    BY <1>4, SumAny
  <2>6. \A y \in Image(s) : g[y] \in Int
    OBVIOUS
  <2> HIDE DEF Image
  <2>7. SumFunctionOnSet(g, Image(s)) = g[n[a]] + SumFunctionOnSet(g, Image(s) \ {n[a]})
    BY <1>4, <2>4, <2>6, SumAny
  <2> QED
    BY <1>3, <2>3, <2>4, <2>5, <2>7
<1> QED
  BY <1>5, <1>6

-----------------------------------------------------------------------------
(* The invariant                                                             *)

Slots == [op : AllOperations \cup {"none"},
          pc : {"idle", "config", "clear", "items", "card", "select", "write", "insert", "sum",
                "item", "delete"},
          plan : Plans \cup {<< >>}, cfg : Configs \cup {NoConfig},
          guarantee : BOOLEAN, card : BOOLEAN,
          item : Items \cup {NoItem}, txn : Txns \cup {NoTxn},
          type : {"payment", "refund", "adjustment"}, amount : Nat, net : Nat, expected : Nat]

ConfigRow == [id : Configs \cup {NoConfig}, guarantee : BOOLEAN, card : BOOLEAN]
ItemRow == [state : RowState, config : Configs \cup {NoConfig}, expected : Nat, paid : Nat,
            status : ItemStatus]
TxnRow == [state : RowState \cup {"pending"}, item : Items \cup {NoItem},
           type : {"payment", "refund", "adjustment"}, amount : Nat]

\* A handler of createTransaction whose payment is inserted and not committed.
Open(q) == q.op = "createTransaction" /\ q.pc \in {"sum", "item", "write"}

Inserting(q) == q.op \in {"create", "update"} /\ q.pc = "items"

\* What a slot holds, with these transactions, while the clients do as e says.
SlotFine(q, tx, e) ==
    /\ q.op = "none" => q = Idle
    /\ q.op # "none" => q.op \in e.operations
    /\ q.op \in {"create", "update"} =>
            q.plan = << >> \/ q.plan \in PlansFor(TotalPriceCents)
    /\ q.op = "apply" => \E total \in TemplateTotals : q.plan \in PlansFor(total)
    /\ q.op \in {"update", "delete"} \/ (q.op = "create" /\ q.pc # "config") => q.cfg \in Configs
    /\ q.op \notin {"createTransaction", "deleteTransaction"} \/ q.pc = "insert" => q.txn = NoTxn
    /\ q.op = "createTransaction" => /\ q.pc \in {"insert", "sum", "item", "write"}
                                     /\ q.item \in Items /\ q.type \in e.types
    /\ Open(q) => q.txn \in Txns /\ tx[q.txn] = [state |-> "pending", item |-> q.item,
                                                 type |-> q.type, amount |-> q.amount]
    /\ q.op = "deleteTransaction" =>
            q.item \in Items /\ q.txn \in Txns /\ tx[q.txn].state \in {"live", "gone"}

\* The foreign keys, and the check of the table of items.
Linked(c, it, tx, e) ==
    /\ \A i \in Items : it[i].state = "live" =>
            it[i].config = c.id /\ c.id \in Configs /\ it[i].paid <= it[i].expected
    /\ \A t \in Txns : tx[t].state \in {"live", "pending"} =>
            tx[t].item \in Items /\ it[tx[t].item].state = "live" /\ tx[t].type \in e.types

Rows ==
    /\ config \in ConfigRow /\ (config.id = NoConfig => config = NoSchedule)
    /\ spent \subseteq Configs /\ alone \subseteq Requests
    /\ items \in [Items -> ItemRow] /\ txns \in [Txns -> TxnRow]
    /\ env \in Environments

Typed ==
    /\ Rows /\ req \in [Requests -> Slots]
    /\ Linked(config, items, txns, env)
    /\ \A r \in Requests : SlotFine(req[r], txns, env)
    /\ \A q, r \in Requests : Open(req[q]) /\ Open(req[r]) /\ req[q].txn = req[r].txn => q = r

\* A request nothing has overlapped is the only one, and when none ever overlap and nobody
\* edits an item, every request is such a one.
Lonely ==
    /\ \A r \in alone, q \in Requests : q # r => req[q] = Idle
    /\ Isolated /\ "updateItem" \notin Operations => \A r \in Requests : req[r] # Idle => r \in alone

\* What a request nothing has overlapped has read is what the tables say.
Current(q) ==
    /\ q.op = "createTransaction" /\ q.pc \in {"item", "write"} =>
            q.net = NetPaid(TxnsOf(q.item) \cup {q.txn})
    /\ q.op = "deleteTransaction" /\ q.pc \in {"item", "write"} =>
            q.net = NetPaid(TxnsOf(q.item))
    /\ q.op \in {"createTransaction", "deleteTransaction"} /\ q.pc = "write" =>
            q.expected = items[q.item].expected
    /\ q.op = "deleteTransaction" /\ q.pc = "delete" =>
            txns[q.txn].state = "live" /\ txns[q.txn].item = q.item
    /\ q.op = "update" \/ Inserting(q) => q.cfg = config.id
    /\ Inserting(q) => LiveItems = {}

Informed == \A r \in alone : Current(req[r])

\* The items that are there add up, and one who inserts some finds none.
AddUp == LiveItems # {} => SumFunction([i \in LiveItems |-> items[i].expected]) = TotalPriceCents

CanAddUp ==
    /\ Isolated \/ Operations \cap {"create", "update"} = {}
    /\ "updateItem" \notin Operations /\ TemplateTotals \subseteq {TotalPriceCents}

Whole == CanAddUp => AddUp

\* A total is stale only between the deletion of a transaction and its sync, and is then
\* at least what the transactions left come to.
Syncing(q) == q.op = "deleteTransaction" /\ q.pc \in {"sum", "item", "write"}

Cached ==
    \A i \in LiveItems :
        \/ Fresh(i)
        \/ \E r \in Requests : /\ Syncing(req[r]) /\ req[r].item = i
                               /\ NetPaid(TxnsOf(i)) <= items[i].paid

CanCache ==
    /\ Isolated /\ "refund" \notin TxnTypes
    /\ "updateItem" \notin Operations /\ "deleteTransaction" \notin Faulty

Kept == CanCache => Cached

IInv == Typed /\ Lonely /\ Informed /\ Whole /\ Kept

\* The plans a schedule is made of.
LEMMA PlanFacts ==
    ASSUME NEW plan \in Plans \cup {<< >>}
    PROVE  /\ DOMAIN plan = 1 .. Len(plan) /\ Len(plan) \in Nat /\ IsFiniteSet(DOMAIN plan)
           /\ \A k \in DOMAIN plan : plan[k] \in Nat
           /\ plan \in Plans => 1 \in DOMAIN plan
           /\ plan = << >> => DOMAIN plan = {}
<1>1. plan \in Seq(Nat) /\ (plan \in Plans => plan # << >>)
  <2>1. Plans \subseteq Seq(Nat) /\ << >> \notin Plans
    BY PaymentSchedulesAssumption
  <2>2. << >> \in Seq(Nat)
    OBVIOUS
  <2> QED
    BY <2>1, <2>2
<1>2. DOMAIN plan = 1 .. Len(plan) /\ Len(plan) \in Nat /\ \A k \in DOMAIN plan : plan[k] \in Nat
  BY <1>1
<1>3. IsFiniteSet(1 .. Len(plan))
  BY <1>2, FS_Interval
<1>4. plan # << >> => 1 \in 1 .. Len(plan)
  BY <1>1
<1>5. plan = << >> => 1 .. Len(plan) = {}
  OBVIOUS
<1> QED
  BY <1>1, <1>2, <1>3, <1>4, <1>5

\* What transactions come to.
LEMMA NetFacts ==
    ASSUME txns \in [Txns -> TxnRow], NEW S \in SUBSET Txns
    PROVE  /\ NetPaid(S) \in Nat
           /\ SumFunction([t \in S |-> Signed(t)]) \in Int
           /\ NetPaid(S) = IF SumFunction([t \in S |-> Signed(t)]) >= 0
                           THEN SumFunction([t \in S |-> Signed(t)]) ELSE 0
<1> DEFINE f == [t \in S |-> Signed(t)]
           sum == SumFunction(f)
<1>1. IsFiniteSet(S)
  BY PaymentSchedulesAssumption, FS_Subset
<1>2. \A t \in S : f[t] \in Int
  BY DEF Signed, TxnRow
<1>3. DOMAIN f = S
  OBVIOUS
<1> HIDE DEF f
<1>4. sum \in Int
  BY <1>1, <1>2, <1>3, SumInt DEF SumFunction
<1> HIDE DEF sum
<1>5. Max({0, sum}) = IF sum >= 0 THEN sum ELSE 0
  BY <1>4 DEF Max
<1> QED
  BY <1>4, <1>5 DEF f, sum, NetPaid

\* A slot is still well formed when its open payment stays and no deleted one is reopened.
LEMMA SlotStays ==
    ASSUME NEW q, NEW tx, NEW tx2, NEW e, SlotFine(q, tx, e),
           Open(q) => tx2[q.txn] = tx[q.txn],
           \A t \in Txns : tx[t].state \in {"live", "gone"} => tx2[t].state \in {"live", "gone"}
    PROVE  SlotFine(q, tx2, e)
BY DEF SlotFine

\* One slot changes, and what the other ones hold stays.
LEMMA SlotStep ==
    ASSUME Typed, env' = env, Rows', Linked(config, items, txns, env)',
           NEW r \in Requests, NEW s \in Slots, req' = [req EXCEPT ![r] = s],
           SlotFine(s, txns', env),
           \A q \in Requests \ {r} : Open(req[q]) => txns'[req[q].txn] = txns[req[q].txn],
           \A t \in Txns : txns[t].state \in {"live", "gone"} => txns'[t].state \in {"live", "gone"},
           Open(s) => \A q \in Requests \ {r} : Open(req[q]) => req[q].txn # s.txn
    PROVE  Typed'
<1>1. req \in [Requests -> Slots]
  BY DEF Typed
<1>2. req' \in [Requests -> Slots] /\ \A q \in Requests : req'[q] = IF q = r THEN s ELSE req[q]
  BY <1>1
<1>3. \A q \in Requests : SlotFine(req'[q], txns', env')
  <2>1. \A q \in Requests \ {r} : SlotFine(req[q], txns', env)
    BY SlotStays DEF Typed
  <2> QED
    BY <1>2, <2>1
<1>4. \A p, q \in Requests : Open(req'[p]) /\ Open(req'[q]) /\ req'[p].txn = req'[q].txn => p = q
  BY <1>2 DEF Typed
<1> QED
  BY <1>2, <1>3, <1>4 DEF Typed

\* The idle slot, and a slot that moves on.
LEMMA IdleSlot ==
    /\ Idle \in Slots /\ ~Open(Idle) /\ ~Inserting(Idle) /\ ~Syncing(Idle)
    /\ \A tx, e : SlotFine(Idle, tx, e)
<1>1. Idle \in Slots
  BY DEF Idle, Slots
<1> QED
  BY <1>1 DEF Idle, Open, Inserting, Syncing, SlotFine

\* A step that changes no table but perhaps the record of overlaps.
LEMMA FrameStep ==
    ASSUME Typed, env' = env, UNCHANGED rows, alone' \subseteq Requests,
           NEW r \in Requests, NEW s \in Slots, req' = [req EXCEPT ![r] = s],
           SlotFine(s, txns, env), Open(s) => Open(req[r]) /\ s.txn = req[r].txn
    PROVE  Typed'
<1>1. UNCHANGED <<config, spent, items, txns>>
  BY DEF rows
<1>2. Rows' /\ Linked(config, items, txns, env)'
  BY <1>1 DEF Typed, Rows, Linked
<1>3. Open(s) => \A q \in Requests \ {r} : Open(req[q]) => req[q].txn # s.txn
  BY DEF Typed
<1> QED
  BY <1>1, <1>2, <1>3, SlotStep

\* A request that is over frees its slot.
LEMMA FinishStep ==
    ASSUME Typed, env' = env, UNCHANGED rows, NEW r \in Requests, Finish(r)
    PROVE  Typed'
<1>1. alone' \subseteq Requests /\ req' = [req EXCEPT ![r] = Idle]
  BY DEF Finish, Typed, Rows
<1> QED
  BY <1>1, IdleSlot, FrameStep

\* A request arrives.
LEMMA StartStep ==
    ASSUME Typed, env' = env, NEW r \in Requests, NEW s \in Slots, Start(r, s),
           SlotFine(s, txns, env), ~Open(s)
    PROVE  Typed'
<1>1. alone' \subseteq Requests /\ req' = [req EXCEPT ![r] = s] /\ UNCHANGED rows
  BY DEF Start
<1> QED
  BY <1>1, FrameStep

LEMMA CreateStart ==
    ASSUME Typed, env' = env, NEW r \in Requests, CreateCheck(r)
    PROVE  Typed'
<1>1. PICK plan \in {<< >>} \cup PlansFor(TotalPriceCents), guarantee \in BOOLEAN, card \in BOOLEAN :
        Start(r, [Idle EXCEPT !.op = "create", !.pc = "config", !.plan = plan,
                              !.guarantee = guarantee, !.card = card])
  BY DEF CreateCheck
<1> DEFINE s == [Idle EXCEPT !.op = "create", !.pc = "config", !.plan = plan,
                             !.guarantee = guarantee, !.card = card]
<1>2. s \in Slots /\ s.op = "create" /\ s.pc = "config" /\ s.plan = plan /\ s.txn = NoTxn
  BY DEF Idle, Slots, AllOperations, PlansFor
<1>3. Start(r, s)
  BY <1>1
<1> HIDE DEF s
<1>4. s.op \in env.operations
  BY <1>3 DEF Start, Operations
<1> QED
  BY <1>2, <1>3, <1>4, StartStep DEF SlotFine, Open

LEMMA UpdateStart ==
    ASSUME Typed, env' = env, NEW r \in Requests, UpdateCheck(r)
    PROVE  Typed'
<1>1. PICK plan \in {<< >>} \cup PlansFor(TotalPriceCents), guarantee \in BOOLEAN, card \in BOOLEAN :
        Start(r, [Idle EXCEPT !.op = "update", !.pc = "config", !.plan = plan, !.cfg = config.id,
                              !.guarantee = guarantee, !.card = card])
  BY DEF UpdateCheck
<1> DEFINE s == [Idle EXCEPT !.op = "update", !.pc = "config", !.plan = plan, !.cfg = config.id,
                             !.guarantee = guarantee, !.card = card]
<1>0. config.id \in Configs
  BY DEF UpdateCheck, Typed, Rows, ConfigRow
<1>2. s \in Slots /\ s.op = "update" /\ s.pc = "config" /\ s.plan = plan /\ s.txn = NoTxn
      /\ s.cfg \in Configs
  BY <1>0 DEF Idle, Slots, AllOperations, PlansFor
<1>3. Start(r, s)
  BY <1>1
<1> HIDE DEF s
<1>4. s.op \in env.operations
  BY <1>3 DEF Start, Operations
<1> QED
  BY <1>2, <1>3, <1>4, StartStep DEF SlotFine, Open

LEMMA DeleteStart ==
    ASSUME Typed, env' = env, NEW r \in Requests, DeleteCheck(r)
    PROVE  Typed'
<1> DEFINE s == [Idle EXCEPT !.op = "delete", !.pc = "config", !.cfg = config.id]
<1>0. config.id \in Configs
  BY DEF DeleteCheck, Typed, Rows, ConfigRow
<1>2. s \in Slots /\ s.op = "delete" /\ s.pc = "config" /\ s.txn = NoTxn /\ s.cfg \in Configs
  BY <1>0 DEF Idle, Slots, AllOperations
<1>3. Start(r, s)
  BY DEF DeleteCheck
<1> HIDE DEF s
<1>4. s.op \in env.operations
  BY <1>3 DEF Start, Operations
<1> QED
  BY <1>2, <1>3, <1>4, StartStep DEF SlotFine, Open

LEMMA ApplyStart ==
    ASSUME Typed, env' = env, NEW r \in Requests, ApplyCheck(r)
    PROVE  Typed'
<1>1. PICK total \in TemplateTotals, guarantee \in BOOLEAN : \E plan \in PlansFor(total) :
        Start(r, [Idle EXCEPT !.op = "apply", !.pc = "select", !.plan = plan,
                              !.guarantee = guarantee])
  BY DEF ApplyCheck
<1>a. PICK plan \in PlansFor(total) :
        Start(r, [Idle EXCEPT !.op = "apply", !.pc = "select", !.plan = plan,
                              !.guarantee = guarantee])
  BY <1>1
<1> DEFINE s == [Idle EXCEPT !.op = "apply", !.pc = "select", !.plan = plan,
                             !.guarantee = guarantee]
<1>2. s \in Slots /\ s.op = "apply" /\ s.pc = "select" /\ s.plan = plan /\ s.txn = NoTxn
  BY DEF Idle, Slots, AllOperations, PlansFor
<1>3. Start(r, s)
  BY <1>a
<1> HIDE DEF s
<1>4. s.op \in env.operations
  BY <1>3 DEF Start, Operations
<1> QED
  BY <1>2, <1>3, <1>4, StartStep DEF SlotFine, Open

LEMMA TxnStart ==
    ASSUME Typed, env' = env, NEW r \in Requests, TxnCheck(r)
    PROVE  Typed'
<1>1. PICK i \in LiveItems, type \in TxnTypes, n \in Amounts :
        Start(r, [Idle EXCEPT !.op = "createTransaction", !.pc = "insert", !.item = i,
                              !.type = type, !.amount = n])
  BY DEF TxnCheck
<1> DEFINE s == [Idle EXCEPT !.op = "createTransaction", !.pc = "insert", !.item = i,
                             !.type = type, !.amount = n]
<1>0. i \in Items /\ n \in Nat /\ type \in {"payment", "refund", "adjustment"}
      /\ type \in env.types
  BY PaymentSchedulesAssumption DEF LiveItems, Typed, Rows, TxnTypes
<1>2. s \in Slots /\ s.op = "createTransaction" /\ s.pc = "insert" /\ s.txn = NoTxn
      /\ s.item \in Items /\ s.type \in env.types
  BY <1>0 DEF Idle, Slots, AllOperations
<1>3. Start(r, s)
  BY <1>1
<1> HIDE DEF s
<1>4. s.op \in env.operations
  BY <1>3 DEF Start, Operations
<1> QED
  BY <1>2, <1>3, <1>4, StartStep DEF SlotFine, Open

LEMMA DropStart ==
    ASSUME Typed, env' = env, NEW r \in Requests, DropRead(r)
    PROVE  Typed'
<1>1. PICK t \in Txns :
        /\ txns[t].state = "live"
        /\ Start(r, [Idle EXCEPT !.op = "deleteTransaction", !.pc = "delete", !.txn = t,
                                 !.item = txns[t].item])
  BY DEF DropRead
<1> DEFINE s == [Idle EXCEPT !.op = "deleteTransaction", !.pc = "delete", !.txn = t,
                             !.item = txns[t].item]
<1>0. txns[t].item \in Items
  BY <1>1 DEF Typed, Linked
<1>2. s \in Slots /\ s.op = "deleteTransaction" /\ s.pc = "delete" /\ s.txn = t /\ s.item \in Items
  BY <1>0 DEF Idle, Slots, AllOperations
<1>3. Start(r, s)
  BY <1>1
<1> HIDE DEF s
<1>4. s.op \in env.operations
  BY <1>3 DEF Start, Operations
<1> QED
  BY <1>1, <1>2, <1>3, <1>4, StartStep DEF SlotFine, Open

\* The row of an item that was just inserted.
NewItem(c, amount) ==
    [state |-> "live", config |-> c, paid |-> 0, status |-> "pending", expected |-> amount]

\* One new row for each amount of the plan, under an id of its own.
LEMMA InsertFacts ==
    ASSUME NEW table \in [Items -> ItemRow], NEW plan \in Plans \cup {<< >>},
           NEW c \in Configs \cup {NoConfig}, NEW new \in FreshIds(plan),
           Inserted(table, c, plan, new)
    PROVE  /\ items' \in [Items -> ItemRow]
           /\ \A k \in DOMAIN plan : /\ new[k] \in Items /\ items[new[k]].state = "unused"
                                     /\ items'[new[k]] = NewItem(c, plan[k])
           /\ \A j, k \in DOMAIN plan : new[j] = new[k] => j = k
           /\ \A i \in Items : (\A k \in DOMAIN plan : new[k] # i) => items'[i] = table[i]
<1>1. /\ \A k \in DOMAIN plan : new[k] \in Items /\ items[new[k]].state = "unused"
      /\ \A j, k \in DOMAIN plan : new[j] = new[k] => j = k
  BY DEF FreshIds
<1>2. items' = [i \in Items |->
                  IF \E k \in DOMAIN plan : new[k] = i
                  THEN NewItem(c, plan[CHOOSE k \in DOMAIN plan : new[k] = i])
                  ELSE table[i]]
  BY DEF Inserted, NewItem
<1>3. ASSUME NEW k \in DOMAIN plan PROVE items'[new[k]] = NewItem(c, plan[k])
  <2> DEFINE m == CHOOSE j \in DOMAIN plan : new[j] = new[k]
  <2>1. m \in DOMAIN plan /\ new[m] = new[k]
    OBVIOUS
  <2>2. m = k
    BY <1>1, <2>1
  <2> QED
    BY <1>1, <1>2, <2>2
<1>4. \A i \in Items : (\A k \in DOMAIN plan : new[k] # i) => items'[i] = table[i]
  BY <1>2
<1>5. ASSUME NEW i \in Items PROVE items'[i] \in ItemRow
  <2>1. CASE \E k \in DOMAIN plan : new[k] = i
    <3>1. PICK k \in DOMAIN plan : new[k] = i
      BY <2>1
    <3>2. plan[k] \in Nat
      BY PlanFacts
    <3>3. NewItem(c, plan[k]) \in ItemRow
      BY <3>2 DEF NewItem, ItemRow, RowState, ItemStatus
    <3>4. items'[i] = NewItem(c, plan[k])
      BY <1>3, <3>1
    <3> QED
      BY <3>3, <3>4
  <2>2. CASE \A k \in DOMAIN plan : new[k] # i
    BY <1>4, <2>2
  <2> QED
    BY <2>1, <2>2
<1>6. items' \in [Items -> ItemRow]
  BY <1>2, <1>5
<1> QED
  BY <1>1, <1>3, <1>4, <1>6

\* Items that no uncommitted payment holds go with their transactions.
LEMMA RemoveFacts ==
    ASSUME Typed, NEW S \in SUBSET Items, Unlocked(S), Cascade(S)
    PROVE  /\ Without(S) \in [Items -> ItemRow] /\ txns' \in [Txns -> TxnRow]
           /\ \A i \in Items : i \notin S => Without(S)[i] = items[i]
           /\ \A i \in S : Without(S)[i].state = "gone"
           /\ \A t \in Txns : txns[t].state = "pending" => txns'[t] = txns[t]
           /\ \A t \in Txns : txns[t].state \in {"live", "gone"} => txns'[t].state \in {"live", "gone"}
           /\ \A t \in Txns : txns[t].state = "live" /\ txns[t].item \notin S => txns'[t] = txns[t]
           /\ \A t \in Txns : txns'[t].state = "live" => txns'[t] = txns[t] /\ txns[t].item \notin S
           /\ \A t \in Txns : txns'[t].state = "pending" => txns'[t] = txns[t] /\ txns[t].item \notin S
<1>1. items \in [Items -> ItemRow] /\ txns \in [Txns -> TxnRow]
  BY DEF Typed, Rows
<1>2. Without(S) \in [Items -> ItemRow] /\ \A i \in Items : i \notin S => Without(S)[i] = items[i]
  BY <1>1 DEF Without, ItemRow, RowState
<1>3. \A i \in S : Without(S)[i].state = "gone"
  BY <1>1 DEF Without, ItemRow
<1>4. txns' \in [Txns -> TxnRow]
  BY <1>1 DEF Cascade, TxnRow, RowState
<1>5. \A t \in Txns :
        txns'[t] = IF txns[t].state = "live" /\ txns[t].item \in S
                   THEN [txns[t] EXCEPT !.state = "gone"] ELSE txns[t]
  BY DEF Cascade
<1>6. \A t \in Txns : txns[t].state = "live" /\ txns[t].item \in S => txns'[t].state = "gone"
  BY <1>1, <1>5 DEF TxnRow
<1> QED
  BY <1>2, <1>3, <1>4, <1>5, <1>6 DEF Unlocked

\* The tables after some items, and the transactions on them, went.
LEMMA RemoveLinked ==
    ASSUME Typed, NEW S \in SUBSET Items, Unlocked(S), Cascade(S), NEW c,
           \A i \in LiveItems \ S : c.id = config.id
    PROVE  Linked(c, Without(S), txns', env)
<1>1. ASSUME NEW i \in Items, Without(S)[i].state = "live"
      PROVE  /\ Without(S)[i].config = c.id /\ c.id \in Configs
             /\ Without(S)[i].paid <= Without(S)[i].expected
  <2>1. i \notin S
    BY <1>1, RemoveFacts
  <2>2. Without(S)[i] = items[i]
    BY <2>1, RemoveFacts
  <2>3. i \in LiveItems \ S
    BY <1>1, <2>1, <2>2 DEF LiveItems
  <2> QED
    BY <1>1, <2>2, <2>3 DEF Typed, Linked
<1>2. ASSUME NEW t \in Txns, txns'[t].state \in {"live", "pending"}
      PROVE  /\ txns'[t].item \in Items /\ Without(S)[txns'[t].item].state = "live"
             /\ txns'[t].type \in env.types
  <2>1. txns'[t] = txns[t] /\ txns[t].item \notin S
    BY <1>2, RemoveFacts
  <2>2. txns[t].item \in Items /\ items[txns[t].item].state = "live" /\ txns[t].type \in env.types
    BY <1>2, <2>1 DEF Typed, Linked
  <2> QED
    BY <2>1, <2>2, RemoveFacts
<1> QED
  BY <1>1, <1>2 DEF Linked

LEMMA SlotTypes ==
    ASSUME Typed, NEW r \in Requests
    PROVE  /\ req[r] \in Slots /\ SlotFine(req[r], txns, env) /\ req \in [Requests -> Slots]
           /\ items \in [Items -> ItemRow] /\ txns \in [Txns -> TxnRow]
           /\ config \in ConfigRow /\ (config.id = NoConfig => config = NoSchedule)
           /\ spent \subseteq Configs /\ alone \subseteq Requests /\ env \in Environments
BY DEF Typed, Rows

\* The configuration is inserted, changed or left alone, and the items with it.
LEMMA ConfigStep ==
    ASSUME Typed, env' = env, UNCHANGED <<items, txns>>, alone' \subseteq Requests,
           config' \in ConfigRow, config'.id = NoConfig => config' = NoSchedule,
           LiveItems # {} => config'.id = config.id, spent' \subseteq Configs,
           NEW r \in Requests, NEW s \in Slots, req' = [req EXCEPT ![r] = s],
           SlotFine(s, txns, env), ~Open(s)
    PROVE  Typed'
<1>1. Rows'
  BY DEF Typed, Rows
<1>2. Linked(config, items, txns, env)'
  <2>1. ASSUME NEW i \in Items, items[i].state = "live" PROVE config'.id = config.id
    BY <2>1 DEF LiveItems
  <2> QED
    BY <2>1 DEF Typed, Linked
<1> QED
  BY <1>1, <1>2, SlotStep

LEMMA CreateConfigTyped ==
    ASSUME Typed, env' = env, NEW r \in Requests, CreateConfig(r)
    PROVE  Typed'
<1>1. CASE Finish(r) /\ UNCHANGED rows
  BY <1>1, FinishStep
<1>2. CASE ~(Finish(r) /\ UNCHANGED rows)
  <2>1. /\ At(r, "create", "config") /\ config = NoSchedule
        /\ UNCHANGED <<items, txns, alone>>
    BY <1>2 DEF CreateConfig
  <2>2. PICK c \in Configs \ spent :
          /\ config' = [id |-> c, guarantee |-> req[r].guarantee, card |-> FALSE]
          /\ spent' = spent \cup {c}
          /\ req' = [req EXCEPT ![r] = [@ EXCEPT !.pc = "items", !.cfg = c]]
    BY <1>2 DEF CreateConfig
  <2> DEFINE s == [req[r] EXCEPT !.pc = "items", !.cfg = c]
  <2>3. req[r] \in Slots /\ SlotFine(req[r], txns, env) /\ req \in [Requests -> Slots]
        /\ spent \subseteq Configs /\ alone \subseteq Requests
    BY SlotTypes
  <2>4. s \in Slots /\ s.op = "create" /\ s.pc = "items" /\ s.cfg = c /\ s.plan = req[r].plan
        /\ s.txn = req[r].txn /\ req' = [req EXCEPT ![r] = s] /\ req[r].op = "create"
    BY <2>1, <2>2, <2>3 DEF Slots, At
  <2>5. config' \in ConfigRow /\ config'.id # NoConfig
    BY <2>2, <2>3, PaymentSchedulesAssumption DEF ConfigRow, Slots
  <2>6. LiveItems = {}
    BY <2>1, PaymentSchedulesAssumption DEF Typed, Linked, LiveItems, NoSchedule
  <2> HIDE DEF s
  <2>7. SlotFine(s, txns, env) /\ ~Open(s)
    BY <2>3, <2>4 DEF SlotFine, Open
  <2> QED
    BY <2>1, <2>2, <2>3, <2>4, <2>5, <2>6, <2>7, ConfigStep
<1> QED
  BY <1>1, <1>2

LEMMA UpdateConfigTyped ==
    ASSUME Typed, env' = env, NEW r \in Requests, UpdateConfig(r)
    PROVE  Typed'
<1>1. /\ At(r, "update", "config") /\ UNCHANGED <<spent, items, txns, alone>>
      /\ config' = IF config.id = req[r].cfg THEN [config EXCEPT !.guarantee = req[r].guarantee]
                                             ELSE config
  BY DEF UpdateConfig
<1>2. req[r] \in Slots /\ SlotFine(req[r], txns, env) /\ req \in [Requests -> Slots]
      /\ spent \subseteq Configs /\ alone \subseteq Requests
      /\ config \in ConfigRow /\ (config.id = NoConfig => config = NoSchedule)
  BY SlotTypes
<1>3. PICK pc \in {"card", "clear"} : req' = [req EXCEPT ![r].pc = pc]
  BY DEF UpdateConfig, Goto
<1> DEFINE s == [req[r] EXCEPT !.pc = pc]
<1>4. /\ s \in Slots /\ s.op = "update" /\ s.plan = req[r].plan /\ s.cfg = req[r].cfg
      /\ s.txn = req[r].txn /\ req' = [req EXCEPT ![r] = s] /\ req[r].op = "update"
      /\ s.pc \in {"card", "clear"}
  BY <1>1, <1>2, <1>3 DEF Slots, At
<1> HIDE DEF s
<1>5. req[r].cfg \in Configs
  BY <1>2, <1>4 DEF SlotFine
<1>6. config' \in ConfigRow /\ (config'.id = NoConfig => config' = NoSchedule) /\ config'.id = config.id
  BY <1>1, <1>2, <1>5, PaymentSchedulesAssumption DEF ConfigRow, Slots
<1>7. SlotFine(s, txns, env) /\ ~Open(s)
  BY <1>2, <1>4 DEF SlotFine, Open
<1> QED
  BY <1>1, <1>2, <1>4, <1>6, <1>7, ConfigStep

LEMMA SaveGuaranteeTyped ==
    ASSUME Typed, env' = env, NEW r \in Requests, SaveGuarantee(r)
    PROVE  Typed'
<1>1. /\ At(r, "create", "card") \/ At(r, "update", "card")
      /\ UNCHANGED <<spent, items, txns>> /\ Finish(r)
      /\ config' = IF req[r].card /\ config.id = req[r].cfg THEN [config EXCEPT !.card = TRUE]
                                                            ELSE config
  BY DEF SaveGuarantee
<1>2. req[r] \in Slots /\ SlotFine(req[r], txns, env)
      /\ spent \subseteq Configs /\ alone \subseteq Requests
      /\ config \in ConfigRow /\ (config.id = NoConfig => config = NoSchedule)
  BY SlotTypes
<1>3. req[r].cfg \in Configs
  BY <1>1, <1>2 DEF SlotFine, At
<1>4. config' \in ConfigRow /\ (config'.id = NoConfig => config' = NoSchedule) /\ config'.id = config.id
  BY <1>1, <1>2, <1>3, PaymentSchedulesAssumption DEF ConfigRow
<1>5. req' = [req EXCEPT ![r] = Idle] /\ alone' \subseteq Requests
  BY <1>1, <1>2 DEF Finish
<1> QED
  BY <1>1, <1>2, <1>4, <1>5, IdleSlot, ConfigStep

LEMMA ApplySelectTyped ==
    ASSUME Typed, env' = env, NEW r \in Requests, ApplySelect(r)
    PROVE  Typed'
<1>1. At(r, "apply", "select") /\ UNCHANGED <<rows, alone>>
      /\ req' = [req EXCEPT ![r] = [@ EXCEPT !.pc = "write", !.cfg = config.id]]
  BY DEF ApplySelect
<1>2. req[r] \in Slots /\ SlotFine(req[r], txns, env) /\ req \in [Requests -> Slots]
      /\ alone \subseteq Requests /\ config.id \in Configs \cup {NoConfig}
  BY SlotTypes DEF ConfigRow
<1> DEFINE s == [req[r] EXCEPT !.pc = "write", !.cfg = config.id]
<1>3. /\ s \in Slots /\ s.op = "apply" /\ s.plan = req[r].plan /\ s.pc = "write"
      /\ s.txn = req[r].txn /\ req' = [req EXCEPT ![r] = s] /\ req[r].op = "apply"
  BY <1>1, <1>2 DEF Slots, At
<1> HIDE DEF s
<1>4. SlotFine(s, txns, env) /\ ~Open(s)
  BY <1>2, <1>3 DEF SlotFine, Open
<1> QED
  BY <1>1, <1>2, <1>3, <1>4, FrameStep

\* Both syncs, reading.
LEMMA SyncTyped ==
    ASSUME Typed, env' = env, NEW r \in Requests, SyncSum(r) \/ SyncItem(r)
    PROVE  Typed'
<1>1. CASE Finish(r)
  BY <1>1, FinishStep DEF SyncSum, SyncItem
<1>2. CASE ~Finish(r)
  <2>1. /\ UNCHANGED <<rows, alone>> /\ req[r].op \in {"createTransaction", "deleteTransaction"}
        /\ req[r].pc \in {"sum", "item"}
    BY <1>2 DEF SyncSum, SyncItem, At
  <2>2. req[r] \in Slots /\ SlotFine(req[r], txns, env) /\ req \in [Requests -> Slots]
        /\ items \in [Items -> ItemRow] /\ txns \in [Txns -> TxnRow] /\ alone \subseteq Requests
    BY SlotTypes
  <2>3. req[r].item \in Items /\ req[r].txn \in Txns
    BY <2>1, <2>2 DEF SlotFine, Open
  <2>4. PICK pc \in {"item", "write"}, net \in Nat, expected \in Nat :
          req' = [req EXCEPT ![r] = [@ EXCEPT !.pc = pc, !.net = net, !.expected = expected]]
    <3>1. CASE SyncSum(r)
      <4> DEFINE own == IF req[r].op = "createTransaction" THEN {req[r].txn} ELSE {}
                 net == NetPaid(TxnsOf(req[r].item) \cup own)
      <4>1. TxnsOf(req[r].item) \cup own \in SUBSET Txns
        BY <2>3 DEF TxnsOf
      <4>2. net \in Nat
        BY <2>2, <4>1, NetFacts
      <4>3. req' = [req EXCEPT ![r] = [@ EXCEPT !.pc = "item", !.net = net]]
        BY <3>1 DEF SyncSum
      <4> HIDE DEF net
      <4>4. req' = [req EXCEPT ![r] = [@ EXCEPT !.pc = "item", !.net = net,
                                                !.expected = req[r].expected]]
        BY <2>2, <4>3 DEF Slots
      <4>5. req[r].expected \in Nat
        BY <2>2 DEF Slots
      <4> QED
        BY <4>2, <4>4, <4>5
    <3>2. CASE SyncItem(r)
      <4> DEFINE expected == items[req[r].item].expected
      <4>1. expected \in Nat
        BY <2>2, <2>3 DEF ItemRow
      <4>2. req' = [req EXCEPT ![r] = [@ EXCEPT !.pc = "write", !.expected = expected]]
        BY <1>2, <3>2 DEF SyncItem
      <4> HIDE DEF expected
      <4>3. req' = [req EXCEPT ![r] = [@ EXCEPT !.pc = "write", !.net = req[r].net,
                                                !.expected = expected]]
        BY <2>2, <4>2 DEF Slots
      <4>4. req[r].net \in Nat
        BY <2>2 DEF Slots
      <4> QED
        BY <4>1, <4>3, <4>4
    <3> QED
      BY <3>1, <3>2
  <2> DEFINE s == [req[r] EXCEPT !.pc = pc, !.net = net, !.expected = expected]
  <2>5. /\ s \in Slots /\ s.op = req[r].op /\ s.txn = req[r].txn /\ s.item = req[r].item
        /\ s.type = req[r].type /\ s.amount = req[r].amount
        /\ s.pc \in {"item", "write"} /\ req' = [req EXCEPT ![r] = s]
    BY <2>2, <2>4 DEF Slots
  <2> HIDE DEF s
  <2>6. Open(s) => Open(req[r])
    BY <2>1, <2>5 DEF Open, SyncSum, SyncItem, At
  <2>7. SlotFine(s, txns, env)
    BY <2>1, <2>2, <2>5, <2>6 DEF SlotFine
  <2> QED
    BY <2>1, <2>2, <2>5, <2>6, <2>7, FrameStep
<1> QED
  BY <1>1, <1>2

\* ItemsOf a configuration the activity does not have is empty, and of its own it is all.
LEMMA ItemsOfFacts ==
    ASSUME Typed, NEW c
    PROVE  /\ ItemsOf(c) \in SUBSET Items
           /\ c = config.id => ItemsOf(c) = LiveItems
           /\ c # config.id => ItemsOf(c) = {}
BY DEF Typed, Linked, ItemsOf, LiveItems

\* An open payment is one nobody else sees.
LEMMA OpenPending ==
    ASSUME Typed
    PROVE  \A q \in Requests :
              Open(req[q]) => req[q].txn \in Txns /\ txns[req[q].txn].state = "pending"
<1> SUFFICES ASSUME NEW q \in Requests, Open(req[q])
             PROVE  req[q].txn \in Txns /\ txns[req[q].txn].state = "pending"
  OBVIOUS
<1>1. SlotFine(req[q], txns, env)
  BY SlotTypes
<1> QED
  BY <1>1 DEF SlotFine

\* Items go, with the configuration or without it.
LEMMA RemoveStep ==
    ASSUME Typed, env' = env, NEW S \in SUBSET Items, Unlocked(S), Cascade(S),
           items' = Without(S), config' \in ConfigRow, config'.id = NoConfig => config' = NoSchedule,
           \A i \in LiveItems \ S : config'.id = config.id,
           UNCHANGED spent, alone' \subseteq Requests,
           NEW r \in Requests, NEW s \in Slots, req' = [req EXCEPT ![r] = s],
           ~Open(s), \A tx : SlotFine(s, tx, env)
    PROVE  Typed'
<1>1. Rows'
  BY RemoveFacts DEF Typed, Rows
<1>2. Linked(config, items, txns, env)'
  BY RemoveLinked
<1>3. \A q \in Requests \ {r} : Open(req[q]) => txns'[req[q].txn] = txns[req[q].txn]
  BY OpenPending, RemoveFacts
<1>4. \A t \in Txns : txns[t].state \in {"live", "gone"} => txns'[t].state \in {"live", "gone"}
  BY RemoveFacts
<1> QED
  BY <1>1, <1>2, <1>3, <1>4, SlotStep

LEMMA UpdateDeleteTyped ==
    ASSUME Typed, env' = env, NEW r \in Requests, UpdateDeleteItems(r)
    PROVE  Typed'
<1> DEFINE S == ItemsOf(req[r].cfg)
<1>1. /\ At(r, "update", "clear") /\ Unlocked(S) /\ items' = Without(S) /\ Cascade(S)
      /\ Goto(r, "items") /\ UNCHANGED <<config, spent, alone>>
  BY DEF UpdateDeleteItems
<1>2. S \in SUBSET Items
  BY ItemsOfFacts
<1> HIDE DEF S
<1>3. req[r] \in Slots /\ SlotFine(req[r], txns, env) /\ req \in [Requests -> Slots]
      /\ config \in ConfigRow /\ (config.id = NoConfig => config = NoSchedule)
      /\ alone \subseteq Requests
  BY SlotTypes
<1> DEFINE s == [req[r] EXCEPT !.pc = "items"]
<1>4. /\ s \in Slots /\ s.op = "update" /\ s.plan = req[r].plan /\ s.cfg = req[r].cfg
      /\ s.txn = req[r].txn /\ req' = [req EXCEPT ![r] = s] /\ req[r].op = "update"
      /\ s.pc = "items"
  BY <1>1, <1>3 DEF Slots, At, Goto
<1> HIDE DEF s
<1>5. ~Open(s) /\ \A tx : SlotFine(s, tx, env)
  BY <1>3, <1>4 DEF SlotFine, Open
<1> QED
  BY <1>1, <1>2, <1>3, <1>4, <1>5, RemoveStep

LEMMA DeleteConfigTyped ==
    ASSUME Typed, env' = env, NEW r \in Requests, DeleteConfig(r)
    PROVE  Typed'
<1> DEFINE S == ItemsOf(req[r].cfg)
<1>1. /\ Unlocked(S) /\ items' = Without(S) /\ Cascade(S) /\ Finish(r) /\ UNCHANGED spent
      /\ config' = IF config.id = req[r].cfg THEN NoSchedule ELSE config
  BY DEF DeleteConfig
<1>2. S \in SUBSET Items /\ (config.id = req[r].cfg => S = LiveItems)
  BY ItemsOfFacts
<1> HIDE DEF S
<1>3. config \in ConfigRow /\ (config.id = NoConfig => config = NoSchedule)
      /\ alone \subseteq Requests
  BY SlotTypes
<1>4. /\ config' \in ConfigRow /\ (config'.id = NoConfig => config' = NoSchedule)
      /\ \A i \in LiveItems \ S : config'.id = config.id
  BY <1>1, <1>2, <1>3 DEF NoSchedule, ConfigRow
<1>5. req' = [req EXCEPT ![r] = Idle] /\ alone' \subseteq Requests
  BY <1>1, <1>3 DEF Finish
<1> QED
  BY <1>1, <1>2, <1>4, <1>5, IdleSlot, RemoveStep

\* Nothing but items, and the transactions on them, come and go.
LEMMA InsertStep ==
    ASSUME Typed, env' = env, NEW S \in SUBSET Items, Unlocked(S), Cascade(S),
           NEW plan \in Plans \cup {<< >>}, NEW c \in Configs \cup {NoConfig}, NEW new \in FreshIds(plan),
           Inserted(Without(S), c, plan, new), plan # << >> => c \in Configs /\ config'.id = c,
           config' \in ConfigRow, config'.id = NoConfig => config' = NoSchedule,
           \A i \in LiveItems \ S : config'.id = config.id,
           spent' \subseteq Configs, alone' \subseteq Requests,
           NEW r \in Requests, NEW s \in Slots, req' = [req EXCEPT ![r] = s],
           ~Open(s), \A tx : SlotFine(s, tx, env)
    PROVE  Typed'
<1>1. /\ items' \in [Items -> ItemRow]
      /\ \A k \in DOMAIN plan : /\ new[k] \in Items /\ items[new[k]].state = "unused"
                                /\ items'[new[k]] = NewItem(c, plan[k])
      /\ \A i \in Items : (\A k \in DOMAIN plan : new[k] # i) => items'[i] = Without(S)[i]
  <2>1. Without(S) \in [Items -> ItemRow]
    BY RemoveFacts
  <2> QED
    BY <2>1, InsertFacts
<1>2. Rows'
  BY <1>1, RemoveFacts DEF Typed, Rows
<1>3. Linked(config', Without(S), txns', env)
  BY RemoveLinked
<1>4. ASSUME NEW i \in Items, items'[i].state = "live"
      PROVE  items'[i].config = config'.id /\ config'.id \in Configs /\ items'[i].paid <= items'[i].expected
  <2>1. CASE \E k \in DOMAIN plan : new[k] = i
    <3>1. PICK k \in DOMAIN plan : new[k] = i
      BY <2>1
    <3>2. items'[i] = NewItem(c, plan[k]) /\ plan[k] \in Nat /\ plan # << >>
      BY <1>1, <3>1, PlanFacts
    <3> QED
      BY <3>2 DEF NewItem
  <2>2. CASE \A k \in DOMAIN plan : new[k] # i
    BY <1>1, <1>3, <1>4, <2>2 DEF Linked
  <2> QED
    BY <2>1, <2>2
<1>5. ASSUME NEW t \in Txns, txns'[t].state \in {"live", "pending"}
      PROVE  /\ txns'[t].item \in Items /\ items'[txns'[t].item].state = "live"
             /\ txns'[t].type \in env.types
  <2>1. txns'[t].item \in Items /\ Without(S)[txns'[t].item].state = "live" /\ txns'[t].type \in env.types
    BY <1>3, <1>5 DEF Linked
  <2>2. txns'[t] = txns[t] /\ txns[t].state \in {"live", "pending"}
    BY <1>5, RemoveFacts
  <2>3. items[txns[t].item].state = "live"
    BY <2>2 DEF Typed, Linked
  <2>4. \A k \in DOMAIN plan : new[k] # txns[t].item
    BY <1>1, <2>3
  <2> QED
    BY <1>1, <2>1, <2>2, <2>4
<1>6. Linked(config, items, txns, env)'
  BY <1>4, <1>5 DEF Linked
<1>7. \A q \in Requests \ {r} : Open(req[q]) => txns'[req[q].txn] = txns[req[q].txn]
  BY OpenPending, RemoveFacts
<1>8. \A t \in Txns : txns[t].state \in {"live", "gone"} => txns'[t].state \in {"live", "gone"}
  BY RemoveFacts
<1> QED
  BY <1>2, <1>6, <1>7, <1>8, SlotStep

\* Removing no item changes nothing.
LEMMA RemoveNone ==
    ASSUME Typed
    PROVE  Without({}) = items /\ Unlocked({}) /\ (txns' = txns => Cascade({}))
<1>1. items \in [Items -> ItemRow] /\ txns \in [Txns -> TxnRow]
  BY DEF Typed, Rows
<1> QED
  BY <1>1 DEF Without, Unlocked, Cascade

LEMMA CreateItemsTyped ==
    ASSUME Typed, env' = env, NEW r \in Requests, CreateItems(r)
    PROVE  Typed'
<1>1. CASE Finish(r) /\ UNCHANGED rows
  BY <1>1, FinishStep
<1>2. CASE ~(Finish(r) /\ UNCHANGED rows)
  <2>1. /\ At(r, "create", "items") \/ At(r, "update", "items")
        /\ config.id = req[r].cfg \/ req[r].plan = << >>
        /\ Goto(r, "card") /\ UNCHANGED <<config, spent, txns, alone>>
    BY <1>2 DEF CreateItems
  <2>2. PICK new \in FreshIds(req[r].plan) : Inserted(items, req[r].cfg, req[r].plan, new)
    BY <1>2 DEF CreateItems
  <2>3. req[r] \in Slots /\ SlotFine(req[r], txns, env) /\ req \in [Requests -> Slots]
        /\ config \in ConfigRow /\ (config.id = NoConfig => config = NoSchedule)
        /\ alone \subseteq Requests /\ spent \subseteq Configs
    BY SlotTypes
  <2> DEFINE s == [req[r] EXCEPT !.pc = "card"]
  <2>4. /\ s \in Slots /\ s.op = req[r].op /\ s.plan = req[r].plan /\ s.cfg = req[r].cfg
        /\ s.txn = req[r].txn /\ req' = [req EXCEPT ![r] = s] /\ req[r].op \in {"create", "update"}
        /\ s.pc = "card" /\ req[r].pc = "items"
    BY <2>1, <2>3 DEF Slots, At, Goto
  <2> HIDE DEF s
  <2>5. ~Open(s) /\ \A tx : SlotFine(s, tx, env)
    BY <2>3, <2>4 DEF SlotFine, Open
  <2>6. req[r].cfg \in Configs
    BY <2>3, <2>4 DEF SlotFine
  <2>7. req[r].plan \in Plans \cup {<< >>}
    BY <2>3 DEF Slots
  <2>8. Inserted(Without({}), req[r].cfg, req[r].plan, new) /\ Unlocked({}) /\ Cascade({})
    BY <2>1, <2>2, RemoveNone
  <2>9. \A i \in LiveItems \ {} : config'.id = config.id
    BY <2>1
  <2>10. {} \in SUBSET Items
    OBVIOUS
  <2>11. req[r].plan # << >> => config'.id = req[r].cfg
    BY <2>1
  <2>12. /\ config' \in ConfigRow /\ (config'.id = NoConfig => config' = NoSchedule)
         /\ spent' \subseteq Configs /\ alone' \subseteq Requests
    BY <2>1, <2>3
  <2> QED
    BY <2>2, <2>4, <2>5, <2>6, <2>7, <2>8, <2>9, <2>10, <2>11, <2>12, InsertStep
<1> QED
  BY <1>1, <1>2

LEMMA ApplyCommitTyped ==
    ASSUME Typed, env' = env, NEW r \in Requests, ApplyCommit(r)
    PROVE  Typed'
<1>1. CASE Finish(r) /\ UNCHANGED rows
  BY <1>1, FinishStep
<1>2. CASE ~(Finish(r) /\ UNCHANGED rows)
  <2> DEFINE S == ItemsOf(req[r].cfg)
  <2>1. config.id = req[r].cfg /\ Unlocked(S) /\ Cascade(S) /\ Finish(r)
    BY <1>2 DEF ApplyCommit
  <2>2. PICK c \in IF config = NoSchedule THEN Configs \ spent ELSE {config.id} :
          /\ config' = [id |-> c, guarantee |-> req[r].guarantee, card |-> config.card]
          /\ spent' = spent \cup {c}
          /\ \E new \in FreshIds(req[r].plan) : Inserted(Without(S), c, req[r].plan, new)
    BY <1>2 DEF ApplyCommit
  <2>3. PICK new \in FreshIds(req[r].plan) : Inserted(Without(S), c, req[r].plan, new)
    BY <2>2
  <2>4. req[r] \in Slots /\ req[r].plan \in Plans \cup {<< >>}
        /\ config \in ConfigRow /\ (config.id = NoConfig => config = NoSchedule)
        /\ alone \subseteq Requests /\ spent \subseteq Configs
    BY SlotTypes DEF Slots
  <2>5. S \in SUBSET Items /\ S = LiveItems
    BY <2>1, ItemsOfFacts DEF LiveItems
  <2> HIDE DEF S
  <2>6. c \in Configs
    BY <2>2, <2>4 DEF ConfigRow
  <2>7. config' \in ConfigRow /\ config'.id = c /\ c # NoConfig
    BY <2>2, <2>4, <2>6, PaymentSchedulesAssumption DEF ConfigRow, Slots
  <2>8. req' = [req EXCEPT ![r] = Idle] /\ alone' \subseteq Requests /\ spent' \subseteq Configs
    BY <2>1, <2>2, <2>4, <2>6 DEF Finish
  <2>9. \A i \in LiveItems \ S : config'.id = config.id
    BY <2>5
  <2> QED
    BY <2>1, <2>3, <2>4, <2>5, <2>6, <2>7, <2>8, <2>9, IdleSlot, InsertStep
<1> QED
  BY <1>1, <1>2

\* Items that stay where they are, and transactions that name one of them.
LEMMA StillLinked ==
    ASSUME Typed,
           \A j \in Items : items'[j].state = items[j].state /\ items'[j].config = items[j].config,
           \A j \in Items : items[j].state = "live" => items'[j].paid <= items'[j].expected,
           \A t \in Txns : txns'[t].state \in {"live", "pending"} =>
                txns'[t].item \in Items /\ items[txns'[t].item].state = "live"
                /\ txns'[t].type \in env.types
    PROVE  Linked(config, items', txns', env)
BY DEF Typed, Linked

\* One statement writes an item.
LEMMA ItemWritten ==
    ASSUME Typed, NEW i \in Items, NEW e \in Nat, NEW p \in Nat, NEW st \in ItemStatus, p <= e,
           items' = [items EXCEPT ![i] = [@ EXCEPT !.expected = e, !.paid = p, !.status = st]]
    PROVE  /\ items' \in [Items -> ItemRow]
           /\ \A j \in Items : items'[j].state = items[j].state /\ items'[j].config = items[j].config
           /\ \A j \in Items : items[j].state = "live" => items'[j].paid <= items'[j].expected
           /\ \A j \in Items \ {i} : items'[j] = items[j]
           /\ items'[i].expected = e /\ items'[i].paid = p /\ items'[i].status = st
<1>1. items \in [Items -> ItemRow]
  BY DEF Typed, Rows
<1>2. items' \in [Items -> ItemRow] /\ \A j \in Items \ {i} : items'[j] = items[j]
  BY <1>1 DEF ItemRow
<1>3. /\ items'[i].expected = e /\ items'[i].paid = p /\ items'[i].status = st
      /\ items'[i].state = items[i].state /\ items'[i].config = items[i].config
  BY <1>1 DEF ItemRow
<1>4. \A j \in Items \ {i} : items[j].state = "live" => items[j].paid <= items[j].expected
  BY DEF Typed, Linked
<1> QED
  BY <1>2, <1>3, <1>4

\* A sync writes the total and the status, not what is expected.
LEMMA SyncWritten ==
    ASSUME Typed, NEW r \in Requests, req[r].item \in Items, NEW net \in Nat, Synced(r, net),
           net <= items[req[r].item].expected
    PROVE  /\ items' \in [Items -> ItemRow]
           /\ \A j \in Items : /\ items'[j].state = items[j].state
                               /\ items'[j].config = items[j].config
                               /\ items'[j].expected = items[j].expected
           /\ \A j \in Items : items[j].state = "live" => items'[j].paid <= items'[j].expected
           /\ \A j \in Items \ {req[r].item} : items'[j] = items[j]
           /\ items'[req[r].item].paid = net
           /\ items'[req[r].item].status = StatusOf(net, req[r].expected)
<1>1. items \in [Items -> ItemRow]
  BY DEF Typed, Rows
<1>2. PICK i \in Items : i = req[r].item
  OBVIOUS
<1>3. StatusOf(net, req[r].expected) \in ItemStatus
  BY DEF StatusOf, ItemStatus
<1>4. PICK st \in ItemStatus : st = StatusOf(net, req[r].expected)
  BY <1>3
<1>5. items' = [items EXCEPT ![i] = [@ EXCEPT !.paid = net, !.status = st]]
  BY <1>2, <1>4 DEF Synced
<1>6. items' \in [Items -> ItemRow] /\ \A j \in Items \ {i} : items'[j] = items[j]
  BY <1>1, <1>5 DEF ItemRow
<1>7. /\ items'[i].paid = net /\ items'[i].status = st /\ items'[i].expected = items[i].expected
      /\ items'[i].state = items[i].state /\ items'[i].config = items[i].config
  BY <1>1, <1>5 DEF ItemRow
<1>8. \A j \in Items : items[j].state = "live" => items'[j].paid <= items'[j].expected
  <2>1. \A j \in Items \ {i} : items[j].state = "live" => items'[j].paid <= items'[j].expected
    BY <1>6 DEF Typed, Linked
  <2>2. items'[i].paid <= items'[i].expected
    BY <1>2, <1>7
  <2> QED
    BY <2>1, <2>2
<1> QED
  BY <1>2, <1>4, <1>6, <1>7, <1>8

LEMMA TxnInsertTyped ==
    ASSUME Typed, env' = env, NEW r \in Requests, TxnInsert(r)
    PROVE  Typed'
<1>1. CASE Finish(r) /\ UNCHANGED rows
  BY <1>1, FinishStep
<1>2. CASE ~(Finish(r) /\ UNCHANGED rows)
  <2>1. /\ At(r, "createTransaction", "insert") /\ items[req[r].item].state = "live"
        /\ UNCHANGED <<config, spent, items, alone>>
    BY <1>2 DEF TxnInsert
  <2>2. PICK t \in Txns :
          /\ txns[t].state = "unused"
          /\ txns' = [txns EXCEPT ![t] = [state |-> "pending", item |-> req[r].item,
                                          type |-> req[r].type, amount |-> req[r].amount]]
          /\ req' = [req EXCEPT ![r] = [@ EXCEPT !.pc = "sum", !.txn = t]]
    BY <1>2 DEF TxnInsert
  <2>3. req[r] \in Slots /\ SlotFine(req[r], txns, env) /\ req \in [Requests -> Slots]
        /\ txns \in [Txns -> TxnRow] /\ items \in [Items -> ItemRow]
    BY SlotTypes
  <2> DEFINE s == [req[r] EXCEPT !.pc = "sum", !.txn = t]
             row == [state |-> "pending", item |-> req[r].item,
                     type |-> req[r].type, amount |-> req[r].amount]
  <2>4. /\ s \in Slots /\ s.op = "createTransaction" /\ s.pc = "sum" /\ s.txn = t
        /\ s.item = req[r].item /\ s.type = req[r].type /\ s.amount = req[r].amount
        /\ req' = [req EXCEPT ![r] = s] /\ req[r].op = "createTransaction"
    BY <2>1, <2>2, <2>3 DEF Slots, At
  <2>5. req[r].item \in Items /\ req[r].type \in env.types
    BY <2>3, <2>4 DEF SlotFine
  <2>6. row \in TxnRow /\ row.state = "pending" /\ row.item = req[r].item /\ row.type = req[r].type
    BY <2>3, <2>5 DEF TxnRow, Slots
  <2>7. txns'[t] = row /\ \A u \in Txns \ {t} : txns'[u] = txns[u]
    BY <2>2, <2>3
  <2>8. txns' \in [Txns -> TxnRow]
    BY <2>2, <2>3, <2>6
  <2>a. row = [state |-> "pending", item |-> s.item, type |-> s.type, amount |-> s.amount]
    BY <2>4
  <2> HIDE DEF s, row
  <2>9. \A q \in Requests : Open(req[q]) => req[q].txn # t /\ txns'[req[q].txn] = txns[req[q].txn]
    BY <2>2, <2>7, OpenPending
  <2>10. \A u \in Txns : txns[u].state \in {"live", "gone"} => txns'[u].state \in {"live", "gone"}
    BY <2>2, <2>7
  <2>11. SlotFine(s, txns', env)
    BY <2>3, <2>4, <2>5, <2>7, <2>a DEF SlotFine, Open
  <2>12. Rows'
    BY <2>1, <2>8 DEF Typed, Rows
  <2>13. Linked(config, items, txns, env)'
    <3>1. \A u \in Txns : txns'[u].state \in {"live", "pending"} =>
              txns'[u].item \in Items /\ items[txns'[u].item].state = "live"
              /\ txns'[u].type \in env.types
      BY <2>1, <2>5, <2>6, <2>7 DEF Typed, Linked
    <3>2. \A j \in Items : items[j].state = "live" => items[j].paid <= items[j].expected
      BY DEF Typed, Linked
    <3> QED
      BY <2>1, <3>1, <3>2, StillLinked
  <2> QED
    BY <2>4, <2>9, <2>10, <2>11, <2>12, <2>13, SlotStep
<1> QED
  BY <1>1, <1>2

\* A transaction of one's own is committed, rolled back or deleted, and the request goes on
\* without it.
LEMMA TxnStep ==
    ASSUME Typed, env' = env, NEW r \in Requests, NEW t \in Txns,
           txns[t].state \in {"live", "gone"} \/ (Open(req[r]) /\ req[r].txn = t),
           NEW st \in {"live", "gone"}, txns' = [txns EXCEPT ![t].state = st],
           st = "live" => txns[t].state \in {"live", "pending"},
           UNCHANGED <<config, spent>>, alone' \subseteq Requests,
           items' \in [Items -> ItemRow],
           \A j \in Items : items'[j].state = items[j].state /\ items'[j].config = items[j].config,
           \A j \in Items : items[j].state = "live" => items'[j].paid <= items'[j].expected,
           NEW s \in Slots, req' = [req EXCEPT ![r] = s], ~Open(s), SlotFine(s, txns', env)
    PROVE  Typed'
<1>1. txns \in [Txns -> TxnRow]
  BY DEF Typed, Rows
<1>2. txns' \in [Txns -> TxnRow] /\ \A u \in Txns \ {t} : txns'[u] = txns[u]
  BY <1>1 DEF TxnRow, RowState
<1>3. txns'[t].state = st /\ txns'[t].item = txns[t].item /\ txns'[t].type = txns[t].type
  BY <1>1 DEF TxnRow
<1>4. Rows'
  BY <1>2 DEF Typed, Rows
<1>5. Linked(config, items, txns, env)'
  <2>1. \A u \in Txns : txns'[u].state \in {"live", "pending"} =>
              txns'[u].item \in Items /\ items[txns'[u].item].state = "live"
              /\ txns'[u].type \in env.types
    BY <1>2, <1>3 DEF Typed, Linked
  <2> QED
    BY <2>1, StillLinked
<1>6. \A q \in Requests \ {r} : Open(req[q]) => txns'[req[q].txn] = txns[req[q].txn]
  <2>1. \A q \in Requests \ {r} : Open(req[q]) => req[q].txn # t
    BY OpenPending DEF Typed
  <2> QED
    BY <1>2, <2>1, OpenPending
<1>7. \A u \in Txns : txns[u].state \in {"live", "gone"} => txns'[u].state \in {"live", "gone"}
  BY <1>2, <1>3
<1> QED
  BY <1>4, <1>5, <1>6, <1>7, SlotStep

LEMMA TxnCommitTyped ==
    ASSUME Typed, env' = env, NEW r \in Requests, TxnCommit(r)
    PROVE  Typed'
<1>1. /\ At(r, "createTransaction", "write") /\ Finish(r) /\ UNCHANGED <<config, spent>>
  BY DEF TxnCommit
<1>2. req[r] \in Slots /\ SlotFine(req[r], txns, env) /\ items \in [Items -> ItemRow]
      /\ alone \subseteq Requests
  BY SlotTypes
<1>3. Open(req[r]) /\ req[r].txn \in Txns /\ txns[req[r].txn].state = "pending"
      /\ req[r].item \in Items /\ req[r].net \in Nat
  BY <1>1, <1>2, OpenPending DEF At, Open, SlotFine, Slots
<1>4. req' = [req EXCEPT ![r] = Idle] /\ alone' \subseteq Requests
  BY <1>1, <1>2 DEF Finish
<1>5. CASE /\ req[r].net <= items[req[r].item].expected
           /\ Synced(r, req[r].net)
           /\ txns' = [txns EXCEPT ![req[r].txn].state = "live"]
  <2>1. /\ items' \in [Items -> ItemRow]
        /\ \A j \in Items : items'[j].state = items[j].state /\ items'[j].config = items[j].config
        /\ \A j \in Items : items[j].state = "live" => items'[j].paid <= items'[j].expected
    BY <1>3, <1>5, SyncWritten
  <2> QED
    BY <1>1, <1>3, <1>4, <1>5, <2>1, IdleSlot, TxnStep
<1>6. CASE UNCHANGED items /\ txns' = [txns EXCEPT ![req[r].txn].state = "gone"]
  <2>1. \A j \in Items : items[j].state = "live" => items[j].paid <= items[j].expected
    BY DEF Typed, Linked
  <2> QED
    BY <1>1, <1>2, <1>3, <1>4, <1>6, <2>1, IdleSlot, TxnStep
<1> QED
  BY <1>5, <1>6 DEF TxnCommit

LEMMA DropDeleteTyped ==
    ASSUME Typed, env' = env, NEW r \in Requests, DropDelete(r)
    PROVE  Typed'
<1>1. /\ At(r, "deleteTransaction", "delete") /\ Goto(r, "sum")
      /\ txns' = [txns EXCEPT ![req[r].txn].state = "gone"]
      /\ UNCHANGED <<config, spent, items, alone>>
  BY DEF DropDelete
<1>2. req[r] \in Slots /\ SlotFine(req[r], txns, env) /\ items \in [Items -> ItemRow]
      /\ alone \subseteq Requests /\ req \in [Requests -> Slots] /\ txns \in [Txns -> TxnRow]
  BY SlotTypes
<1>3. req[r].txn \in Txns /\ txns[req[r].txn].state \in {"live", "gone"} /\ req[r].item \in Items
  BY <1>1, <1>2 DEF At, SlotFine
<1> DEFINE s == [req[r] EXCEPT !.pc = "sum"]
<1>4. /\ s \in Slots /\ s.op = "deleteTransaction" /\ s.pc = "sum" /\ s.txn = req[r].txn
      /\ s.item = req[r].item /\ req' = [req EXCEPT ![r] = s] /\ req[r].op = "deleteTransaction"
  BY <1>1, <1>2 DEF Slots, At, Goto
<1> HIDE DEF s
<1>5. txns'[req[r].txn].state = "gone"
  BY <1>1, <1>2, <1>3 DEF TxnRow
<1>6. SlotFine(s, txns', env) /\ ~Open(s)
  BY <1>2, <1>3, <1>4, <1>5 DEF SlotFine, Open
<1>7. \A j \in Items : items[j].state = "live" => items[j].paid <= items[j].expected
  BY DEF Typed, Linked
<1> QED
  BY <1>1, <1>2, <1>3, <1>4, <1>6, <1>7, TxnStep

\* Items are written in place, transactions are not touched.
LEMMA ItemStep ==
    ASSUME Typed, env' = env, UNCHANGED <<config, spent, txns>>, alone' \subseteq Requests,
           items' \in [Items -> ItemRow],
           \A j \in Items : items'[j].state = items[j].state /\ items'[j].config = items[j].config,
           \A j \in Items : items[j].state = "live" => items'[j].paid <= items'[j].expected,
           \/ req' = req
           \/ \E r \in Requests : req' = [req EXCEPT ![r] = Idle]
    PROVE  Typed'
<1>1. Rows'
  BY DEF Typed, Rows
<1>2. Linked(config, items, txns, env)'
  BY StillLinked DEF Typed, Linked
<1>3. CASE req' = req
  BY <1>1, <1>2, <1>3 DEF Typed
<1>4. CASE \E r \in Requests : req' = [req EXCEPT ![r] = Idle]
  BY <1>1, <1>2, <1>4, IdleSlot, SlotStep
<1> QED
  BY <1>3, <1>4

LEMMA DropWriteTyped ==
    ASSUME Typed, env' = env, NEW r \in Requests, DropWrite(r)
    PROVE  Typed'
<1>1. /\ At(r, "deleteTransaction", "write") /\ Finish(r) /\ UNCHANGED <<config, spent, txns>>
  BY DEF DropWrite
<1>2. req[r] \in Slots /\ SlotFine(req[r], txns, env) /\ items \in [Items -> ItemRow]
      /\ alone \subseteq Requests
  BY SlotTypes
<1>3. req[r].item \in Items /\ req[r].net \in Nat
  BY <1>1, <1>2 DEF At, SlotFine, Slots
<1>4. req' = [req EXCEPT ![r] = Idle] /\ alone' \subseteq Requests
  BY <1>1, <1>2 DEF Finish
<1>5. /\ items' \in [Items -> ItemRow]
      /\ \A j \in Items : items'[j].state = items[j].state /\ items'[j].config = items[j].config
      /\ \A j \in Items : items[j].state = "live" => items'[j].paid <= items'[j].expected
  <2>1. CASE req[r].net <= items[req[r].item].expected /\ Synced(r, req[r].net)
    BY <1>3, <2>1, SyncWritten
  <2>2. CASE UNCHANGED items
    BY <1>2, <2>2 DEF Typed, Linked
  <2> QED
    BY <2>1, <2>2 DEF DropWrite
<1> QED
  BY <1>1, <1>4, <1>5, ItemStep

LEMMA EditItemTyped ==
    ASSUME Typed, env' = env, NEW i \in Items, UpdateExpectedPaymentItem(i)
    PROVE  Typed'
<1>1. PICK expected \in Amounts \cup {items[i].expected}, paid \in Amounts \cup {items[i].paid},
          status \in {"pending", "partial", "paid"} :
        /\ paid <= expected
        /\ items' = [items EXCEPT ![i] = [@ EXCEPT !.expected = expected, !.paid = paid,
                                                   !.status = status]]
  BY DEF UpdateExpectedPaymentItem
<1>2. UNCHANGED <<config, spent, txns, req>> /\ alone' = {}
  BY DEF UpdateExpectedPaymentItem
<1>3. items \in [Items -> ItemRow]
  BY DEF Typed, Rows
<1>4. expected \in Nat /\ paid \in Nat /\ status \in ItemStatus
  BY <1>3, PaymentSchedulesAssumption DEF ItemRow, ItemStatus
<1>5. /\ items' \in [Items -> ItemRow]
      /\ \A j \in Items : items'[j].state = items[j].state /\ items'[j].config = items[j].config
      /\ \A j \in Items : items[j].state = "live" => items'[j].paid <= items'[j].expected
  BY <1>1, <1>4, ItemWritten
<1> QED
  BY <1>2, <1>5, ItemStep

LEMMA DieTyped ==
    ASSUME Typed, env' = env, NEW r \in Requests, Die(r)
    PROVE  Typed'
<1>1. Finish(r) /\ UNCHANGED <<config, spent, items>>
  BY DEF Die
<1>2. req[r] \in Slots /\ SlotFine(req[r], txns, env) /\ items \in [Items -> ItemRow]
      /\ alone \subseteq Requests
  BY SlotTypes
<1>3. req' = [req EXCEPT ![r] = Idle] /\ alone' \subseteq Requests
  BY <1>1, <1>2 DEF Finish
<1>4. CASE req[r].txn \in Txns /\ txns[req[r].txn].state = "pending"
  <2>1. Open(req[r])
    BY <1>2, <1>4, PaymentSchedulesAssumption DEF SlotFine, Open, Slots
  <2>2. txns' = [txns EXCEPT ![req[r].txn].state = "gone"]
    BY <1>4 DEF Die
  <2>3. \A j \in Items : items[j].state = "live" => items[j].paid <= items[j].expected
    BY DEF Typed, Linked
  <2> QED
    BY <1>1, <1>2, <1>3, <1>4, <2>1, <2>2, <2>3, IdleSlot, TxnStep
<1>5. CASE ~(req[r].txn \in Txns /\ txns[req[r].txn].state = "pending")
  <2>1. UNCHANGED rows
    BY <1>1, <1>5 DEF Die, rows
  <2> QED
    BY <1>1, <2>1, FinishStep
<1> QED
  BY <1>4, <1>5

-----------------------------------------------------------------------------
(* The tables hang together                                                  *)

LEMMA InitTyped == Init => Typed
<1> SUFFICES ASSUME Init PROVE Typed
  OBVIOUS
<1>1. /\ config = NoSchedule /\ spent = {} /\ alone = {} /\ env \in Environments
      /\ items = [i \in Items |-> UnusedItem] /\ txns = [t \in Txns |-> UnusedTxn]
      /\ req = [r \in Requests |-> Idle]
  BY DEF Init
<1>2. NoSchedule \in ConfigRow /\ NoSchedule.id = NoConfig
  BY DEF NoSchedule, ConfigRow
<1>3. UnusedItem \in ItemRow /\ UnusedItem.state = "unused"
  BY DEF UnusedItem, ItemRow, RowState, ItemStatus
<1>4. UnusedTxn \in TxnRow /\ UnusedTxn.state = "unused"
  BY DEF UnusedTxn, TxnRow, RowState
<1>5. Rows
  BY <1>1, <1>2, <1>3, <1>4 DEF Rows
<1>6. Linked(config, items, txns, env)
  BY <1>1, <1>3, <1>4 DEF Linked
<1> QED
  BY <1>1, <1>5, <1>6, IdleSlot DEF Typed

\* However requests overlap, and whatever a client does, rows point at rows that are there.
LEMMA NextTyped == ASSUME Typed, [Next]_vars PROVE Typed'
<1>1. CASE UNCHANGED vars
  <2>1. UNCHANGED <<config, spent, items, txns, req, alone, env>>
    BY <1>1 DEF vars
  <2> QED
    BY <2>1 DEF Typed, Rows, Linked
<1>2. CASE Step /\ env' = env
  <2>1. ASSUME NEW r \in Requests, CreateCheck(r) \/ CreateConfig(r) \/ CreateItems(r)
        PROVE  Typed'
    BY <1>2, <2>1, CreateStart, CreateConfigTyped, CreateItemsTyped
  <2>2. ASSUME NEW r \in Requests, UpdateCheck(r) \/ UpdateConfig(r) \/ UpdateDeleteItems(r)
        PROVE  Typed'
    BY <1>2, <2>2, UpdateStart, UpdateConfigTyped, UpdateDeleteTyped
  <2>3. ASSUME NEW r \in Requests, SaveGuarantee(r) \/ DeleteCheck(r) \/ DeleteConfig(r)
        PROVE  Typed'
    BY <1>2, <2>3, SaveGuaranteeTyped, DeleteStart, DeleteConfigTyped
  <2>4. ASSUME NEW r \in Requests, ApplyCheck(r) \/ ApplySelect(r) \/ ApplyCommit(r)
        PROVE  Typed'
    BY <1>2, <2>4, ApplyStart, ApplySelectTyped, ApplyCommitTyped
  <2>5. ASSUME NEW r \in Requests, TxnCheck(r) \/ TxnInsert(r) \/ TxnCommit(r)
        PROVE  Typed'
    BY <1>2, <2>5, TxnStart, TxnInsertTyped, TxnCommitTyped
  <2>6. ASSUME NEW r \in Requests, SyncSum(r) \/ SyncItem(r) PROVE Typed'
    BY <1>2, <2>6, SyncTyped
  <2>7. ASSUME NEW r \in Requests, DropRead(r) \/ DropDelete(r) \/ DropWrite(r) \/ Die(r)
        PROVE  Typed'
    BY <1>2, <2>7, DropStart, DropDeleteTyped, DropWriteTyped, DieTyped
  <2>8. ASSUME NEW i \in Items, UpdateExpectedPaymentItem(i) PROVE Typed'
    BY <1>2, <2>8, EditItemTyped
  <2> QED
    BY <1>2, <2>1, <2>2, <2>3, <2>4, <2>5, <2>6, <2>7, <2>8 DEF Step
<1> QED
  BY <1>1, <1>2 DEF Next

LEMMA TypedTypeOK == Typed => TypeOK
<1> SUFFICES ASSUME Typed PROVE TypeOK
  OBVIOUS
<1>1. \A i \in LiveItems : items[i].config = config.id /\ config # NoSchedule
  BY PaymentSchedulesAssumption DEF Typed, Linked, LiveItems, NoSchedule
<1>2. \A t \in Txns : txns[t].state \in {"live", "pending"} => txns[t].item \in LiveItems
  BY DEF Typed, Linked, LiveItems
<1>3. req \in [Requests -> Slots]
  BY DEF Typed
<1>4. /\ config \in ConfigRow /\ items \in [Items -> ItemRow] /\ txns \in [Txns -> TxnRow]
      /\ spent \subseteq Configs /\ alone \subseteq Requests
  BY DEF Typed, Rows
<1> QED
  BY <1>1, <1>2, <1>3, <1>4 DEF TypeOK, Slots, ConfigRow, ItemRow, TxnRow

\* A schedule that has items keeps some, unless it is deleted or updated: a template replaces
\* them in one step, and is never empty (NeverEmptied).
LEMMA StepKeepsItems ==
    ASSUME Typed, Step, env' = env, LiveItems # {}, config'.id = config.id, "update" \notin Operations
    PROVE  LiveItems' # {}
<1>1. CASE UNCHANGED items
  BY <1>1 DEF LiveItems
<1>2. ASSUME NEW r \in Requests, UpdateDeleteItems(r) PROVE FALSE
  <2>1. SlotFine(req[r], txns, env) /\ req[r].op = "update"
    BY <1>2, SlotTypes DEF UpdateDeleteItems, At
  <2> QED
    BY <2>1 DEF SlotFine, Operations
<1>3. ASSUME NEW r \in Requests, DeleteConfig(r) PROVE LiveItems' # {}
  <2>1. At(r, "delete", "config") /\ items' = Without(ItemsOf(req[r].cfg))
        /\ config' = IF config.id = req[r].cfg THEN NoSchedule ELSE config
    BY <1>3 DEF DeleteConfig
  <2>2. req[r].cfg \in Configs
    BY <2>1, SlotTypes DEF SlotFine, At
  <2>3. config.id # req[r].cfg
    BY <2>1, <2>2, PaymentSchedulesAssumption DEF NoSchedule
  <2>4. items' = items
    BY <2>1, <2>3, ItemsOfFacts, RemoveNone
  <2> QED
    BY <2>4 DEF LiveItems
<1>4. ASSUME NEW r \in Requests, CreateItems(r) PROVE LiveItems' # {}
  <2>1. CASE UNCHANGED rows
    BY <2>1 DEF rows, LiveItems
  <2>2. CASE ~ UNCHANGED rows
    <3>1. PICK new \in FreshIds(req[r].plan) : Inserted(items, req[r].cfg, req[r].plan, new)
      BY <1>4, <2>2 DEF CreateItems
    <3>2. req[r].plan \in Plans \cup {<< >>} /\ req[r].cfg \in Configs \cup {NoConfig}
          /\ items \in [Items -> ItemRow]
      BY SlotTypes DEF Slots
    <3>3. \A k \in DOMAIN req[r].plan : items[new[k]].state = "unused"
      BY <3>1, <3>2, InsertFacts
    <3>4. \A i \in LiveItems : items'[i] = items[i]
      BY <3>1, <3>2, <3>3, InsertFacts DEF LiveItems
    <3> QED
      BY <3>4 DEF LiveItems
  <2> QED
    BY <2>1, <2>2
<1>5. ASSUME NEW r \in Requests, ApplyCommit(r) PROVE LiveItems' # {}
  <2>1. CASE UNCHANGED rows
    BY <2>1 DEF rows, LiveItems
  <2>2. CASE ~ UNCHANGED rows
    <3> DEFINE S == ItemsOf(req[r].cfg)
    <3>0. At(r, "apply", "write") /\ Unlocked(S) /\ Cascade(S)
      BY <1>5, <2>2 DEF ApplyCommit
    <3>1. PICK c \in IF config = NoSchedule THEN Configs \ spent ELSE {config.id} :
            \E new \in FreshIds(req[r].plan) : Inserted(Without(S), c, req[r].plan, new)
      BY <1>5, <2>2 DEF ApplyCommit
    <3>2. PICK new \in FreshIds(req[r].plan) : Inserted(Without(S), c, req[r].plan, new)
      BY <3>1
    <3>3. req[r].plan \in Plans \cup {<< >>} /\ c \in Configs \cup {NoConfig}
          /\ Without(S) \in [Items -> ItemRow] /\ SlotFine(req[r], txns, env)
      BY <3>0, SlotTypes, ItemsOfFacts, RemoveFacts DEF Slots, ConfigRow
    <3>4. req[r].plan \in Plans
      BY <3>0, <3>3 DEF SlotFine, At, PlansFor
    <3>5. new[1] \in Items /\ items'[new[1]].state = "live"
      <4>1. 1 \in DOMAIN req[r].plan
        BY <3>4, PlanFacts
      <4>2. new[1] \in Items /\ items'[new[1]] = NewItem(c, req[r].plan[1])
        BY <3>2, <3>3, <4>1, InsertFacts
      <4> QED
        BY <4>2 DEF NewItem
    <3> QED
      BY <3>5 DEF LiveItems
  <2> QED
    BY <2>1, <2>2
<1>6. ASSUME NEW r \in Requests, TxnCommit(r) \/ DropWrite(r) PROVE LiveItems' # {}
  <2>1. CASE UNCHANGED items
    BY <1>1, <2>1
  <2>2. CASE Synced(r, req[r].net)
    <3>1. items' = [items EXCEPT ![req[r].item] =
                      [@ EXCEPT !.paid = req[r].net, !.status = StatusOf(req[r].net, req[r].expected)]]
      BY <2>2 DEF Synced
    <3>2. items \in [Items -> ItemRow]
      BY SlotTypes
    <3>3. \A j \in Items : items'[j].state = items[j].state
      BY <3>1, <3>2 DEF ItemRow
    <3> QED
      BY <3>3 DEF LiveItems
  <2> QED
    BY <1>6, <2>1, <2>2 DEF TxnCommit, DropWrite
<1>7. ASSUME NEW i \in Items, UpdateExpectedPaymentItem(i) PROVE LiveItems' # {}
  <2>1. PICK e \in Amounts \cup {items[i].expected}, p \in Amounts \cup {items[i].paid},
             st \in {"pending", "partial", "paid"} :
                items' = [items EXCEPT ![i] = [@ EXCEPT !.expected = e, !.paid = p, !.status = st]]
    BY <1>7 DEF UpdateExpectedPaymentItem
  <2>2. items \in [Items -> ItemRow]
    BY DEF Typed, Rows
  <2>3. \A j \in Items : items'[j].state = items[j].state
    BY <2>1, <2>2 DEF ItemRow
  <2> QED
    BY <2>3 DEF LiveItems
<1>8. ASSUME NEW r \in Requests,
             \/ CreateCheck(r) \/ CreateConfig(r) \/ UpdateCheck(r) \/ UpdateConfig(r)
             \/ SaveGuarantee(r) \/ DeleteCheck(r) \/ ApplyCheck(r) \/ ApplySelect(r)
             \/ TxnCheck(r) \/ TxnInsert(r) \/ SyncSum(r) \/ SyncItem(r)
             \/ DropRead(r) \/ DropDelete(r) \/ Die(r)
      PROVE  UNCHANGED items
  BY <1>8 DEF CreateCheck, CreateConfig, UpdateCheck, UpdateConfig, SaveGuarantee, DeleteCheck,
              ApplyCheck, ApplySelect, TxnCheck, TxnInsert, SyncSum, SyncItem, DropRead, DropDelete,
              Die, Start, Finish, rows
<1> QED
  BY <1>1, <1>2, <1>3, <1>4, <1>5, <1>6, <1>7, <1>8 DEF Step

-----------------------------------------------------------------------------
(* Requests nothing overlaps                                                 *)

\* What a step does to the slots: a request arrives, goes on or is over.
Begins(r) ==
    /\ req[r] = Idle /\ (Isolated => \A q \in Requests : req[q] = Idle)
    /\ \E s : req' = [req EXCEPT ![r] = s]
    /\ alone' = IF \A q \in Requests : req[q] = Idle THEN {r} ELSE {}
    /\ UNCHANGED rows

GoesOn(r) == req[r] # Idle /\ alone' = alone /\ \E s : req' = [req EXCEPT ![r] = s]

Ends(r) == req[r] # Idle /\ Finish(r)

LEMMA Beginning ==
    ASSUME NEW r \in Requests,
           \/ CreateCheck(r) \/ UpdateCheck(r) \/ DeleteCheck(r) \/ ApplyCheck(r)
           \/ TxnCheck(r) \/ DropRead(r)
    PROVE  Begins(r)
<1>1. ASSUME NEW s, Start(r, s) PROVE Begins(r)
  BY <1>1 DEF Start, Begins
<1> QED
  BY <1>1 DEF CreateCheck, UpdateCheck, DeleteCheck, ApplyCheck, TxnCheck, DropRead

LEMMA SlotBusy ==
    ASSUME NEW r \in Requests, NEW op, NEW pc, At(r, op, pc), op # "none"
    PROVE  req[r] # Idle
BY DEF At, Idle

LEMMA Going ==
    ASSUME Typed, NEW r \in Requests,
           \/ CreateConfig(r) \/ CreateItems(r) \/ UpdateConfig(r) \/ UpdateDeleteItems(r)
           \/ SaveGuarantee(r) \/ DeleteConfig(r) \/ ApplySelect(r) \/ ApplyCommit(r)
           \/ TxnInsert(r) \/ TxnCommit(r) \/ SyncSum(r) \/ SyncItem(r)
           \/ DropDelete(r) \/ DropWrite(r) \/ Die(r)
    PROVE  GoesOn(r) \/ Ends(r)
<1>1. req[r] # Idle
  <2>1. CASE Die(r)
    <3>1. Idle.op \notin AllOperations
      BY DEF Idle, AllOperations
    <3>2. Faulty \subseteq AllOperations
      BY PaymentSchedulesAssumption DEF Typed, Rows, Faulty
    <3> QED
      BY <2>1, <3>1, <3>2 DEF Die
  <2>2. CASE ~Die(r)
    <3>1. \E op \in AllOperations : req[r].op = op
      BY <2>2 DEF CreateConfig, CreateItems, UpdateConfig, UpdateDeleteItems, SaveGuarantee,
                  DeleteConfig, ApplySelect, ApplyCommit, TxnInsert, TxnCommit, SyncSum, SyncItem,
                  DropDelete, DropWrite, At, AllOperations
    <3> QED
      BY <3>1 DEF Idle, AllOperations
  <2> QED
    BY <2>1, <2>2
<1>2. Finish(r) \/ (alone' = alone /\ \E s : req' = [req EXCEPT ![r] = s])
  <2>1. CASE SaveGuarantee(r) \/ DeleteConfig(r) \/ ApplyCommit(r) \/ TxnCommit(r) \/ DropWrite(r)
             \/ Die(r)
    BY <2>1 DEF SaveGuarantee, DeleteConfig, ApplyCommit, TxnCommit, DropWrite, Die
  <2>2. CASE UpdateConfig(r) \/ UpdateDeleteItems(r) \/ DropDelete(r) \/ CreateItems(r)
    BY <2>2 DEF UpdateConfig, UpdateDeleteItems, DropDelete, CreateItems, Goto
  <2>3. CASE CreateConfig(r) \/ TxnInsert(r)
    BY <2>3 DEF CreateConfig, TxnInsert
  <2>4. CASE ApplySelect(r) \/ SyncSum(r) \/ SyncItem(r)
    BY <2>4 DEF ApplySelect, SyncSum, SyncItem
  <2> QED
    BY <2>1, <2>2, <2>3, <2>4
<1> QED
  BY <1>1, <1>2 DEF GoesOn, Ends

LEMMA StepShape ==
    ASSUME Typed, Step
    PROVE  \/ \E r \in Requests : Begins(r) \/ GoesOn(r) \/ Ends(r)
           \/ \E i \in Items : UpdateExpectedPaymentItem(i)
<1>1. ASSUME NEW r \in Requests,
             \/ CreateCheck(r) \/ UpdateCheck(r) \/ DeleteCheck(r) \/ ApplyCheck(r)
             \/ TxnCheck(r) \/ DropRead(r)
      PROVE  Begins(r)
  BY <1>1, Beginning
<1>2. ASSUME NEW r \in Requests,
             \/ CreateConfig(r) \/ CreateItems(r) \/ UpdateConfig(r) \/ UpdateDeleteItems(r)
             \/ SaveGuarantee(r) \/ DeleteConfig(r) \/ ApplySelect(r) \/ ApplyCommit(r)
             \/ TxnInsert(r) \/ TxnCommit(r) \/ SyncSum(r) \/ SyncItem(r)
             \/ DropDelete(r) \/ DropWrite(r) \/ Die(r)
      PROVE  GoesOn(r) \/ Ends(r)
  BY <1>2, Going
<1> QED
  BY <1>1, <1>2 DEF Step

LEMMA InitLonely == Init => Lonely
BY DEF Init, Lonely

LEMMA NextLonely == ASSUME Typed, Lonely, [Next]_vars PROVE Lonely'
<1>0. req \in [Requests -> Slots] /\ alone \subseteq Requests
  BY DEF Typed, Rows
<1>1. CASE UNCHANGED vars
  BY <1>1 DEF vars, Lonely, Isolated, Operations
<1>2. CASE Step /\ env' = env
  <2>1. Isolated' = Isolated /\ Operations' = Operations
    BY <1>2 DEF Isolated, Operations
  <2>2. ASSUME NEW r \in Requests, Begins(r) PROVE Lonely'
    <3>1. PICK s : req' = [req EXCEPT ![r] = s]
      BY <2>2 DEF Begins
    <3>2. \A q \in Requests : req'[q] = IF q = r THEN s ELSE req[q]
      BY <1>0, <3>1
    <3> QED
      BY <2>1, <2>2, <3>2 DEF Lonely, Begins
  <2>3. ASSUME NEW r \in Requests, GoesOn(r) PROVE Lonely'
    <3>1. PICK s : req' = [req EXCEPT ![r] = s]
      BY <2>3 DEF GoesOn
    <3>2. \A q \in Requests : req'[q] = IF q = r THEN s ELSE req[q]
      BY <1>0, <3>1
    <3> QED
      BY <2>1, <2>3, <3>2 DEF Lonely, GoesOn
  <2>4. ASSUME NEW r \in Requests, Ends(r) PROVE Lonely'
    <3>1. req' = [req EXCEPT ![r] = Idle] /\ alone' = alone \ {r} /\ req[r] # Idle
      BY <2>4 DEF Ends, Finish
    <3>2. \A q \in Requests : req'[q] = IF q = r THEN Idle ELSE req[q]
      BY <1>0, <3>1
    <3> QED
      BY <2>1, <3>1, <3>2 DEF Lonely
  <2>5. ASSUME NEW i \in Items, UpdateExpectedPaymentItem(i) PROVE Lonely'
    <3>1. alone' = {} /\ "updateItem" \in Operations
      BY <2>5 DEF UpdateExpectedPaymentItem
    <3> QED
      BY <2>1, <3>1 DEF Lonely
  <2> QED
    BY <1>2, <2>2, <2>3, <2>4, <2>5, StepShape
<1> QED
  BY <1>1, <1>2 DEF Next

-----------------------------------------------------------------------------
(* What a request nothing has overlapped has read is still so                *)

\* A slot that has read nothing which could be stale.
LEMMA NothingRead ==
    ASSUME NEW r, NEW q, req'[r] = q, q.op = "update" => q.cfg = config'.id, ~Inserting(q),
           ~ (q.op \in {"createTransaction", "deleteTransaction"} /\ q.pc \in {"item", "write", "delete"})
    PROVE  Current(req[r])'
BY DEF Current, Inserting

\* What a slot has read is so while nobody writes.
LEMMA StillRead ==
    ASSUME NEW r, NEW q, req'[r] = q, UNCHANGED rows, Current(q)
    PROVE  Current(req[r])'
<1>1. UNCHANGED <<config, spent, items, txns>>
  BY DEF rows
<1> QED
  BY <1>1 DEF Current, Inserting, NetPaid, TxnsOf, Signed, LiveItems

LEMMA StartInformed ==
    ASSUME Typed, NEW r \in Requests,
           CreateCheck(r) \/ UpdateCheck(r) \/ DeleteCheck(r) \/ ApplyCheck(r) \/ TxnCheck(r)
    PROVE  Current(req[r])'
<1>1. req \in [Requests -> Slots]
  BY DEF Typed
<1>2. ASSUME NEW s, Start(r, s), s.op = "update" => s.cfg = config.id,
             s.pc \in {"config", "select", "insert"}
      PROVE  Current(req[r])'
  <2>1. req'[r] = s /\ config' = config
    BY <1>1, <1>2 DEF Start, rows
  <2> QED
    BY <1>2, <2>1, NothingRead DEF Inserting
<1>3. CASE CreateCheck(r)
  <2>1. PICK plan \in {<< >>} \cup PlansFor(TotalPriceCents), guarantee \in BOOLEAN, card \in BOOLEAN :
          Start(r, [Idle EXCEPT !.op = "create", !.pc = "config", !.plan = plan,
                                !.guarantee = guarantee, !.card = card])
    BY <1>3 DEF CreateCheck
  <2> DEFINE s == [Idle EXCEPT !.op = "create", !.pc = "config", !.plan = plan,
                               !.guarantee = guarantee, !.card = card]
  <2>2. s.op = "create" /\ s.pc = "config"
    BY DEF Idle
  <2>3. Start(r, s)
    BY <2>1
  <2> HIDE DEF s
  <2> QED
    BY <1>2, <2>2, <2>3
<1>4. CASE UpdateCheck(r)
  <2>1. PICK plan \in {<< >>} \cup PlansFor(TotalPriceCents), guarantee \in BOOLEAN, card \in BOOLEAN :
          Start(r, [Idle EXCEPT !.op = "update", !.pc = "config", !.plan = plan,
                                !.cfg = config.id, !.guarantee = guarantee, !.card = card])
    BY <1>4 DEF UpdateCheck
  <2> DEFINE s == [Idle EXCEPT !.op = "update", !.pc = "config", !.plan = plan,
                               !.cfg = config.id, !.guarantee = guarantee, !.card = card]
  <2>2. s.pc = "config" /\ s.cfg = config.id
    BY DEF Idle
  <2>3. Start(r, s)
    BY <2>1
  <2> HIDE DEF s
  <2> QED
    BY <1>2, <2>2, <2>3
<1>5. CASE DeleteCheck(r)
  <2> DEFINE s == [Idle EXCEPT !.op = "delete", !.pc = "config", !.cfg = config.id]
  <2>2. s.pc = "config" /\ s.cfg = config.id
    BY DEF Idle
  <2>3. Start(r, s)
    BY <1>5 DEF DeleteCheck
  <2> HIDE DEF s
  <2> QED
    BY <1>2, <2>2, <2>3
<1>6. CASE ApplyCheck(r)
  <2>1. PICK total \in TemplateTotals, guarantee \in BOOLEAN : \E plan \in PlansFor(total) :
          Start(r, [Idle EXCEPT !.op = "apply", !.pc = "select", !.plan = plan,
                                !.guarantee = guarantee])
    BY <1>6 DEF ApplyCheck
  <2>2. PICK plan \in PlansFor(total) :
          Start(r, [Idle EXCEPT !.op = "apply", !.pc = "select", !.plan = plan,
                                !.guarantee = guarantee])
    BY <2>1
  <2> DEFINE s == [Idle EXCEPT !.op = "apply", !.pc = "select", !.plan = plan,
                               !.guarantee = guarantee]
  <2>3. s.op = "apply" /\ s.pc = "select"
    BY DEF Idle
  <2>4. Start(r, s)
    BY <2>2
  <2> HIDE DEF s
  <2> QED
    BY <1>2, <2>3, <2>4
<1>7. CASE TxnCheck(r)
  <2>1. PICK i \in LiveItems, type \in TxnTypes, n \in Amounts :
          Start(r, [Idle EXCEPT !.op = "createTransaction", !.pc = "insert", !.item = i,
                                !.type = type, !.amount = n])
    BY <1>7 DEF TxnCheck
  <2> DEFINE s == [Idle EXCEPT !.op = "createTransaction", !.pc = "insert", !.item = i,
                               !.type = type, !.amount = n]
  <2>2. s.op = "createTransaction" /\ s.pc = "insert"
    BY DEF Idle
  <2>3. Start(r, s)
    BY <2>1
  <2> HIDE DEF s
  <2> QED
    BY <1>2, <2>2, <2>3
<1> QED
  BY <1>3, <1>4, <1>5, <1>6, <1>7

LEMMA DropReadInformed ==
    ASSUME Typed, NEW r \in Requests, DropRead(r)
    PROVE  Current(req[r])'
<1>1. PICK t \in Txns :
        /\ txns[t].state = "live"
        /\ Start(r, [Idle EXCEPT !.op = "deleteTransaction", !.pc = "delete", !.txn = t,
                                 !.item = txns[t].item])
  BY DEF DropRead
<1> DEFINE s == [Idle EXCEPT !.op = "deleteTransaction", !.pc = "delete", !.txn = t,
                             !.item = txns[t].item]
<1>2. s.op = "deleteTransaction" /\ s.pc = "delete" /\ s.txn = t /\ s.item = txns[t].item
  BY DEF Idle
<1>3. Start(r, s) /\ req \in [Requests -> Slots]
  BY <1>1 DEF Typed
<1> HIDE DEF s
<1>4. req'[r] = s /\ UNCHANGED rows
  BY <1>3 DEF Start
<1>5. Current(s)
  BY <1>1, <1>2 DEF Current, Inserting
<1> QED
  BY <1>4, <1>5, StillRead

LEMMA SyncSumInformed ==
    ASSUME Typed, NEW r \in Requests, SyncSum(r)
    PROVE  Current(req[r])'
<1>1. req[r].op \in {"createTransaction", "deleteTransaction"} /\ UNCHANGED rows
  BY DEF SyncSum, At
<1>2. req[r] \in Slots /\ req \in [Requests -> Slots]
  BY SlotTypes
<1> DEFINE own == IF req[r].op = "createTransaction" THEN {req[r].txn} ELSE {}
           net == NetPaid(TxnsOf(req[r].item) \cup own)
<1>3. req' = [req EXCEPT ![r] = [@ EXCEPT !.pc = "item", !.net = net]]
  BY DEF SyncSum
<1>4. /\ req[r].op = "createTransaction" => net = NetPaid(TxnsOf(req[r].item) \cup {req[r].txn})
      /\ req[r].op = "deleteTransaction" => net = NetPaid(TxnsOf(req[r].item))
  <2>1. TxnsOf(req[r].item) \cup {} = TxnsOf(req[r].item)
    OBVIOUS
  <2> QED
    BY <2>1
<1> HIDE DEF net
<1> DEFINE q == [req[r] EXCEPT !.pc = "item", !.net = net]
<1>5. /\ q.op = req[r].op /\ q.item = req[r].item /\ q.txn = req[r].txn /\ q.net = net
      /\ q.pc = "item" /\ req'[r] = q
  BY <1>2, <1>3 DEF Slots
<1> HIDE DEF q
<1>6. Current(q)
  BY <1>1, <1>4, <1>5 DEF Current, Inserting
<1> QED
  BY <1>1, <1>5, <1>6, StillRead

LEMMA SyncItemInformed ==
    ASSUME Typed, NEW r \in Requests, SyncItem(r), ~Finish(r), Current(req[r])
    PROVE  Current(req[r])'
<1>1. /\ req[r].op \in {"createTransaction", "deleteTransaction"} /\ UNCHANGED rows
      /\ req[r].pc = "item"
      /\ req' = [req EXCEPT ![r] = [@ EXCEPT !.pc = "write",
                                             !.expected = items[req[r].item].expected]]
  BY DEF SyncItem, At
<1>2. req[r] \in Slots /\ req \in [Requests -> Slots]
  BY SlotTypes
<1> DEFINE q == [req[r] EXCEPT !.pc = "write", !.expected = items[req[r].item].expected]
<1>3. /\ q.op = req[r].op /\ q.item = req[r].item /\ q.txn = req[r].txn /\ q.net = req[r].net
      /\ q.pc = "write" /\ req'[r] = q /\ q.expected = items[req[r].item].expected
  BY <1>1, <1>2 DEF Slots
<1> HIDE DEF q
<1>4. Current(q)
  BY <1>1, <1>3 DEF Current, Inserting
<1> QED
  BY <1>1, <1>3, <1>4, StillRead

LEMMA CreateConfigInformed ==
    ASSUME Typed, NEW r \in Requests, CreateConfig(r), ~Finish(r)
    PROVE  Current(req[r])'
<1>1. At(r, "create", "config") /\ config = NoSchedule /\ UNCHANGED <<items, txns, alone>>
  BY DEF CreateConfig
<1>2. PICK c \in Configs \ spent :
        /\ config' = [id |-> c, guarantee |-> req[r].guarantee, card |-> FALSE]
        /\ req' = [req EXCEPT ![r] = [@ EXCEPT !.pc = "items", !.cfg = c]]
  BY DEF CreateConfig
<1>3. req[r] \in Slots /\ req \in [Requests -> Slots]
  BY SlotTypes
<1> DEFINE q == [req[r] EXCEPT !.pc = "items", !.cfg = c]
<1>4. q.op = "create" /\ q.pc = "items" /\ q.cfg = c /\ req'[r] = q
  BY <1>1, <1>2, <1>3 DEF Slots, At
<1> HIDE DEF q
<1>5. LiveItems = {}
  BY <1>1, PaymentSchedulesAssumption DEF Typed, Linked, LiveItems, NoSchedule
<1>6. LiveItems' = {} /\ config'.id = c
  BY <1>1, <1>2, <1>5 DEF LiveItems
<1> QED
  BY <1>4, <1>6 DEF Current, Inserting

\* update, on the configuration it was given.
LEMMA UpdateInformed ==
    ASSUME Typed, NEW r \in Requests, Current(req[r]), UpdateConfig(r) \/ UpdateDeleteItems(r)
    PROVE  Current(req[r])'
<1>1. req[r] \in Slots /\ req \in [Requests -> Slots] /\ SlotFine(req[r], txns, env)
      /\ config \in ConfigRow
  BY SlotTypes
<1>2. req[r].op = "update"
  BY DEF UpdateConfig, UpdateDeleteItems, At
<1>3. req[r].cfg = config.id
  BY <1>2 DEF Current
<1>4. CASE UpdateConfig(r)
  <2>1. PICK pc \in {"card", "clear"} : req' = [req EXCEPT ![r].pc = pc]
    BY <1>4 DEF UpdateConfig, Goto
  <2>2. config'.id = config.id
    BY <1>1, <1>4 DEF UpdateConfig, ConfigRow
  <2> DEFINE q == [req[r] EXCEPT !.pc = pc]
  <2>3. q.op = "update" /\ q.pc \in {"card", "clear"} /\ q.cfg = req[r].cfg /\ req'[r] = q
    BY <1>1, <1>2, <2>1 DEF Slots
  <2> HIDE DEF q
  <2> QED
    BY <1>3, <2>2, <2>3, NothingRead DEF Inserting
<1>5. CASE UpdateDeleteItems(r)
  <2>1. /\ Unlocked(LiveItems) /\ items' = Without(LiveItems) /\ Cascade(LiveItems)
        /\ req' = [req EXCEPT ![r].pc = "items"] /\ config' = config
    BY <1>3, <1>5, ItemsOfFacts DEF UpdateDeleteItems, Goto
  <2> DEFINE q == [req[r] EXCEPT !.pc = "items"]
  <2>2. q.op = "update" /\ q.pc = "items" /\ q.cfg = req[r].cfg /\ req'[r] = q
    BY <1>1, <1>2, <2>1 DEF Slots
  <2> HIDE DEF q
  <2>3. LiveItems' = {}
    <3>1. LiveItems \in SUBSET Items
      BY DEF LiveItems
    <3>2. \A i \in LiveItems : items'[i].state = "gone"
      BY <2>1, <3>1, RemoveFacts
    <3>3. \A i \in Items : i \notin LiveItems => items'[i] = items[i]
      BY <2>1, <3>1, RemoveFacts
    <3> QED
      BY <3>2, <3>3 DEF LiveItems
  <2> QED
    BY <1>3, <2>1, <2>2, <2>3 DEF Current, Inserting
<1> QED
  BY <1>4, <1>5

\* Steps that read nothing.
LEMMA OthersInformed ==
    ASSUME Typed, NEW r \in Requests, Current(req[r]), ~Finish(r),
           CreateItems(r) \/ ApplySelect(r) \/ TxnInsert(r) \/ DropDelete(r)
    PROVE  Current(req[r])'
<1>1. req[r] \in Slots /\ req \in [Requests -> Slots]
  BY SlotTypes
<1>2. CASE CreateItems(r)
  <2>1. Inserting(req[r]) /\ config' = config /\ req' = [req EXCEPT ![r].pc = "card"]
    BY <1>2 DEF CreateItems, Goto, At, Inserting
  <2> DEFINE q == [req[r] EXCEPT !.pc = "card"]
  <2>2. q.op = req[r].op /\ q.cfg = req[r].cfg /\ q.pc = "card" /\ req'[r] = q
    BY <1>1, <2>1 DEF Slots
  <2> HIDE DEF q
  <2>3. req[r].cfg = config.id
    BY <2>1 DEF Current
  <2> QED
    BY <2>1, <2>2, <2>3, NothingRead DEF Inserting
<1>3. CASE ApplySelect(r)
  <2>1. req[r].op = "apply"
        /\ req' = [req EXCEPT ![r] = [@ EXCEPT !.pc = "write", !.cfg = config.id]]
    BY <1>3 DEF ApplySelect, At
  <2> DEFINE q == [req[r] EXCEPT !.pc = "write", !.cfg = config.id]
  <2>2. q.op = "apply" /\ req'[r] = q
    BY <1>1, <2>1 DEF Slots
  <2> HIDE DEF q
  <2> QED
    BY <2>2, NothingRead DEF Inserting
<1>4. CASE TxnInsert(r)
  <2>1. PICK t \in Txns : req' = [req EXCEPT ![r] = [@ EXCEPT !.pc = "sum", !.txn = t]]
    BY <1>4 DEF TxnInsert
  <2> DEFINE q == [req[r] EXCEPT !.pc = "sum", !.txn = t]
  <2>2. q.op = "createTransaction" /\ q.pc = "sum" /\ req'[r] = q
    BY <1>1, <1>4, <2>1 DEF Slots, TxnInsert, At
  <2> HIDE DEF q
  <2> QED
    BY <2>2, NothingRead DEF Inserting
<1>5. CASE DropDelete(r)
  <2>1. req[r].op = "deleteTransaction" /\ req' = [req EXCEPT ![r].pc = "sum"]
    BY <1>5 DEF DropDelete, Goto, At
  <2> DEFINE q == [req[r] EXCEPT !.pc = "sum"]
  <2>2. q.op = "deleteTransaction" /\ q.pc = "sum" /\ req'[r] = q
    BY <1>1, <2>1 DEF Slots
  <2> HIDE DEF q
  <2> QED
    BY <2>2, NothingRead DEF Inserting
<1> QED
  BY <1>2, <1>3, <1>4, <1>5

LEMMA InitInformed == Init => Informed
BY DEF Init, Informed

LEMMA NextInformed == ASSUME Typed, Lonely, Informed, [Next]_vars PROVE Informed'
<1>0. req \in [Requests -> Slots] /\ alone \subseteq Requests
  BY DEF Typed, Rows
<1>1. SUFFICES ASSUME NEW r \in Requests, r \in alone' PROVE Current(req[r])'
  <2>1. alone' \subseteq Requests
    BY NextTyped DEF Typed, Rows
  <2> QED
    BY <2>1 DEF Informed
<1>2. CASE UNCHANGED vars
  <2>1. UNCHANGED rows /\ req' = req /\ alone' = alone
    BY <1>2 DEF vars, rows
  <2>2. Current(req[r])
    BY <1>1, <2>1 DEF Informed
  <2> QED
    BY <2>1, <2>2, StillRead
<1>3. CASE Step
  <2>1. ASSUME NEW p \in Requests, Begins(p) PROVE p = r
    BY <1>1, <2>1 DEF Begins
  <2>2. ASSUME NEW p \in Requests, GoesOn(p) PROVE p = r /\ r \in alone /\ Current(req[r])
    BY <1>0, <1>1, <2>2 DEF GoesOn, Lonely, Informed
  <2>3. ASSUME NEW p \in Requests, Ends(p) PROVE FALSE
    BY <1>0, <1>1, <2>3 DEF Ends, Finish, Lonely
  <2>4. ASSUME NEW p \in Requests,
               CreateCheck(p) \/ UpdateCheck(p) \/ DeleteCheck(p) \/ ApplyCheck(p) \/ TxnCheck(p)
        PROVE  Current(req[r])'
    BY <2>1, <2>4, Beginning, StartInformed
  <2>5. ASSUME NEW p \in Requests, DropRead(p) PROVE Current(req[r])'
    BY <2>1, <2>5, Beginning, DropReadInformed
  <2>6. ASSUME NEW p \in Requests,
               \/ CreateConfig(p) \/ CreateItems(p) \/ UpdateConfig(p) \/ UpdateDeleteItems(p)
               \/ SaveGuarantee(p) \/ DeleteConfig(p) \/ ApplySelect(p) \/ ApplyCommit(p)
               \/ TxnInsert(p) \/ TxnCommit(p) \/ SyncSum(p) \/ SyncItem(p)
               \/ DropDelete(p) \/ DropWrite(p) \/ Die(p)
        PROVE  Current(req[r])'
    <3>1. p = r /\ Current(req[r]) /\ ~Finish(r)
      <4>1. GoesOn(p)
        BY <2>3, <2>6, Going
      <4>2. p = r /\ Current(req[r]) /\ r \in alone
        BY <2>2, <4>1
      <4>3. ~Finish(r)
        BY <1>1 DEF Finish
      <4> QED
        BY <4>2, <4>3
    <3>2. CASE CreateConfig(r)
      BY <3>1, <3>2, CreateConfigInformed
    <3>3. CASE UpdateConfig(r) \/ UpdateDeleteItems(r)
      BY <3>1, <3>3, UpdateInformed
    <3>4. CASE CreateItems(r) \/ ApplySelect(r) \/ TxnInsert(r) \/ DropDelete(r)
      BY <3>1, <3>4, OthersInformed
    <3>5. CASE SyncSum(r)
      BY <3>5, SyncSumInformed
    <3>6. CASE SyncItem(r)
      BY <3>1, <3>6, SyncItemInformed
    <3>7. ASSUME \/ SaveGuarantee(r) \/ DeleteConfig(r) \/ ApplyCommit(r) \/ TxnCommit(r)
                 \/ DropWrite(r) \/ Die(r)
          PROVE  Finish(r)
      BY <3>7 DEF SaveGuarantee, DeleteConfig, ApplyCommit, TxnCommit, DropWrite, Die
    <3> QED
      BY <2>6, <3>1, <3>2, <3>3, <3>4, <3>5, <3>6, <3>7
  <2>7. ASSUME NEW i \in Items, UpdateExpectedPaymentItem(i) PROVE FALSE
    BY <1>1, <2>7 DEF UpdateExpectedPaymentItem
  <2> QED
    BY <1>3, <2>4, <2>5, <2>6, <2>7 DEF Step
<1> QED
  BY <1>2, <1>3 DEF Next

-----------------------------------------------------------------------------
(* The cached totals                                                         *)

\* What the transactions of an item come to depends on which they are, not on their state.
LEMMA NetAfter ==
    ASSUME NEW i, NEW S, TxnsOf(i)' = S,
           \A t \in S : txns'[t].type = txns[t].type /\ txns'[t].amount = txns[t].amount
    PROVE  NetPaid(TxnsOf(i))' = NetPaid(S)
<1>1. \A t \in S : Signed(t)' = Signed(t)
  BY DEF Signed
<1>2. [t \in S |-> Signed(t)'] = [t \in S |-> Signed(t)]
  BY <1>1
<1>3. NetPaid(TxnsOf(i))' = Max({0, SumFunction([t \in S |-> Signed(t)'])})
  BY DEF NetPaid
<1> QED
  BY <1>2, <1>3 DEF NetPaid

LEMMA NetNone == NetPaid({}) = 0
<1> DEFINE f == [t \in {} |-> Signed(t)]
<1>1. IsFiniteSet({}) /\ DOMAIN f = {}
  BY FS_EmptySet
<1> HIDE DEF f
<1>2. SumFunction(f) = 0
  BY <1>1, SumStep DEF SumFunction
<1>3. Max({0, 0}) = 0
  BY DEF Max
<1> QED
  BY <1>2, <1>3 DEF NetPaid, f

LEMMA FreshStays ==
    ASSUME NEW i, Fresh(i), items'[i] = items[i], TxnsOf(i)' = TxnsOf(i),
           \A t \in TxnsOf(i) : txns'[t].type = txns[t].type /\ txns'[t].amount = txns[t].amount
    PROVE  Fresh(i)'
<1>1. NetPaid(TxnsOf(i))' = NetPaid(TxnsOf(i))
  BY NetAfter
<1> QED
  BY <1>1 DEF Fresh

\* A payment becomes visible, or goes, with no other change to what is there.
LEMMA TxnsAfter ==
    ASSUME txns \in [Txns -> TxnRow], NEW t \in Txns, NEW st, txns' = [txns EXCEPT ![t].state = st]
    PROVE  /\ \A u \in Txns : /\ txns'[u].type = txns[u].type /\ txns'[u].amount = txns[u].amount
                              /\ txns'[u].item = txns[u].item
           /\ st = "live" => \A i : TxnsOf(i)' = IF txns[t].item = i THEN TxnsOf(i) \cup {t}
                                                                     ELSE TxnsOf(i)
           /\ st = "gone" => \A i : TxnsOf(i)' = TxnsOf(i) \ {t}
<1>1. /\ \A u \in Txns : /\ txns'[u].type = txns[u].type /\ txns'[u].amount = txns[u].amount
                         /\ txns'[u].item = txns[u].item
      /\ \A u \in Txns \ {t} : txns'[u].state = txns[u].state
      /\ txns'[t].state = st
  BY DEF TxnRow
<1>2. ASSUME st = "live", NEW i
      PROVE  TxnsOf(i)' = IF txns[t].item = i THEN TxnsOf(i) \cup {t} ELSE TxnsOf(i)
  BY <1>1, <1>2 DEF TxnsOf
<1>3. ASSUME st = "gone", NEW i PROVE TxnsOf(i)' = TxnsOf(i) \ {t}
  BY <1>1, <1>3 DEF TxnsOf
<1> QED
  BY <1>1, <1>2, <1>3

\* The total and the status a sync writes are those of the transactions.
LEMMA WrittenFresh ==
    ASSUME Typed, NEW r \in Requests, NEW i \in Items, req[r].item = i, NEW net \in Nat,
           Synced(r, net), net <= items[i].expected, req[r].expected = items[i].expected,
           NetPaid(TxnsOf(i))' = net
    PROVE  Fresh(i)'
<1>1. /\ items'[i].expected = items[i].expected /\ items'[i].paid = net
      /\ items'[i].status = StatusOf(net, req[r].expected)
  BY SyncWritten
<1> QED
  BY <1>1 DEF Fresh

\* A payment committed by a request nothing has overlapped makes its item fresh, ...
LEMMA CommitFresh ==
    ASSUME Typed, NEW r \in Requests, TxnCommit(r), Current(req[r]),
           txns'[req[r].txn].state = "live", NEW i, req[r].item = i
    PROVE  Fresh(i)'
<1>1. /\ req[r].op = "createTransaction" /\ req[r].pc = "write" /\ Open(req[r])
  BY DEF TxnCommit, At, Open
<1>2. req[r] \in Slots /\ SlotFine(req[r], txns, env) /\ txns \in [Txns -> TxnRow]
  BY SlotTypes
<1>3. /\ i \in Items /\ req[r].net \in Nat
      /\ req[r].txn \in Txns /\ txns[req[r].txn].state = "pending" /\ txns[req[r].txn].item = i
  BY <1>1, <1>2 DEF SlotFine, Slots
<1>4. /\ req[r].net <= items[i].expected /\ Synced(r, req[r].net)
      /\ txns' = [txns EXCEPT ![req[r].txn].state = "live"]
  <2>1. txns' # [txns EXCEPT ![req[r].txn].state = "gone"]
    BY <1>2, <1>3 DEF TxnRow
  <2> QED
    BY <2>1 DEF TxnCommit
<1>5. req[r].net = NetPaid(TxnsOf(i) \cup {req[r].txn}) /\ req[r].expected = items[i].expected
  BY <1>1 DEF Current
<1>6. PICK t \in Txns : t = req[r].txn
  BY <1>3
<1>7. /\ TxnsOf(i)' = TxnsOf(i) \cup {t}
      /\ \A u \in Txns : txns'[u].type = txns[u].type /\ txns'[u].amount = txns[u].amount
  BY <1>2, <1>3, <1>4, <1>6, TxnsAfter
<1>8. TxnsOf(i) \cup {t} \subseteq Txns
  BY DEF TxnsOf
<1>9. NetPaid(TxnsOf(i))' = NetPaid(TxnsOf(i) \cup {t})
  BY <1>7, <1>8, NetAfter
<1> QED
  BY <1>3, <1>4, <1>5, <1>6, <1>9, WrittenFresh

\* ... and so does the sync after a deletion.
LEMMA DropFresh ==
    ASSUME Typed, NEW r \in Requests, DropWrite(r), Current(req[r]), NEW i \in Items,
           req[r].item = i, items[i].state = "live", req[r].net <= items[i].expected
    PROVE  Fresh(i)'
<1>2. req[r].net \in Nat /\ items[i].expected \in Nat
  BY SlotTypes DEF Slots, ItemRow
<1>a. ~ (req[r].net > items[i].expected)
  BY <1>2
<1>1. /\ req[r].op = "deleteTransaction" /\ req[r].pc = "write" /\ txns' = txns
      /\ Synced(r, req[r].net)
  BY <1>a DEF DropWrite, At
<1>3. req[r].net = NetPaid(TxnsOf(i)) /\ req[r].expected = items[i].expected
  BY <1>1 DEF Current
<1>4. TxnsOf(i)' = TxnsOf(i)
  BY <1>1 DEF TxnsOf
<1>5. NetPaid(TxnsOf(i))' = NetPaid(TxnsOf(i))
  BY <1>1, <1>4, NetAfter
<1> QED
  BY <1>1, <1>2, <1>3, <1>5, WrittenFresh

LEMMA StepRepairs ==
    ASSUME Typed, Lonely, Informed, [Next]_vars, NEW r \in Requests, NEW i \in Items,
           At(r, "createTransaction", "write"), r \in alone, req[r].item = i,
           txns'[req[r].txn].state = "live"
    PROVE  Fresh(i)'
<1>1. Open(req[r]) /\ txns' # txns /\ Current(req[r]) /\ req[r].txn \in Txns
  <2>1. Open(req[r]) /\ Current(req[r])
    BY DEF At, Open, Informed
  <2> QED
    BY <2>1, OpenPending
<1>2. Step
  BY <1>1 DEF Next, vars
<1>3. ASSUME NEW p \in Requests, Begins(p) PROVE FALSE
  BY <1>1, <1>3 DEF Begins, rows
<1>4. ASSUME NEW p \in Requests, GoesOn(p) \/ Ends(p) PROVE p = r
  BY <1>4 DEF GoesOn, Ends, Lonely
<1>5. ASSUME NEW p \in Requests,
             \/ CreateCheck(p) \/ UpdateCheck(p) \/ DeleteCheck(p) \/ ApplyCheck(p)
             \/ TxnCheck(p) \/ DropRead(p)
      PROVE  FALSE
  BY <1>3, <1>5, Beginning
<1>6. ASSUME NEW p \in Requests,
             \/ CreateConfig(p) \/ CreateItems(p) \/ UpdateConfig(p) \/ UpdateDeleteItems(p)
             \/ SaveGuarantee(p) \/ DeleteConfig(p) \/ ApplySelect(p) \/ ApplyCommit(p)
             \/ TxnInsert(p) \/ TxnCommit(p) \/ SyncSum(p) \/ SyncItem(p)
             \/ DropDelete(p) \/ DropWrite(p) \/ Die(p)
      PROVE  Fresh(i)'
  <2>1. p = r
    BY <1>4, <1>6, Going
  <2>2. CASE TxnCommit(r)
    BY <1>1, <2>2, CommitFresh
  <2>3. ASSUME Die(r) PROVE FALSE
    <3>1. txns' = [txns EXCEPT ![req[r].txn].state = "gone"]
      BY <1>1, <2>3, OpenPending DEF Die
    <3>2. txns'[req[r].txn].state = "gone"
      BY <1>1, <3>1, SlotTypes DEF TxnRow
    <3> QED
      BY <3>2
  <2>4. TxnCommit(r) \/ Die(r)
    BY <1>6, <2>1 DEF CreateConfig, CreateItems, UpdateConfig, UpdateDeleteItems, SaveGuarantee,
                      DeleteConfig, ApplySelect, ApplyCommit, TxnInsert, SyncSum, SyncItem,
                      DropDelete, DropWrite, At
  <2> QED
    BY <2>2, <2>3, <2>4
<1>7. ASSUME NEW j \in Items, UpdateExpectedPaymentItem(j) PROVE FALSE
  BY <1>1, <1>7 DEF UpdateExpectedPaymentItem
<1> QED
  BY <1>2, <1>5, <1>6, <1>7 DEF Step

\* The same numbers have the same sum, however the function was written.
LEMMA SumSame ==
    ASSUME NEW f, NEW g, NEW D, IsFiniteSet(D), \A x \in D : f[x] \in Int /\ g[x] = f[x]
    PROVE  SumFunctionOnSet(g, D) = SumFunctionOnSet(f, D)
<1> DEFINE n == [x \in D |-> x]
<1>1. \A x \in D : f[x] \in Int /\ g[n[x]] = f[x]
  OBVIOUS
<1>2. \A x, y \in D : n[x] = n[y] => x = y
  OBVIOUS
<1>3. {n[x] : x \in D} = D
  OBVIOUS
<1> HIDE DEF n
<1>4. SumFunctionOnSet(g, {n[x] : x \in D}) = SumFunctionOnSet(f, D)
  BY <1>1, <1>2, SumRenamed
<1> QED
  BY <1>3, <1>4

\* Without a payment, less is paid.
LEMMA NetLess ==
    ASSUME txns \in [Txns -> TxnRow], NEW S \in SUBSET Txns, NEW t \in S, txns[t].type # "refund"
    PROVE  NetPaid(S \ {t}) <= NetPaid(S)
<1> DEFINE f == [x \in S |-> Signed(x)]
           g == [x \in S \ {t} |-> Signed(x)]
<1>1. IsFiniteSet(S) /\ IsFiniteSet(S \ {t})
  BY PaymentSchedulesAssumption, FS_Subset
<1>2. \A x \in S : f[x] \in Int
  BY DEF Signed, TxnRow
<1>3. f[t] >= 0
  BY DEF Signed, TxnRow
<1>4. DOMAIN f = S /\ DOMAIN g = S \ {t} /\ \A x \in S \ {t} : f[x] \in Int /\ g[x] = f[x]
  BY <1>2
<1> HIDE DEF f, g
<1>5. SumFunctionOnSet(f, S) = f[t] + SumFunctionOnSet(f, S \ {t})
  BY <1>1, <1>2, SumAny
<1>6. SumFunctionOnSet(g, S \ {t}) = SumFunctionOnSet(f, S \ {t})
  BY <1>1, <1>4, SumSame
<1>7. SumFunction(f) = f[t] + SumFunction(g)
  BY <1>4, <1>5, <1>6 DEF SumFunction
<1>8. /\ SumFunction(f) \in Int /\ NetPaid(S) = IF SumFunction(f) >= 0 THEN SumFunction(f) ELSE 0
      /\ SumFunction(g) \in Int
      /\ NetPaid(S \ {t}) = IF SumFunction(g) >= 0 THEN SumFunction(g) ELSE 0
  BY NetFacts DEF f, g
<1>9. f[t] \in Int
  BY <1>2
<1> QED
  BY <1>3, <1>7, <1>8, <1>9

\* Whoever is not between a deletion and its sync works alone, on totals that are fresh.
LEMMA AllFresh ==
    ASSUME Typed, Lonely, Cached, CanCache, NEW r \in Requests, req[r] # Idle, ~Syncing(req[r])
    PROVE  \A i \in LiveItems : Fresh(i)
<1>1. r \in alone
  BY DEF Lonely, CanCache
<1>2. \A q \in Requests : q # r => req[q] = Idle
  BY <1>1 DEF Lonely
<1>3. \A q \in Requests : ~Syncing(req[q])
  BY <1>2, IdleSlot
<1> QED
  BY <1>3 DEF Cached

LEMMA FrameFresh ==
    ASSUME UNCHANGED <<items, txns>>, NEW i, Fresh(i)
    PROVE  Fresh(i)'
<1>1. TxnsOf(i)' = TxnsOf(i)
  BY DEF TxnsOf
<1> QED
  BY <1>1, FreshStays

\* What is removed leaves the rest as it was.
LEMMA RemovedTxns ==
    ASSUME Typed, NEW S \in SUBSET Items, Unlocked(S), Cascade(S), NEW i \in Items, i \notin S
    PROVE  TxnsOf(i)' = TxnsOf(i)
           /\ \A t \in TxnsOf(i) : txns'[t].type = txns[t].type /\ txns'[t].amount = txns[t].amount
<1>1. \A t \in Txns : txns[t].state = "live" /\ txns[t].item = i => txns'[t] = txns[t]
  BY RemoveFacts
<1>2. \A t \in Txns : txns'[t].state = "live" => txns'[t] = txns[t]
  BY RemoveFacts
<1> QED
  BY <1>1, <1>2 DEF TxnsOf

LEMMA RemovedFresh ==
    ASSUME Typed, NEW S \in SUBSET Items, Unlocked(S), Cascade(S), items' = Without(S),
           \A i \in LiveItems : Fresh(i)
    PROVE  \A i \in LiveItems' : Fresh(i)'
<1> SUFFICES ASSUME NEW i \in LiveItems' PROVE Fresh(i)'
  OBVIOUS
<1>1. i \in Items /\ items'[i].state = "live"
  BY DEF LiveItems
<1>2. i \notin S /\ items'[i] = items[i]
  BY <1>1, RemoveFacts
<1>3. i \in LiveItems
  BY <1>1, <1>2 DEF LiveItems
<1> QED
  BY <1>1, <1>2, <1>3, RemovedTxns, FreshStays

LEMMA InsertedFresh ==
    ASSUME Typed, NEW S \in SUBSET Items, Unlocked(S), Cascade(S),
           NEW plan \in Plans \cup {<< >>}, NEW c \in Configs \cup {NoConfig}, NEW new \in FreshIds(plan),
           Inserted(Without(S), c, plan, new), \A i \in LiveItems : Fresh(i)
    PROVE  \A i \in LiveItems' : Fresh(i)'
<1> SUFFICES ASSUME NEW i \in LiveItems' PROVE Fresh(i)'
  OBVIOUS
<1>0. i \in Items /\ items'[i].state = "live"
  BY DEF LiveItems
<1>1. /\ \A k \in DOMAIN plan : /\ new[k] \in Items /\ items[new[k]].state = "unused"
                                /\ items'[new[k]] = NewItem(c, plan[k])
      /\ (\A k \in DOMAIN plan : new[k] # i) => items'[i] = Without(S)[i]
  <2>1. Without(S) \in [Items -> ItemRow]
    BY RemoveFacts
  <2> QED
    BY <1>0, <2>1, InsertFacts
<1>2. CASE \E k \in DOMAIN plan : new[k] = i
  <2>0. PICK k \in DOMAIN plan : new[k] = i
    BY <1>2
  <2>a. items[i].state = "unused" /\ items'[i] = NewItem(c, plan[k])
    BY <1>1, <2>0
  <2>1. items[i].state = "unused" /\ items'[i].paid = 0
    BY <2>a DEF NewItem
  <2>2. TxnsOf(i)' = {}
    <3>1. \A t \in Txns : txns'[t].state = "live" => txns'[t] = txns[t]
      BY RemoveFacts
    <3>2. \A t \in Txns : txns[t].state = "live" => items[txns[t].item].state = "live"
      BY DEF Typed, Linked
    <3> QED
      BY <2>1, <3>1, <3>2 DEF TxnsOf
  <2>3. NetPaid(TxnsOf(i))' = 0
    BY <2>2, NetAfter, NetNone
  <2> QED
    BY <2>1, <2>2, <2>3 DEF Fresh
<1>3. CASE \A k \in DOMAIN plan : new[k] # i
  <2>1. items'[i] = Without(S)[i]
    BY <1>1, <1>3
  <2>2. i \notin S /\ items'[i] = items[i]
    BY <1>0, <2>1, RemoveFacts
  <2>3. i \in LiveItems
    BY <1>0, <2>2 DEF LiveItems
  <2> QED
    BY <1>0, <2>2, <2>3, RemovedTxns, FreshStays
<1> QED
  BY <1>2, <1>3

LEMMA TxnCommitFresh ==
    ASSUME Typed, NEW r \in Requests, TxnCommit(r), Current(req[r]), \A i \in LiveItems : Fresh(i)
    PROVE  \A i \in LiveItems' : Fresh(i)'
<1> SUFFICES ASSUME NEW i \in LiveItems' PROVE Fresh(i)'
  OBVIOUS
<1>1. /\ Open(req[r]) /\ req[r] \in Slots /\ SlotFine(req[r], txns, env)
      /\ txns \in [Txns -> TxnRow] /\ items \in [Items -> ItemRow]
  BY SlotTypes DEF TxnCommit, At, Open
<1>2. /\ req[r].txn \in Txns /\ txns[req[r].txn].state = "pending" /\ req[r].item \in Items
      /\ txns[req[r].txn].item = req[r].item /\ req[r].net \in Nat
  BY <1>1 DEF SlotFine, Open, Slots
<1>3. PICK t \in Txns : t = req[r].txn
  BY <1>2
<1>4. t \notin TxnsOf(i) /\ TxnsOf(i) \subseteq Txns
  BY <1>2, <1>3 DEF TxnsOf
<1>5. CASE /\ req[r].net <= items[req[r].item].expected /\ Synced(r, req[r].net)
           /\ txns' = [txns EXCEPT ![req[r].txn].state = "live"]
  <2>1. CASE req[r].item = i
    <3>1. txns'[req[r].txn].state = "live"
      BY <1>1, <1>2, <1>5 DEF TxnRow
    <3> QED
      BY <2>1, <3>1, CommitFresh
  <2>2. CASE req[r].item # i
    <3>1. /\ \A j \in Items : items'[j].state = items[j].state
          /\ \A j \in Items \ {req[r].item} : items'[j] = items[j]
      BY <1>2, <1>5, SyncWritten
    <3>2. i \in LiveItems /\ items'[i] = items[i]
      BY <2>2, <3>1 DEF LiveItems
    <3>a. txns' = [txns EXCEPT ![t].state = "live"] /\ txns[t].item # i
      BY <1>2, <1>3, <1>5, <2>2
    <3>b. /\ TxnsOf(i)' = IF txns[t].item = i THEN TxnsOf(i) \cup {t} ELSE TxnsOf(i)
          /\ \A u \in Txns : txns'[u].type = txns[u].type /\ txns'[u].amount = txns[u].amount
      BY <1>1, <3>a, TxnsAfter
    <3>3. TxnsOf(i)' = TxnsOf(i)
          /\ \A u \in Txns : txns'[u].type = txns[u].type /\ txns'[u].amount = txns[u].amount
      BY <3>a, <3>b
    <3> QED
      BY <1>4, <3>2, <3>3, FreshStays
  <2> QED
    BY <2>1, <2>2
<1>6. CASE UNCHANGED items /\ txns' = [txns EXCEPT ![req[r].txn].state = "gone"]
  <2>1. i \in LiveItems
    BY <1>6 DEF LiveItems
  <2>2. TxnsOf(i)' = TxnsOf(i) \ {t}
        /\ \A u \in Txns : txns'[u].type = txns[u].type /\ txns'[u].amount = txns[u].amount
    BY <1>1, <1>3, <1>6, TxnsAfter
  <2>3. TxnsOf(i)' = TxnsOf(i)
    BY <1>4, <2>2
  <2> QED
    BY <1>4, <1>6, <2>1, <2>2, <2>3, FreshStays
<1> QED
  BY <1>5, <1>6 DEF TxnCommit

\* A payment inserted and not committed, or given up, is not counted.
LEMMA UncountedFresh ==
    ASSUME Typed, NEW r \in Requests, TxnInsert(r) \/ (Die(r) /\ UNCHANGED items),
           \A i \in LiveItems : Fresh(i)
    PROVE  \A i \in LiveItems' : Fresh(i)'
<1> SUFFICES ASSUME NEW i \in LiveItems' PROVE Fresh(i)'
  OBVIOUS
<1>1. txns \in [Txns -> TxnRow] /\ items' = items
  BY SlotTypes DEF TxnInsert, rows
<1>2. i \in LiveItems
  BY <1>1 DEF LiveItems
<1>3. \A t \in Txns : txns'[t] = txns[t]
                      \/ (txns[t].state # "live" /\ txns'[t].state # "live")
  <2>1. CASE txns' = txns
    BY <2>1
  <2>2. CASE TxnInsert(r) /\ txns' # txns
    <3>1. PICK t \in Txns :
            /\ txns[t].state = "unused"
            /\ txns' = [txns EXCEPT ![t] = [state |-> "pending", item |-> req[r].item,
                                            type |-> req[r].type, amount |-> req[r].amount]]
      BY <2>2 DEF TxnInsert, rows
    <3>2. txns'[t].state = "pending" /\ \A u \in Txns \ {t} : txns'[u] = txns[u]
      BY <1>1, <3>1
    <3> QED
      BY <3>1, <3>2
  <2>3. CASE Die(r) /\ txns' # txns
    <3>1. /\ req[r].txn \in Txns /\ txns[req[r].txn].state = "pending"
          /\ txns' = [txns EXCEPT ![req[r].txn].state = "gone"]
      BY <2>3 DEF Die
    <3>2. txns'[req[r].txn].state = "gone" /\ \A u \in Txns \ {req[r].txn} : txns'[u] = txns[u]
      BY <1>1, <3>1 DEF TxnRow
    <3> QED
      BY <3>1, <3>2
  <2> QED
    BY <2>1, <2>2, <2>3
<1>4. TxnsOf(i)' = TxnsOf(i) /\ \A t \in TxnsOf(i) : txns'[t] = txns[t]
  BY <1>3 DEF TxnsOf
<1> QED
  BY <1>1, <1>2, <1>4, FreshStays

\* A deletion leaves at most its own item to be synced, and its total too high.
LEMMA DropDeleteKept ==
    ASSUME Typed, NEW r \in Requests, DropDelete(r), Current(req[r]), CanCache,
           \A i \in LiveItems : Fresh(i)
    PROVE  Cached'
<1>1. /\ req[r].op = "deleteTransaction" /\ req[r].pc = "delete" /\ items' = items
      /\ req' = [req EXCEPT ![r].pc = "sum"] /\ txns' = [txns EXCEPT ![req[r].txn].state = "gone"]
  BY DEF DropDelete, At, Goto
<1>2. /\ req[r] \in Slots /\ req \in [Requests -> Slots] /\ SlotFine(req[r], txns, env)
      /\ txns \in [Txns -> TxnRow] /\ items \in [Items -> ItemRow]
  BY SlotTypes
<1>3. /\ req[r].txn \in Txns /\ txns[req[r].txn].state = "live"
      /\ txns[req[r].txn].item = req[r].item
  BY <1>1, <1>2 DEF SlotFine, Current
<1>4. PICK t \in Txns : t = req[r].txn
  BY <1>3
<1>5. txns[t].type # "refund"
  BY <1>3, <1>4 DEF Typed, Linked, CanCache, TxnTypes
<1>6. Syncing(req'[r]) /\ req'[r].item = req[r].item
  BY <1>1, <1>2 DEF Slots, Syncing
<1>7. ASSUME NEW i \in LiveItems'
      PROVE  Fresh(i)' \/ (req[r].item = i /\ NetPaid(TxnsOf(i))' <= items'[i].paid)
  <2>1. i \in LiveItems /\ i \in Items
    BY <1>1 DEF LiveItems
  <2>2. TxnsOf(i)' = TxnsOf(i) \ {t} /\ TxnsOf(i) \subseteq Txns
        /\ \A u \in Txns : txns'[u].type = txns[u].type /\ txns'[u].amount = txns[u].amount
    <3>1. TxnsOf(i) \subseteq Txns
      BY DEF TxnsOf
    <3> QED
      BY <1>1, <1>2, <1>4, <3>1, TxnsAfter
  <2>3. CASE req[r].item # i
    <3>1. t \notin TxnsOf(i)
      BY <1>3, <1>4, <2>3 DEF TxnsOf
    <3>2. TxnsOf(i)' = TxnsOf(i)
      BY <2>2, <3>1
    <3> QED
      BY <1>1, <2>1, <2>2, <3>2, FreshStays
  <2>4. CASE req[r].item = i
    <3>1. t \in TxnsOf(i)
      BY <1>3, <1>4, <2>4 DEF TxnsOf
    <3>2. NetPaid(TxnsOf(i))' = NetPaid(TxnsOf(i) \ {t})
      BY <2>2, NetAfter
    <3>3. NetPaid(TxnsOf(i) \ {t}) <= NetPaid(TxnsOf(i))
      BY <1>2, <1>5, <2>2, <3>1, NetLess
    <3>4. items'[i].paid = NetPaid(TxnsOf(i))
      BY <1>1, <2>1 DEF Fresh
    <3> QED
      BY <2>4, <3>2, <3>3, <3>4
  <2> QED
    BY <2>3, <2>4
<1>8. Cached' = \A i \in LiveItems' :
                  \/ Fresh(i)'
                  \/ \E q \in Requests : /\ Syncing(req'[q]) /\ req'[q].item = i
                                         /\ NetPaid(TxnsOf(i))' <= items'[i].paid
  BY DEF Cached, Syncing
<1> QED
  BY <1>6, <1>7, <1>8

\* The only request there is, if it syncs after a deletion, has the only item left to sync.
LEMMA SyncingOnly ==
    ASSUME Typed, Lonely, Cached, CanCache, NEW r \in Requests, Syncing(req[r])
    PROVE  \A i \in LiveItems :
              Fresh(i) \/ (req[r].item = i /\ NetPaid(TxnsOf(i)) <= items[i].paid)
<1>1. req[r] # Idle
  BY IdleSlot
<1>2. r \in alone
  BY <1>1 DEF Lonely, CanCache
<1>3. \A q \in Requests : q # r => req[q] = Idle
  BY <1>2 DEF Lonely
<1>4. \A q \in Requests : Syncing(req[q]) => q = r
  BY <1>3, IdleSlot
<1> QED
  BY <1>4 DEF Cached

LEMMA SyncReadKept ==
    ASSUME Typed, Lonely, Cached, CanCache, NEW r \in Requests, Syncing(req[r]),
           SyncSum(r) \/ SyncItem(r)
    PROVE  Cached'
<1>1. \A i \in LiveItems : Fresh(i) \/ (req[r].item = i /\ NetPaid(TxnsOf(i)) <= items[i].paid)
  BY SyncingOnly
<1>2. UNCHANGED <<items, txns>> /\ req[r] \in Slots /\ req \in [Requests -> Slots]
  BY SlotTypes DEF SyncSum, SyncItem, rows
<1>3. \A i : i \in LiveItems' => i \in LiveItems
  BY <1>2 DEF LiveItems
<1>4. ASSUME NEW i, NetPaid(TxnsOf(i)) <= items[i].paid PROVE NetPaid(TxnsOf(i))' <= items'[i].paid
  <2>1. TxnsOf(i)' = TxnsOf(i)
    BY <1>2 DEF TxnsOf
  <2>2. NetPaid(TxnsOf(i))' = NetPaid(TxnsOf(i))
    BY <1>2, <2>1, NetAfter
  <2> QED
    BY <1>2, <1>4, <2>2
<1>5. CASE Finish(r)
  <2>1. items[req[r].item].state # "live"
    <3>1. Idle # [req[r] EXCEPT !.pc = "write", !.expected = items[req[r].item].expected]
      BY <1>2 DEF Slots, Idle
    <3>2. Idle # [req[r] EXCEPT !.pc = "item", !.net =
              NetPaid(TxnsOf(req[r].item)
                      \cup IF req[r].op = "createTransaction" THEN {req[r].txn} ELSE {})]
      BY <1>2 DEF Slots, Idle
    <3>3. req'[r] = Idle
      BY <1>2, <1>5 DEF Finish
    <3> QED
      BY <1>2, <3>1, <3>2, <3>3 DEF SyncSum, SyncItem
  <2>2. \A i \in LiveItems : Fresh(i)
    BY <1>1, <2>1 DEF LiveItems
  <2>3. \A i \in LiveItems' : Fresh(i)'
    BY <1>2, <1>3, <2>2, FrameFresh
  <2> QED
    BY <2>3 DEF Cached
<1>6. CASE ~Finish(r)
  <2>1. Syncing(req'[r]) /\ req'[r].item = req[r].item
    <3>1. CASE SyncSum(r)
      <4> DEFINE net == NetPaid(TxnsOf(req[r].item)
                                \cup IF req[r].op = "createTransaction" THEN {req[r].txn} ELSE {})
      <4>1. req' = [req EXCEPT ![r] = [@ EXCEPT !.pc = "item", !.net = net]]
        BY <3>1 DEF SyncSum
      <4> HIDE DEF net
      <4> QED
        BY <1>2, <4>1 DEF Slots, Syncing
    <3>2. CASE SyncItem(r)
      <4>1. req' = [req EXCEPT ![r] = [@ EXCEPT !.pc = "write",
                                                !.expected = items[req[r].item].expected]]
        BY <1>6, <3>2 DEF SyncItem
      <4> QED
        BY <1>2, <4>1 DEF Slots, Syncing
    <3> QED
      BY <3>1, <3>2
  <2>2. \A i \in LiveItems' :
            Fresh(i)' \/ (req[r].item = i /\ NetPaid(TxnsOf(i))' <= items'[i].paid)
    BY <1>1, <1>2, <1>3, <1>4, FrameFresh
  <2>3. Cached' = \A i \in LiveItems' :
                    \/ Fresh(i)'
                    \/ \E q \in Requests : /\ Syncing(req'[q]) /\ req'[q].item = i
                                           /\ NetPaid(TxnsOf(i))' <= items'[i].paid
    BY DEF Cached, Syncing
  <2> QED
    BY <2>1, <2>2, <2>3
<1> QED
  BY <1>5, <1>6

LEMMA DropWriteFresh ==
    ASSUME Typed, Lonely, Cached, CanCache, NEW r \in Requests, Current(req[r]), DropWrite(r)
    PROVE  \A i \in LiveItems' : Fresh(i)'
<1> SUFFICES ASSUME NEW i \in LiveItems' PROVE Fresh(i)'
  OBVIOUS
<1>1. /\ req[r].op = "deleteTransaction" /\ req[r].pc = "write" /\ Syncing(req[r]) /\ txns' = txns
  BY DEF DropWrite, At, Syncing
<1>2. /\ req[r] \in Slots /\ SlotFine(req[r], txns, env) /\ items \in [Items -> ItemRow]
      /\ txns \in [Txns -> TxnRow]
  BY SlotTypes
<1>3. req[r].item \in Items /\ req[r].net \in Nat /\ req[r].net = NetPaid(TxnsOf(req[r].item))
  BY <1>1, <1>2 DEF SlotFine, Slots, Current
<1>4. ASSUME NEW j \in LiveItems, Fresh(j), items'[j] = items[j] PROVE Fresh(j)'
  <2>1. TxnsOf(j)' = TxnsOf(j)
    BY <1>1 DEF TxnsOf
  <2> QED
    BY <1>1, <1>4, <2>1, FreshStays
<1>5. \A j \in LiveItems : Fresh(j) \/ (req[r].item = j /\ NetPaid(TxnsOf(j)) <= items[j].paid)
  BY <1>1, SyncingOnly
<1>6. CASE items[req[r].item].state = "live" /\ req[r].net <= items[req[r].item].expected
  <2>1. Synced(r, req[r].net)
    <3>1. ~ (req[r].net > items[req[r].item].expected)
      BY <1>2, <1>3, <1>6 DEF ItemRow
    <3> QED
      BY <1>6, <3>1 DEF DropWrite
  <2>2. CASE req[r].item = i
    BY <1>3, <1>6, <2>2, DropFresh
  <2>3. CASE req[r].item # i
    <3>1. /\ \A j \in Items : items'[j].state = items[j].state
          /\ \A j \in Items \ {req[r].item} : items'[j] = items[j]
      BY <1>3, <1>6, <2>1, SyncWritten
    <3>2. i \in LiveItems /\ items'[i] = items[i]
      BY <2>3, <3>1 DEF LiveItems
    <3> QED
      BY <1>4, <1>5, <2>3, <3>2
  <2> QED
    BY <2>2, <2>3
<1>7. CASE ~ (items[req[r].item].state = "live" /\ req[r].net <= items[req[r].item].expected)
  <2>1. items' = items
    BY <1>7 DEF DropWrite
  <2>2. i \in LiveItems
    BY <2>1 DEF LiveItems
  <2>3. Fresh(i)
    <3>1. ASSUME req[r].item = i, NetPaid(TxnsOf(i)) <= items[i].paid PROVE FALSE
      <4>1. items[i].state = "live" /\ items[i].paid <= items[i].expected
        BY <2>2 DEF Typed, Linked, LiveItems
      <4>2. items[i].paid \in Nat /\ items[i].expected \in Nat
        BY <1>2, <1>3, <3>1 DEF ItemRow
      <4> QED
        BY <1>3, <1>7, <3>1, <4>1, <4>2
    <3> QED
      BY <1>5, <2>2, <3>1
  <2> QED
    BY <1>4, <2>1, <2>2, <2>3
<1> QED
  BY <1>6, <1>7

LEMMA InitKept == Init => Kept
<1> SUFFICES ASSUME Init PROVE LiveItems = {}
  BY DEF Kept, Cached
<1> QED
  BY DEF Init, LiveItems, UnusedItem

LEMMA NextKept == ASSUME Typed, Lonely, Informed, Kept, [Next]_vars PROVE Kept'
<1>1. SUFFICES ASSUME Cached, CanCache, env' = env PROVE Cached'
  <2>1. env' = env
    BY DEF Next, vars
  <2>2. CanCache' = CanCache
    BY <2>1 DEF CanCache, Isolated, TxnTypes, Operations, Faulty
  <2> QED
    BY <2>1, <2>2 DEF Kept
<1>2. ASSUME \A i \in LiveItems' : Fresh(i)' PROVE Cached'
  BY <1>2 DEF Cached
<1>3. ASSUME UNCHANGED <<items, txns>>, \A i \in LiveItems : Fresh(i) PROVE Cached'
  <2>1. \A i : i \in LiveItems' => i \in LiveItems
    BY <1>3 DEF LiveItems
  <2> QED
    BY <1>2, <1>3, <2>1, FrameFresh
<1>4. CASE UNCHANGED vars
  <2>1. UNCHANGED <<items, txns, req>>
    BY <1>4 DEF vars
  <2>2. ASSUME NEW i \in LiveItems'
        PROVE  /\ i \in LiveItems /\ (Fresh(i) => Fresh(i)')
               /\ NetPaid(TxnsOf(i))' = NetPaid(TxnsOf(i)) /\ items'[i] = items[i]
    <3>1. i \in LiveItems /\ TxnsOf(i)' = TxnsOf(i)
      BY <2>1 DEF LiveItems, TxnsOf
    <3> QED
      BY <2>1, <3>1, FrameFresh, NetAfter
  <2>3. Cached' = \A i \in LiveItems' :
                    \/ Fresh(i)'
                    \/ \E q \in Requests : /\ Syncing(req'[q]) /\ req'[q].item = i
                                           /\ NetPaid(TxnsOf(i))' <= items'[i].paid
    BY DEF Cached, Syncing
  <2> QED
    BY <1>1, <2>1, <2>2, <2>3 DEF Cached
<1>5. CASE Step
  <2>1. ASSUME NEW r \in Requests, Begins(r) PROVE Cached'
    <3>1. \A q \in Requests : ~Syncing(req[q])
      BY <1>1, <2>1, IdleSlot DEF Begins, CanCache
    <3>2. \A i \in LiveItems : Fresh(i)
      BY <1>1, <3>1 DEF Cached
    <3> QED
      BY <1>3, <2>1, <3>2 DEF Begins, rows
  <2>2. ASSUME NEW r \in Requests,
               \/ CreateCheck(r) \/ UpdateCheck(r) \/ DeleteCheck(r) \/ ApplyCheck(r)
               \/ TxnCheck(r) \/ DropRead(r)
        PROVE  Cached'
    BY <2>1, <2>2, Beginning
  <2>3. ASSUME NEW r \in Requests,
               \/ CreateConfig(r) \/ CreateItems(r) \/ UpdateConfig(r) \/ UpdateDeleteItems(r)
               \/ SaveGuarantee(r) \/ DeleteConfig(r) \/ ApplySelect(r) \/ ApplyCommit(r)
               \/ TxnInsert(r) \/ TxnCommit(r) \/ SyncSum(r) \/ SyncItem(r)
               \/ DropDelete(r) \/ DropWrite(r) \/ Die(r)
        PROVE  Cached'
    <3>1. req[r] # Idle /\ r \in alone /\ Current(req[r])
      BY <1>1, <2>3, Going DEF GoesOn, Ends, Lonely, CanCache, Informed
    <3>2. CASE Syncing(req[r])
      <4>1. SyncSum(r) \/ SyncItem(r) \/ DropWrite(r)
        <5>1. ~Die(r)
          BY <1>1, <3>2 DEF Die, Syncing, CanCache
        <5> QED
          BY <2>3, <3>2, <5>1 DEF CreateConfig, CreateItems, UpdateConfig, UpdateDeleteItems,
                SaveGuarantee, DeleteConfig, ApplySelect, ApplyCommit, TxnInsert, TxnCommit,
                DropDelete, At, Syncing
      <4>2. CASE SyncSum(r) \/ SyncItem(r)
        BY <1>1, <3>2, <4>2, SyncReadKept
      <4>3. CASE DropWrite(r)
        BY <1>1, <1>2, <3>1, <4>3, DropWriteFresh
      <4> QED
        BY <4>1, <4>2, <4>3
    <3>3. CASE ~Syncing(req[r])
      <4>1. \A i \in LiveItems : Fresh(i)
        BY <1>1, <3>1, <3>3, AllFresh
      <4>2. CASE CreateConfig(r) \/ UpdateConfig(r) \/ SaveGuarantee(r) \/ ApplySelect(r)
                 \/ SyncSum(r) \/ SyncItem(r)
        <5>1. UNCHANGED <<items, txns>>
          BY <4>2 DEF CreateConfig, UpdateConfig, SaveGuarantee, ApplySelect, SyncSum, SyncItem, rows
        <5> QED
          BY <1>3, <4>1, <5>1
      <4>3. CASE UpdateDeleteItems(r) \/ DeleteConfig(r)
        <5> DEFINE S == ItemsOf(req[r].cfg)
        <5>1. Unlocked(S) /\ items' = Without(S) /\ Cascade(S) /\ S \in SUBSET Items
          BY <4>3, ItemsOfFacts DEF UpdateDeleteItems, DeleteConfig
        <5> HIDE DEF S
        <5> QED
          BY <1>2, <4>1, <5>1, RemovedFresh
      <4>4. CASE CreateItems(r)
        <5>1. CASE UNCHANGED rows
          BY <1>3, <4>1, <5>1 DEF rows
        <5>2. CASE ~ UNCHANGED rows
          <6>1. PICK new \in FreshIds(req[r].plan) :
                    Inserted(items, req[r].cfg, req[r].plan, new) /\ txns' = txns
            BY <4>4, <5>2 DEF CreateItems
          <6>2. /\ Inserted(Without({}), req[r].cfg, req[r].plan, new) /\ Unlocked({}) /\ Cascade({})
                /\ {} \in SUBSET Items
            BY <6>1, RemoveNone
          <6>3. req[r].plan \in Plans \cup {<< >>} /\ req[r].cfg \in Configs \cup {NoConfig}
            BY SlotTypes DEF Slots
          <6>4. \A i \in LiveItems' : Fresh(i)'
            BY <4>1, <6>2, <6>3, InsertedFresh
          <6> QED
            BY <1>2, <6>4
        <5> QED
          BY <5>1, <5>2
      <4>5. CASE ApplyCommit(r)
        <5>1. CASE UNCHANGED rows
          BY <1>3, <4>1, <5>1 DEF rows
        <5>2. CASE ~ UNCHANGED rows
          <6> DEFINE S == ItemsOf(req[r].cfg)
          <6>1. Unlocked(S) /\ Cascade(S) /\ S \in SUBSET Items
            BY <4>5, <5>2, ItemsOfFacts DEF ApplyCommit
          <6>2. PICK c \in IF config = NoSchedule THEN Configs \ spent ELSE {config.id} :
                  \E new \in FreshIds(req[r].plan) : Inserted(Without(S), c, req[r].plan, new)
            BY <4>5, <5>2 DEF ApplyCommit
          <6>3. PICK new \in FreshIds(req[r].plan) : Inserted(Without(S), c, req[r].plan, new)
            BY <6>2
          <6>4. req[r].plan \in Plans \cup {<< >>} /\ c \in Configs \cup {NoConfig}
            BY SlotTypes DEF Slots, ConfigRow
          <6> HIDE DEF S
          <6>5. \A i \in LiveItems' : Fresh(i)'
            BY <4>1, <6>1, <6>3, <6>4, InsertedFresh
          <6> QED
            BY <1>2, <6>5
        <5> QED
          BY <5>1, <5>2
      <4>6. CASE TxnInsert(r) \/ Die(r)
        BY <1>2, <4>1, <4>6, UncountedFresh DEF Die
      <4>7. CASE TxnCommit(r)
        BY <1>2, <3>1, <4>1, <4>7, TxnCommitFresh
      <4>8. CASE DropDelete(r)
        BY <1>1, <3>1, <4>1, <4>8, DropDeleteKept
      <4>9. CASE DropWrite(r)
        BY <1>1, <1>2, <3>1, <4>9, DropWriteFresh
      <4> QED
        BY <2>3, <4>2, <4>3, <4>4, <4>5, <4>6, <4>7, <4>8, <4>9
    <3> QED
      BY <3>2, <3>3
  <2>4. ASSUME NEW i \in Items, UpdateExpectedPaymentItem(i) PROVE FALSE
    BY <1>1, <2>4 DEF UpdateExpectedPaymentItem, CanCache
  <2> QED
    BY <1>5, <2>2, <2>3, <2>4 DEF Step
<1> QED
  BY <1>4, <1>5 DEF Next

-----------------------------------------------------------------------------
(* The items add up                                                          *)

LEMMA AddUpStays ==
    ASSUME AddUp, LiveItems' = LiveItems, \A i \in LiveItems : items'[i].expected = items[i].expected
    PROVE  AddUp'
<1>1. [i \in LiveItems |-> items'[i].expected] = [i \in LiveItems |-> items[i].expected]
  OBVIOUS
<1>2. AddUp' = (LiveItems' # {} =>
                    SumFunction([i \in LiveItems' |-> items'[i].expected]) = TotalPriceCents)
  BY DEF AddUp
<1> QED
  BY <1>1, <1>2 DEF AddUp

\* The items of a plan add up to what the plan does.
LEMMA InsertedAddUp ==
    ASSUME Typed, Unlocked(LiveItems), Cascade(LiveItems), NEW c \in Configs \cup {NoConfig},
           NEW plan \in PlansFor(TotalPriceCents) \cup {<< >>}, NEW new \in FreshIds(plan),
           Inserted(Without(LiveItems), c, plan, new)
    PROVE  AddUp'
<1> DEFINE D == DOMAIN plan
           live == {new[k] : k \in D}
<1>1. plan \in Plans \cup {<< >>} /\ LiveItems \in SUBSET Items
  BY DEF PlansFor, LiveItems
<1>2. IsFiniteSet(D) /\ (\A k \in D : plan[k] \in Nat) /\ (plan = << >> => D = {})
  BY <1>1, PlanFacts
<1>3. /\ Without(LiveItems) \in [Items -> ItemRow]
      /\ \A i \in Items : Without(LiveItems)[i].state # "live"
  <2>1. \A i \in Items : i \notin LiveItems => Without(LiveItems)[i] = items[i]
    BY <1>1, RemoveFacts
  <2>2. \A i \in LiveItems : Without(LiveItems)[i].state = "gone"
    BY <1>1, RemoveFacts
  <2> QED
    BY <1>1, <2>1, <2>2, RemoveFacts DEF LiveItems
<1>4. /\ \A k \in D : new[k] \in Items /\ items'[new[k]] = NewItem(c, plan[k])
      /\ \A j, k \in D : new[j] = new[k] => j = k
      /\ \A i \in Items : (\A k \in D : new[k] # i) => items'[i] = Without(LiveItems)[i]
  BY <1>1, <1>3, InsertFacts
<1>a. \A n : NewItem(c, n).state = "live" /\ NewItem(c, n).expected = n
  BY DEF NewItem
<1>5. \A k \in D : items'[new[k]].state = "live" /\ items'[new[k]].expected = plan[k]
  BY <1>4, <1>a
<1>6. LiveItems' = live
  <2>1. \A i \in Items : items'[i].state = "live" => \E k \in D : new[k] = i
    BY <1>3, <1>4
  <2> QED
    BY <1>4, <1>5, <2>1 DEF LiveItems
<1> DEFINE g == [i \in live |-> items'[i].expected]
<1>7. DOMAIN g = live /\ \A k \in D : plan[k] \in Int /\ g[new[k]] = plan[k]
  BY <1>2, <1>5
<1> HIDE DEF g
<1>8. SumFunctionOnSet(g, live) = SumFunctionOnSet(plan, D)
  BY <1>2, <1>4, <1>7, SumRenamed
<1>9. SumFunction(g) = SumOf(plan)
  BY <1>7, <1>8 DEF SumFunction, SumOf
<1>10. plan # << >> => SumOf(plan) = TotalPriceCents
  BY DEF PlansFor
<1>11. plan = << >> => live = {}
  BY <1>2
<1>12. AddUp' = (LiveItems' # {} =>
                    SumFunction([i \in LiveItems' |-> items'[i].expected]) = TotalPriceCents)
  BY DEF AddUp
<1> QED
  BY <1>6, <1>9, <1>10, <1>11, <1>12 DEF g

\* All items go, or none.
LEMMA RemovedAddUp ==
    ASSUME Typed, AddUp, NEW c, Unlocked(ItemsOf(c)), Cascade(ItemsOf(c)), items' = Without(ItemsOf(c))
    PROVE  AddUp'
<1>1. CASE c = config.id
  <2>1. ItemsOf(c) = LiveItems /\ LiveItems \in SUBSET Items
    BY <1>1, ItemsOfFacts DEF LiveItems
  <2>2. \A i \in Items : i \notin LiveItems => items'[i] = items[i]
    BY <2>1, RemoveFacts
  <2>3. \A i \in LiveItems : items'[i].state = "gone"
    BY <2>1, RemoveFacts
  <2>4. LiveItems' = {}
    BY <2>2, <2>3 DEF LiveItems
  <2> QED
    BY <2>4 DEF AddUp
<1>2. CASE c # config.id
  <2>1. items' = items
    BY <1>2, ItemsOfFacts, RemoveNone
  <2> QED
    BY <2>1, AddUpStays DEF LiveItems
<1> QED
  BY <1>1, <1>2

LEMMA InitWhole == Init => Whole
<1> SUFFICES ASSUME Init PROVE LiveItems = {}
  BY DEF Whole, AddUp
<1> QED
  BY DEF Init, LiveItems, UnusedItem

LEMMA NextWhole == ASSUME Typed, Lonely, Informed, Whole, [Next]_vars PROVE Whole'
<1>1. SUFFICES ASSUME AddUp, CanAddUp, env' = env PROVE AddUp'
  <2>1. env' = env
    BY DEF Next, vars
  <2>2. CanAddUp' = CanAddUp
    BY <2>1 DEF CanAddUp, Isolated, Operations
  <2> QED
    BY <2>1, <2>2 DEF Whole
<1>2. ASSUME items' = items PROVE AddUp'
  <2>1. LiveItems' = LiveItems
    BY <1>2 DEF LiveItems
  <2> QED
    BY <1>1, <1>2, <2>1, AddUpStays
<1>3. CASE UNCHANGED vars
  BY <1>2, <1>3 DEF vars
<1>4. ASSUME NEW r \in Requests,
             \/ CreateCheck(r) \/ CreateConfig(r) \/ UpdateCheck(r) \/ UpdateConfig(r)
             \/ SaveGuarantee(r) \/ DeleteCheck(r) \/ ApplyCheck(r) \/ ApplySelect(r)
             \/ TxnCheck(r) \/ TxnInsert(r) \/ SyncSum(r) \/ SyncItem(r)
             \/ DropRead(r) \/ DropDelete(r) \/ Die(r)
      PROVE  AddUp'
  <2>1. items' = items
    BY <1>4 DEF CreateCheck, CreateConfig, UpdateCheck, UpdateConfig, SaveGuarantee, DeleteCheck,
                ApplyCheck, ApplySelect, TxnCheck, TxnInsert, SyncSum, SyncItem, DropRead,
                DropDelete, Die, Start, Finish, rows
  <2> QED
    BY <1>2, <2>1
<1>5. ASSUME NEW r \in Requests, UpdateDeleteItems(r) \/ DeleteConfig(r) PROVE AddUp'
  BY <1>1, <1>5, RemovedAddUp DEF UpdateDeleteItems, DeleteConfig
<1>6. ASSUME NEW r \in Requests, CreateItems(r) PROVE AddUp'
  <2>1. CASE UNCHANGED rows
    BY <1>2, <2>1 DEF rows
  <2>2. CASE ~ UNCHANGED rows
    <3>1. PICK new \in FreshIds(req[r].plan) :
              Inserted(items, req[r].cfg, req[r].plan, new) /\ txns' = txns
      BY <1>6, <2>2 DEF CreateItems
    <3>2. Inserting(req[r]) /\ req[r] # Idle /\ SlotFine(req[r], txns, env)
          /\ req[r].op \in {"create", "update"}
      BY <1>6, IdleSlot, SlotTypes DEF CreateItems, At, Inserting
    <3>3. Isolated
      BY <1>1, <3>2 DEF SlotFine, CanAddUp, Operations
    <3>4. LiveItems = {}
      BY <1>1, <3>2, <3>3 DEF Lonely, Informed, Current, CanAddUp
    <3>5. /\ Inserted(Without(LiveItems), req[r].cfg, req[r].plan, new)
          /\ Unlocked(LiveItems) /\ Cascade(LiveItems)
      BY <3>1, <3>4, RemoveNone
    <3>6. /\ req[r].plan \in PlansFor(TotalPriceCents) \cup {<< >>}
          /\ req[r].cfg \in Configs \cup {NoConfig}
      BY <3>2, SlotTypes DEF SlotFine, Slots
    <3> QED
      BY <3>1, <3>5, <3>6, InsertedAddUp
  <2> QED
    BY <2>1, <2>2
<1>7. ASSUME NEW r \in Requests, ApplyCommit(r) PROVE AddUp'
  <2>1. CASE UNCHANGED rows
    BY <1>2, <2>1 DEF rows
  <2>2. CASE ~ UNCHANGED rows
    <3>1. ItemsOf(req[r].cfg) = LiveItems /\ req[r].op = "apply"
      BY <1>7, <2>2, ItemsOfFacts DEF ApplyCommit, At
    <3>2. Unlocked(LiveItems) /\ Cascade(LiveItems)
      BY <1>7, <2>2, <3>1 DEF ApplyCommit
    <3>3. PICK c \in IF config = NoSchedule THEN Configs \ spent ELSE {config.id} :
            \E new \in FreshIds(req[r].plan) : Inserted(Without(LiveItems), c, req[r].plan, new)
      BY <1>7, <2>2, <3>1 DEF ApplyCommit
    <3>4. PICK new \in FreshIds(req[r].plan) : Inserted(Without(LiveItems), c, req[r].plan, new)
      BY <3>3
    <3>5. c \in Configs \cup {NoConfig}
      BY SlotTypes DEF ConfigRow
    <3>6. req[r].plan \in PlansFor(TotalPriceCents)
      BY <1>1, <3>1, SlotTypes DEF SlotFine, CanAddUp
    <3>7. req[r].plan \in PlansFor(TotalPriceCents) \cup {<< >>}
      BY <3>6
    <3> QED
      BY <3>2, <3>4, <3>5, <3>7, InsertedAddUp
  <2> QED
    BY <2>1, <2>2
<1>8. ASSUME NEW r \in Requests, TxnCommit(r) \/ DropWrite(r) PROVE AddUp'
  <2>1. CASE items' = items
    BY <1>2, <2>1
  <2>2. CASE Synced(r, req[r].net)
    <3>1. items' = [items EXCEPT ![req[r].item] =
                      [@ EXCEPT !.paid = req[r].net, !.status = StatusOf(req[r].net, req[r].expected)]]
      BY <2>2 DEF Synced
    <3>2. items \in [Items -> ItemRow]
      BY SlotTypes
    <3>3. \A j \in Items : items'[j].state = items[j].state /\ items'[j].expected = items[j].expected
      BY <3>1, <3>2 DEF ItemRow
    <3>4. LiveItems' = LiveItems
      BY <3>3 DEF LiveItems
    <3> QED
      BY <1>1, <3>3, <3>4, AddUpStays DEF LiveItems
  <2> QED
    BY <1>8, <2>1, <2>2 DEF TxnCommit, DropWrite
<1>9. ASSUME NEW i \in Items, UpdateExpectedPaymentItem(i) PROVE FALSE
  BY <1>1, <1>9 DEF UpdateExpectedPaymentItem, CanAddUp
<1> QED
  BY <1>3, <1>4, <1>5, <1>6, <1>7, <1>8, <1>9 DEF Next, Step

-----------------------------------------------------------------------------
(* The theorems                                                              *)

LEMMA Invariant == Spec => []IInv
<1>1. Init => IInv
  BY InitTyped, InitLonely, InitInformed, InitWhole, InitKept DEF IInv
<1>2. IInv /\ [Next]_vars => IInv'
  BY NextTyped, NextLonely, NextInformed, NextWhole, NextKept DEF IInv
<1> QED
  BY <1>1, <1>2, PTL DEF Spec

\* Rows and slots are well formed, no item or payment points at a row that is gone, and the
\* items of a schedule add up to the price, whatever overlaps within the limits of WholeSchedule.
THEOREM SchedulesAreSound == Spec => []ScheduleSound
<1>1. IInv => ScheduleSound
  <2>1. IInv => TypeOK
    BY TypedTypeOK DEF IInv
  <2>2. IInv => WholeSchedule
    BY DEF IInv, Whole, CanAddUp, AddUp, WholeSchedule
  <2> QED
    BY <2>1, <2>2 DEF ScheduleSound
<1> QED
  BY <1>1, Invariant, PTL

\* With the care CacheFreshWithCare asks for, every cached total and status is that of the
\* item's transactions whenever no request is in flight.
THEOREM CachesStayFresh == Spec => []CacheFreshWithCare
<1>1. IInv => CacheFreshWithCare
  <2>1. SUFFICES ASSUME Cached, Quiet PROVE \A i \in LiveItems : Fresh(i)
    BY DEF IInv, Kept, CanCache, CacheFreshWithCare, CacheFresh
  <2>2. \A r \in Requests : ~Syncing(req[r])
    BY <2>1, IdleSlot DEF Quiet
  <2> QED
    BY <2>1, <2>2 DEF Cached
<1> QED
  BY <1>1, Invariant, PTL

\* A payment recorded while nothing else runs repairs the totals of its item, whatever made
\* them stale.
THEOREM PaymentsRepair == Spec => SyncRepairs
<1>1. IInv /\ [Next]_vars =>
        [\A r \in Requests :
            \A i \in Items :
                At(r, "createTransaction", "write") /\ r \in alone /\ req[r].item = i
                    /\ txns'[req[r].txn].state = "live"
                    => Fresh(i)']_vars
  BY StepRepairs DEF IInv
<1> QED
  BY <1>1, Invariant, PTL DEF Spec, SyncRepairs

\* A schedule that has items is never without any, unless it is deleted or updated: a template
\* replaces them all at once, in every interleaving.
THEOREM SchedulesNeverEmptied == Spec => NeverEmptied
<1>1. IInv /\ [Next]_vars =>
        [LiveItems # {} /\ config'.id = config.id /\ "update" \notin Operations
            => LiveItems' # {}]_vars
  BY StepKeepsItems DEF IInv, Next
<1> QED
  BY <1>1, Invariant, PTL DEF Spec, NeverEmptied
===============================================================================
