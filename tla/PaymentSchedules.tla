--------------------------- MODULE PaymentSchedules ---------------------------
(***************************************************************************)
(* The payment schedule of one priced activity: its configuration row, its  *)
(* expected payment items, the payment transactions recorded against them   *)
(* and the cached total each item keeps of its transactions                 *)
(* (trips/payment-schedules.service.ts).                                    *)
(*                                                                         *)
(* createTransaction and applyTemplate run in a database transaction at     *)
(* READ COMMITTED; the other handlers await one statement after another.    *)
(* A transaction's last write and its commit are one step here: its own     *)
(* rows are invisible until then, and the row locks it holds only make      *)
(* others wait.  The one lock the model keeps is the key-share lock of an   *)
(* uncommitted payment on its item, which holds back whoever deletes it.    *)
(***************************************************************************)
EXTENDS Integers, Sequences, FiniteSets, FiniteSetsExt

CONSTANTS
    Requests,        \* slots for HTTP requests in flight, each used again
    Configs,         \* ids of payment_schedule_config rows, never used twice
    NoConfig,        \* no configuration row
    Items,           \* ids of expected_payment_items rows, never used twice
    NoItem,          \* no item
    Txns,            \* ids of payment_transactions rows, never used twice
    NoTxn,           \* no transaction
    Plans,           \* the lists of item amounts a caller may ask for
    TotalPriceCents, \* the price of the activity
    TemplateTotals,  \* the totals a caller of applyTemplate may name
    Amounts,         \* the amounts of transactions and of edited items
    Environments     \* the environments the schedule is put into, see env

AllOperations == {"create", "update", "delete", "apply", "createTransaction",
                  "deleteTransaction", "updateItem"}

ASSUME PaymentSchedulesAssumption ==
    /\ NoConfig \notin Configs /\ NoItem \notin Items /\ NoTxn \notin Txns
    /\ IsFiniteSet(Txns)
    /\ Plans \subseteq Seq(Nat) /\ << >> \notin Plans
    /\ TotalPriceCents \in Nat /\ TemplateTotals \subseteq Nat /\ Amounts \subseteq Nat
    /\ Environments \subseteq
           [types : SUBSET {"payment", "refund", "adjustment"}, operations : SUBSET AllOperations,
            faulty : SUBSET AllOperations, isolated : BOOLEAN]

VARIABLES
    config,  \* the payment_schedule_config row of the activity, or NoSchedule
    spent,   \* the configuration ids in use or deleted
    items,   \* expected_payment_items
    txns,    \* payment_transactions
    req,     \* what each request slot holds between two awaits
    alone,   \* history: the requests nothing has overlapped so far
    env      \* what the clients of this behaviour do, chosen once

vars == <<config, spent, items, txns, req, alone, env>>
rows == <<config, spent, items, txns>>

TxnTypes == env.types        \* the transaction types in use
Operations == env.operations \* the handlers that are called
Faulty == env.faulty         \* those that may die between two of their steps
Isolated == env.isolated     \* no two requests overlap

-----------------------------------------------------------------------------
(* Rows, slots and sums                                                      *)

NoSchedule == [id |-> NoConfig, guarantee |-> FALSE, card |-> FALSE]

UnusedItem == [state |-> "unused", config |-> NoConfig, expected |-> 0, paid |-> 0,
               status |-> "pending"]

UnusedTxn == [state |-> "unused", item |-> NoItem, type |-> "payment", amount |-> 0]

\* plan is the list of amounts asked for; cfg, item and txn the rows worked on;
\* guarantee and card what the caller asked of them; net and expected what a
\* sync has read.
Idle == [op |-> "none", pc |-> "idle", plan |-> << >>, cfg |-> NoConfig,
         guarantee |-> FALSE, card |-> FALSE, item |-> NoItem, txn |-> NoTxn,
         type |-> "payment", amount |-> 0, net |-> 0, expected |-> 0]

SumOf(plan) == SumFunction(plan)

PlansFor(total) == {plan \in Plans : SumOf(plan) = total}

LiveItems == {i \in Items : items[i].state = "live"}
ItemsOf(c) == {i \in LiveItems : items[i].config = c}
TxnsOf(i) == {t \in Txns : txns[t].state = "live" /\ txns[t].item = i}

\* What a transaction adds to the amount paid: adjustments count as additions.
Signed(t) == IF txns[t].type = "refund" THEN -txns[t].amount ELSE txns[t].amount

\* Payments less refunds plus adjustments, never below zero.
NetPaid(S) == Max({0, SumFunction([t \in S |-> Signed(t)])})

\* "pending" also stands for "overdue", which differs by the date alone.
StatusOf(net, expected) ==
    IF net >= expected THEN "paid" ELSE IF net > 0 THEN "partial" ELSE "pending"

At(r, op, pc) == req[r].op = op /\ req[r].pc = pc

Goto(r, pc) == req' = [req EXCEPT ![r].pc = pc]

Finish(r) == req' = [req EXCEPT ![r] = Idle] /\ alone' = alone \ {r}

Start(r, slot) ==
    /\ slot.op \in Operations
    /\ req[r] = Idle
    /\ Isolated => \A q \in Requests : req[q] = Idle
    /\ req' = [req EXCEPT ![r] = slot]
    /\ alone' = IF \A q \in Requests : req[q] = Idle THEN {r} ELSE {}
    /\ UNCHANGED rows

\* A delete waits for every uncommitted payment on the items it removes.
Unlocked(S) == \A t \in Txns : txns[t].state = "pending" => txns[t].item \notin S

\* Deleting items takes their transactions along (ON DELETE CASCADE).
Without(S) == [i \in Items |-> IF i \in S THEN [items[i] EXCEPT !.state = "gone"] ELSE items[i]]
Cascade(S) ==
    txns' = [t \in Txns |-> IF txns[t].state = "live" /\ txns[t].item \in S
                            THEN [txns[t] EXCEPT !.state = "gone"] ELSE txns[t]]

\* table with one new row, pending and unpaid, for each amount of the plan.
Inserted(table, c, plan, new) ==
    items' = [i \in Items |->
                IF \E k \in DOMAIN plan : new[k] = i
                THEN [state |-> "live", config |-> c, paid |-> 0, status |-> "pending",
                      expected |-> plan[CHOOSE k \in DOMAIN plan : new[k] = i]]
                ELSE table[i]]

FreshIds(plan) ==
    {new \in [DOMAIN plan -> {i \in Items : items[i].state = "unused"}] :
        \A j, k \in DOMAIN plan : new[j] = new[k] => j = k}

Init ==
    /\ config = NoSchedule /\ spent = {}
    /\ items = [i \in Items |-> UnusedItem]
    /\ txns = [t \in Txns |-> UnusedTxn]
    /\ req = [r \in Requests |-> Idle]
    /\ alone = {}
    /\ env \in Environments

-----------------------------------------------------------------------------
(* create, update and delete: statement by statement, no transaction         *)

CreateCheck(r) ==
    /\ config = NoSchedule
    /\ \E plan \in {<< >>} \cup PlansFor(TotalPriceCents), guarantee, card \in BOOLEAN :
        /\ guarantee => card
        /\ Start(r, [Idle EXCEPT !.op = "create", !.pc = "config", !.plan = plan,
                                 !.guarantee = guarantee, !.card = card])

\* One schedule per activity (a unique column): the second insert throws.
CreateConfig(r) ==
    /\ At(r, "create", "config")
    /\ \/ config # NoSchedule /\ Finish(r) /\ UNCHANGED rows
       \/ /\ config = NoSchedule
          /\ \E c \in Configs \ spent :
                /\ config' = [id |-> c, guarantee |-> req[r].guarantee, card |-> FALSE]
                /\ spent' = spent \cup {c}
                /\ req' = [req EXCEPT ![r] = [@ EXCEPT !.pc = "items", !.cfg = c]]
          /\ UNCHANGED <<items, txns, alone>>

\* Fault: nobody checks that the items add up to the price.
UpdateCheckAnySum(r) ==
    /\ config # NoSchedule
    /\ \E plan \in {<< >>} \cup Plans, guarantee, card \in BOOLEAN :
        /\ guarantee => card \/ config.card
        /\ Start(r, [Idle EXCEPT !.op = "update", !.pc = "config", !.plan = plan, !.cfg = config.id,
                                 !.guarantee = guarantee, !.card = card])

UpdateCheck(r) ==
    /\ config # NoSchedule
    /\ \E plan \in {<< >>} \cup PlansFor(TotalPriceCents), guarantee, card \in BOOLEAN :
        /\ guarantee => card \/ config.card
        /\ Start(r, [Idle EXCEPT !.op = "update", !.pc = "config", !.plan = plan, !.cfg = config.id,
                                 !.guarantee = guarantee, !.card = card])

\* The update of a row deleted meanwhile changes nothing and does not throw.
UpdateConfig(r) ==
    /\ At(r, "update", "config")
    /\ config' = IF config.id = req[r].cfg THEN [config EXCEPT !.guarantee = req[r].guarantee]
                                           ELSE config
    /\ Goto(r, IF req[r].plan = << >> THEN "card" ELSE "clear")
    /\ UNCHANGED <<spent, items, txns, alone>>

UpdateDeleteItems(r) ==
    LET old == ItemsOf(req[r].cfg)
    IN  /\ At(r, "update", "clear")
        /\ Unlocked(old)
        /\ items' = Without(old)
        /\ Cascade(old)
        /\ Goto(r, "items")
        /\ UNCHANGED <<config, spent, alone>>

\* createExpectedPaymentItems throws when the configuration is gone.
CreateItems(r) ==
    /\ At(r, "create", "items") \/ At(r, "update", "items")
    /\ \/ /\ config.id # req[r].cfg /\ req[r].plan # << >>
          /\ Finish(r) /\ UNCHANGED rows
       \/ /\ config.id = req[r].cfg \/ req[r].plan = << >>
          /\ \E new \in FreshIds(req[r].plan) : Inserted(items, req[r].cfg, req[r].plan, new)
          /\ Goto(r, "card")
          /\ UNCHANGED <<config, spent, txns, alone>>

\* The credit card guarantee is inserted or updated, when one was given.
SaveGuarantee(r) ==
    /\ At(r, "create", "card") \/ At(r, "update", "card")
    /\ config' = IF req[r].card /\ config.id = req[r].cfg THEN [config EXCEPT !.card = TRUE]
                                                          ELSE config
    /\ Finish(r)
    /\ UNCHANGED <<spent, items, txns>>

DeleteCheck(r) ==
    /\ config # NoSchedule
    /\ Start(r, [Idle EXCEPT !.op = "delete", !.pc = "config", !.cfg = config.id])

\* The items and their transactions go with the configuration.
DeleteConfig(r) ==
    LET old == ItemsOf(req[r].cfg)
    IN  /\ At(r, "delete", "config")
        /\ Unlocked(old)
        /\ config' = IF config.id = req[r].cfg THEN NoSchedule ELSE config
        /\ items' = Without(old)
        /\ Cascade(old)
        /\ Finish(r)
        /\ UNCHANGED spent

-----------------------------------------------------------------------------
(* applyTemplate: validated against the total the caller names, then one     *)
(* transaction that replaces the items                                       *)

ApplyCheck(r) ==
    \E total \in TemplateTotals, guarantee \in BOOLEAN :
        \E plan \in PlansFor(total) :
            Start(r, [Idle EXCEPT !.op = "apply", !.pc = "select", !.plan = plan,
                                  !.guarantee = guarantee])

\* Fault: the items are deleted before the transaction that inserts the new ones.
ApplySelectDeletes(r) ==
    /\ At(r, "apply", "select")
    /\ Unlocked(ItemsOf(config.id))
    /\ items' = Without(ItemsOf(config.id))
    /\ Cascade(ItemsOf(config.id))
    /\ req' = [req EXCEPT ![r] = [@ EXCEPT !.pc = "write", !.cfg = config.id]]
    /\ UNCHANGED <<config, spent, alone>>

ApplySelect(r) ==
    /\ At(r, "apply", "select")
    /\ req' = [req EXCEPT ![r] = [@ EXCEPT !.pc = "write", !.cfg = config.id]]
    /\ UNCHANGED <<rows, alone>>

\* The transaction: the configuration found is updated, or a new one inserted,
\* and its items replaced.  It rolls back when the configuration it found is
\* gone (the items' foreign key) or another was inserted (the unique column).
ApplyCommit(r) ==
    LET old == ItemsOf(req[r].cfg)
    IN  /\ At(r, "apply", "write")
        /\ \/ config.id # req[r].cfg /\ Finish(r) /\ UNCHANGED rows
           \/ /\ config.id = req[r].cfg
              /\ Unlocked(old)
              /\ \E c \in IF config = NoSchedule THEN Configs \ spent ELSE {config.id} :
                    /\ config' = [id |-> c, guarantee |-> req[r].guarantee, card |-> config.card]
                    /\ spent' = spent \cup {c}
                    /\ \E new \in FreshIds(req[r].plan) :
                            Inserted(Without(old), c, req[r].plan, new)
              /\ Cascade(old)
              /\ Finish(r)

-----------------------------------------------------------------------------
(* Transactions and the cached total of their item                           *)

TxnCheck(r) ==
    \E i \in LiveItems, type \in TxnTypes, n \in Amounts :
        Start(r, [Idle EXCEPT !.op = "createTransaction", !.pc = "insert", !.item = i,
                              !.type = type, !.amount = n])

\* Fault: the insert is not part of the transaction.
TxnInsertCommitted(r) ==
    /\ At(r, "createTransaction", "insert")
    /\ \/ items[req[r].item].state # "live" /\ Finish(r) /\ UNCHANGED rows
       \/ /\ items[req[r].item].state = "live"
          /\ \E t \in Txns :
                /\ txns[t].state = "unused"
                /\ txns' = [txns EXCEPT ![t] = [state |-> "live", item |-> req[r].item,
                                                type |-> req[r].type, amount |-> req[r].amount]]
                /\ req' = [req EXCEPT ![r] = [@ EXCEPT !.pc = "sum", !.txn = t]]
          /\ UNCHANGED <<config, spent, items, alone>>

\* The row is there for its own transaction only; a deleted item is refused.
TxnInsert(r) ==
    /\ At(r, "createTransaction", "insert")
    /\ \/ items[req[r].item].state # "live" /\ Finish(r) /\ UNCHANGED rows
       \/ /\ items[req[r].item].state = "live"
          /\ \E t \in Txns :
                /\ txns[t].state = "unused"
                /\ txns' = [txns EXCEPT ![t] = [state |-> "pending", item |-> req[r].item,
                                                type |-> req[r].type, amount |-> req[r].amount]]
                /\ req' = [req EXCEPT ![r] = [@ EXCEPT !.pc = "sum", !.txn = t]]
          /\ UNCHANGED <<config, spent, items, alone>>

\* Both syncs read the transactions they can see and add them up.
SyncSum(r) ==
    /\ At(r, "createTransaction", "sum") \/ At(r, "deleteTransaction", "sum")
    /\ LET own == IF req[r].op = "createTransaction" THEN {req[r].txn} ELSE {}
       IN  req' = [req EXCEPT ![r] = [@ EXCEPT !.pc = "item",
                                               !.net = NetPaid(TxnsOf(req[r].item) \cup own)]]
    /\ UNCHANGED <<rows, alone>>

\* ... then the item, to compare with what it expects; no item, no update.
SyncItem(r) ==
    /\ At(r, "createTransaction", "item") \/ At(r, "deleteTransaction", "item")
    /\ \/ items[req[r].item].state # "live" /\ Finish(r)
       \/ /\ items[req[r].item].state = "live"
          /\ req' = [req EXCEPT ![r] = [@ EXCEPT !.pc = "write",
                                                 !.expected = items[req[r].item].expected]]
          /\ UNCHANGED alone
    /\ UNCHANGED rows

\* The row of the item is overwritten; the table refuses more paid than expected.
Synced(r, net) ==
    items' = [items EXCEPT ![req[r].item] =
                [@ EXCEPT !.paid = net, !.status = StatusOf(net, req[r].expected)]]

\* Fault: the amount is added to the cached total.
TxnCommitIncrement(r) ==
    LET net == items[req[r].item].paid + Signed(req[r].txn)
    IN  /\ At(r, "createTransaction", "write")
        /\ \/ /\ net \in 0 .. items[req[r].item].expected
              /\ Synced(r, net)
              /\ txns' = [txns EXCEPT ![req[r].txn].state = "live"]
           \/ /\ net \notin 0 .. items[req[r].item].expected
              /\ txns' = [txns EXCEPT ![req[r].txn].state = "gone"]
              /\ UNCHANGED items
        /\ Finish(r)
        /\ UNCHANGED <<config, spent>>

\* The payment and the new total are committed together, or neither is.
TxnCommit(r) ==
    /\ At(r, "createTransaction", "write")
    /\ \/ /\ req[r].net <= items[req[r].item].expected
          /\ Synced(r, req[r].net)
          /\ txns' = [txns EXCEPT ![req[r].txn].state = "live"]
       \/ /\ req[r].net > items[req[r].item].expected
          /\ txns' = [txns EXCEPT ![req[r].txn].state = "gone"]
          /\ UNCHANGED items
    /\ Finish(r)
    /\ UNCHANGED <<config, spent>>

DropRead(r) ==
    \E t \in Txns :
        /\ txns[t].state = "live"
        /\ Start(r, [Idle EXCEPT !.op = "deleteTransaction", !.pc = "delete", !.txn = t,
                                 !.item = txns[t].item])

\* Committed by itself, before the sync.
DropDelete(r) ==
    /\ At(r, "deleteTransaction", "delete")
    /\ txns' = [txns EXCEPT ![req[r].txn].state = "gone"]
    /\ Goto(r, "sum")
    /\ UNCHANGED <<config, spent, items, alone>>

DropWrite(r) ==
    /\ At(r, "deleteTransaction", "write")
    /\ \/ /\ items[req[r].item].state = "live" /\ req[r].net <= items[req[r].item].expected
          /\ Synced(r, req[r].net)
       \/ /\ items[req[r].item].state # "live" \/ req[r].net > items[req[r].item].expected
          /\ UNCHANGED items
    /\ Finish(r)
    /\ UNCHANGED <<config, spent, txns>>

\* updateExpectedPaymentItem is one statement, and writes what the caller says.
UpdateExpectedPaymentItem(i) ==
    /\ "updateItem" \in Operations
    /\ Isolated => \A q \in Requests : req[q] = Idle
    /\ items[i].state = "live"
    /\ \E expected \in Amounts \cup {items[i].expected}, paid \in Amounts \cup {items[i].paid},
          status \in {"pending", "partial", "paid"} :
        /\ paid <= expected
        /\ items' = [items EXCEPT ![i] = [@ EXCEPT !.expected = expected, !.paid = paid,
                                                   !.status = status]]
    /\ alone' = {}
    /\ UNCHANGED <<config, spent, txns, req>>

\* A statement or the process fails: an open transaction is rolled back,
\* and nothing else that was done is undone.
Die(r) ==
    /\ req[r].op \in Faulty
    /\ txns' = IF req[r].txn \in Txns /\ txns[req[r].txn].state = "pending"
               THEN [txns EXCEPT ![req[r].txn].state = "gone"] ELSE txns
    /\ Finish(r)
    /\ UNCHANGED <<config, spent, items>>

Step ==
    \/ \E r \in Requests :
        \/ CreateCheck(r) \/ CreateConfig(r)
        \/ UpdateCheck(r) \/ UpdateConfig(r) \/ UpdateDeleteItems(r)
        \/ CreateItems(r) \/ SaveGuarantee(r)
        \/ DeleteCheck(r) \/ DeleteConfig(r)
        \/ ApplyCheck(r) \/ ApplySelect(r) \/ ApplyCommit(r)
        \/ TxnCheck(r) \/ TxnInsert(r) \/ TxnCommit(r)
        \/ SyncSum(r) \/ SyncItem(r)
        \/ DropRead(r) \/ DropDelete(r) \/ DropWrite(r)
        \/ Die(r)
    \/ \E i \in Items : UpdateExpectedPaymentItem(i)

Next == Step /\ UNCHANGED env

Spec == Init /\ [][Next]_vars

-----------------------------------------------------------------------------
(* Properties                                                                *)

Quiet == \A r \in Requests : req[r] = Idle

ItemStatus == {"pending", "partial", "paid"}
RowState == {"unused", "live", "gone"}

\* Rows and slots are well formed, and no row points at one that is gone.
TypeOK ==
    /\ config \in [id : Configs \cup {NoConfig}, guarantee : BOOLEAN, card : BOOLEAN]
    /\ items \in [Items -> [state : RowState, config : Configs \cup {NoConfig},
                            expected : Nat, paid : Nat, status : ItemStatus]]
    /\ \A i \in LiveItems : items[i].config = config.id /\ config # NoSchedule
    /\ txns \in [Txns -> [state : RowState \cup {"pending"}, item : Items \cup {NoItem},
                          type : {"payment", "refund", "adjustment"}, amount : Nat]]
    /\ \A t \in Txns : txns[t].state \in {"live", "pending"} => txns[t].item \in LiveItems
    /\ req \in [Requests -> [op : AllOperations \cup {"none"},
                             pc : {"idle", "config", "clear", "items", "card", "select",
                                   "write", "insert", "sum", "item", "delete"},
                             plan : Plans \cup {<< >>}, cfg : Configs \cup {NoConfig},
                             guarantee : BOOLEAN, card : BOOLEAN,
                             item : Items \cup {NoItem}, txn : Txns \cup {NoTxn},
                             type : {"payment", "refund", "adjustment"},
                             amount : Nat, net : Nat, expected : Nat]]
    /\ spent \subseteq Configs /\ alone \subseteq Requests

\* The cached total and the status of an item are those of its transactions.
Fresh(i) ==
    LET net == NetPaid(TxnsOf(i))
    IN  /\ items[i].paid = net
        /\ TxnsOf(i) # {} => items[i].status = StatusOf(net, items[i].expected)

\* Whenever no request is in flight, every cached total is fresh.
CacheFresh == Quiet => \A i \in LiveItems : Fresh(i)

\* It is, while requests do not overlap and none dies between the deletion of a
\* transaction and the sync, nobody writes the total by hand, and no refund is deleted.
CacheFreshWithCare ==
    /\ Isolated /\ "refund" \notin TxnTypes
    /\ "updateItem" \notin Operations /\ "deleteTransaction" \notin Faulty
    => CacheFresh

\* Whatever has left a cached total stale, a transaction recorded on the item
\* while nothing else runs makes it fresh again.
SyncRepairs ==
    [][\A r \in Requests :
          \A i \in Items :
              At(r, "createTransaction", "write") /\ r \in alone /\ req[r].item = i
                  /\ txns'[req[r].txn].state = "live"
                  => Fresh(i)']_vars

\* Whenever no request is in flight, the items, if any, add up to the price: templates
\* may overlap with anything but the handlers that work without a transaction.  The total a
\* template is validated against is one the caller names, and has to be the price.
WholeSchedule ==
    /\ Isolated \/ Operations \cap {"create", "update"} = {}
    /\ "updateItem" \notin Operations /\ TemplateTotals \subseteq {TotalPriceCents}
    /\ Quiet /\ LiveItems # {}
    => SumFunction([i \in LiveItems |-> items[i].expected]) = TotalPriceCents

\* The rows of a schedule hang together (no item or payment points at a row that is gone), and
\* its items add up, through every overlap that WholeSchedule allows.
ScheduleSound == TypeOK /\ WholeSchedule

\* A schedule that has items is never left without any, unless it is deleted or updated
\* (which deletes the items first).
NeverEmptied ==
    [][LiveItems # {} /\ config'.id = config.id /\ "update" \notin Operations
          => LiveItems' # {}]_vars

\* A schedule of type guarantee has a credit card guarantee ("creditCardGuarantee is
\* required when scheduleType is guarantee", create).
GuaranteeBacked == Quiet /\ config.guarantee => config.card
=============================================================================
