----------------------------- MODULE ServiceFees -----------------------------
(***************************************************************************)
(* One service fee row of the Tailfire API, the HTTP requests that read and *)
(* write it, the Stripe invoices issued for it and the webhook events that  *)
(* report on them (financials/service-fees.service.ts and                   *)
(* financials/stripe-invoice.service.ts).                                   *)
(*                                                                         *)
(* Every handler reads the row, checks it, awaits other calls, then writes  *)
(* by primary key with no condition on what it read, and no handler opens a *)
(* database transaction.  A handler is therefore a sequence of steps, one   *)
(* per awaited call, and the steps of different requests interleave.        *)
(***************************************************************************)
EXTENDS Integers, FiniteSets

CONSTANTS
    Requests,    \* slots for HTTP requests in flight, each used again and again
    Invoices,    \* the invoices Stripe may create (also names their payment intents)
    NoInvoice,   \* a null invoice or payment intent id
    Amounts,     \* the amounts, in cents, a fee may carry
    Operations,  \* the handlers the environment calls
    Faulty,      \* the handlers that may die between two of their steps
    Isolated,    \* TRUE when the environment never overlaps two requests
    External     \* what else happens at Stripe: "failPayment", "dashboardRefund"

AllOperations == {"update", "send", "markPaid", "refund", "cancel", "delete",
                  "invoice", "stripeRefund", "webhook"}

ASSUME ServiceFeesAssumption ==
    /\ Amounts \subseteq Nat \ {0}
    /\ NoInvoice \notin Invoices
    /\ Operations \subseteq AllOperations
    /\ Faulty \subseteq AllOperations
    /\ Isolated \in BOOLEAN
    /\ External \subseteq {"failPayment", "dashboardRefund"}

VARIABLES
    fee,       \* the row of service_fees
    req,       \* what each request slot holds between two awaits
    invoices,  \* Stripe: the invoices and the refunds of their payments
    emitted,   \* Stripe: the events it has created
    acked,     \* Stripe: the events a delivery of which was answered with 2xx
    recorded,  \* the rows of stripe_webhook_events
    notices,   \* trip_notifications: which kinds exist, and the largest refund told
    applied,   \* history: the events whose handler has taken its effect
    peak       \* history: the largest amount the fee has carried

vars == <<fee, req, invoices, emitted, acked, recorded, notices, applied, peak>>
stripe == <<invoices, emitted>>
hooks == <<acked, recorded, applied>>

-----------------------------------------------------------------------------
(* The row, the slots and the events                                        *)

\* The promise of a fee, an atomic specification of the same row.
Lifecycle == INSTANCE FeeLifecycle
    WITH status <- fee.status, amount <- fee.amount, refunded <- fee.refunded

Statuses == Lifecycle!Statuses \cup {"deleted"}

Refundable == {"paid", "partially_refunded"}

Fee(status, amount) ==
    [status |-> status, amount |-> amount, refunded |-> 0,
     invoice |-> NoInvoice, intent |-> NoInvoice, paidAt |-> FALSE]

DeletedFee == Fee("deleted", 0)

Event(kind, i, total) == [kind |-> kind, inv |-> i, total |-> total]
NoEvent == Event("none", NoInvoice, 0)

\* amount and refunded are the values the handler read; n is what it was asked
\* to write or refund; inv the invoice it works on; ev the delivered event.
Idle == [op |-> "none", pc |-> "idle", amount |-> 0, refunded |-> 0, n |-> 0,
         inv |-> NoInvoice, ev |-> NoEvent]

NoStripeInvoice == [state |-> "none", amount |-> 0, refunded |-> 0]

Higher(a, b) == IF a >= b THEN a ELSE b

At(r, op, pc) == req[r].op = op /\ req[r].pc = pc

Goto(r, pc) == req' = [req EXCEPT ![r].pc = pc]

Finish(r) == req' = [req EXCEPT ![r] = Idle]

\* A request arrives: its slot is free and, when the environment is careful,
\* nothing else is in flight.
Start(r, op, pc, amount, refunded, n, i, e) ==
    /\ op \in Operations
    /\ req[r] = Idle
    /\ Isolated => \A q \in Requests : req[q] = Idle
    /\ req' = [req EXCEPT ![r] = [op |-> op, pc |-> pc, amount |-> amount,
                                  refunded |-> refunded, n |-> n, inv |-> i, ev |-> e]]

\* UPDATE service_fees SET ... WHERE id = ...: a deleted row is not touched.
Write(row) == fee' = IF fee.status = "deleted" THEN fee ELSE row

\* The notifications createPaymentReceivedNotification and its siblings insert.
NotifyReceived == notices' = [notices EXCEPT !.received = TRUE]
NotifyOverdue == notices' = [notices EXCEPT !.overdue = TRUE]
NotifyRefund(n) == notices' = [notices EXCEPT !.refund = Higher(@, n)]

Init ==
    /\ fee \in {Fee("draft", a) : a \in Amounts}
    /\ req = [r \in Requests |-> Idle]
    /\ invoices = [i \in Invoices |-> NoStripeInvoice]
    /\ emitted = {} /\ acked = {} /\ recorded = {} /\ applied = {}
    /\ notices = [received |-> FALSE, overdue |-> FALSE, refund |-> 0]
    /\ peak = fee.amount

-----------------------------------------------------------------------------
(* service-fees.service.ts.  The first step of a handler reads the row and   *)
(* makes its checks; a call that fails them changes nothing.                 *)

UpdateRead(r) ==
    /\ fee.status = "draft"
    /\ \E a \in Amounts : Start(r, "update", "write", fee.amount, fee.refunded, a, NoInvoice, NoEvent)
    /\ UNCHANGED <<fee, stripe, hooks, notices, peak>>

UpdateWrite(r) ==
    /\ At(r, "update", "write")
    /\ Write([fee EXCEPT !.amount = req[r].n])
    /\ peak' = Higher(peak, fee'.amount)
    /\ Finish(r)
    /\ UNCHANGED <<stripe, hooks, notices>>

\* Fault: only a deleted fee has no transitions.
TransitionUnchecked(r, op, to) ==
    /\ fee.status # "deleted" /\ fee.status # to
    /\ Start(r, op, "write", fee.amount, fee.refunded, 0, NoInvoice, NoEvent)
    /\ UNCHANGED <<fee, stripe, hooks, notices, peak>>

\* sendServiceFee, markAsPaid and cancelServiceFee check the transition table.
TransitionRead(r, op, to) ==
    /\ to \in Lifecycle!ValidTransitions[fee.status]
    /\ Start(r, op, "write", fee.amount, fee.refunded, 0, NoInvoice, NoEvent)
    /\ UNCHANGED <<fee, stripe, hooks, notices, peak>>

SendRead(r) == TransitionRead(r, "send", "sent")
MarkPaidRead(r) == TransitionRead(r, "markPaid", "paid")
CancelRead(r) == TransitionRead(r, "cancel", "cancelled")

SendWrite(r) ==
    /\ At(r, "send", "write")
    /\ Write([fee EXCEPT !.status = "sent"])
    /\ Finish(r)
    /\ UNCHANGED <<stripe, hooks, notices, peak>>

CancelWrite(r) ==
    /\ At(r, "cancel", "write")
    /\ Write([fee EXCEPT !.status = "cancelled"])
    /\ Finish(r)
    /\ UNCHANGED <<stripe, hooks, notices, peak>>

MarkPaidWrite(r) ==
    /\ At(r, "markPaid", "write")
    /\ Write([fee EXCEPT !.status = "paid", !.paidAt = TRUE])
    /\ Goto(r, "notify")
    /\ UNCHANGED <<stripe, hooks, notices, peak>>

MarkPaidNotify(r) ==
    /\ At(r, "markPaid", "notify")
    /\ NotifyReceived
    /\ Finish(r)
    /\ UNCHANGED <<fee, stripe, hooks, peak>>

\* Fault: a refund of a fee in any status.
RefundAnyStatus(r) ==
    /\ \E n \in (1 .. fee.amount) \cup {fee.amount - fee.refunded} :
        /\ fee.refunded + n <= fee.amount
        /\ Start(r, "refund", "write", fee.amount, fee.refunded, n, NoInvoice, NoEvent)
    /\ UNCHANGED <<fee, stripe, hooks, notices, peak>>

\* Fault: a refund checked against the amount, not against what is left of it.
RefundUnlimited(r) ==
    /\ fee.status \in Refundable
    /\ \E n \in (1 .. fee.amount) \cup {fee.amount - fee.refunded} :
        Start(r, "refund", "write", fee.amount, fee.refunded, n, NoInvoice, NoEvent)
    /\ UNCHANGED <<fee, stripe, hooks, notices, peak>>

\* An absent amount in the request means all that is left.
RefundRead(r) ==
    /\ fee.status \in Refundable
    /\ \E n \in (1 .. fee.amount) \cup {fee.amount - fee.refunded} :
        /\ fee.refunded + n <= fee.amount
        /\ Start(r, "refund", "write", fee.amount, fee.refunded, n, NoInvoice, NoEvent)
    /\ UNCHANGED <<fee, stripe, hooks, notices, peak>>

\* Both refund handlers write the total they worked out from what they read.
RefundWrite(r) ==
    LET total == req[r].refunded + req[r].n
    IN  /\ At(r, "refund", "write") \/ At(r, "stripeRefund", "write")
        /\ Write([fee EXCEPT !.status = Lifecycle!RefundStatus(total, req[r].amount),
                             !.refunded = total])
        /\ Goto(r, "notify")
        /\ UNCHANGED <<stripe, hooks, notices, peak>>

RefundNotify(r) ==
    /\ At(r, "refund", "notify") \/ At(r, "stripeRefund", "notify")
    /\ NotifyRefund(req[r].n)
    /\ Finish(r)
    /\ UNCHANGED <<fee, stripe, hooks, peak>>

DeleteRead(r) ==
    /\ fee.status = "draft"
    /\ Start(r, "delete", "write", fee.amount, fee.refunded, 0, NoInvoice, NoEvent)
    /\ UNCHANGED <<fee, stripe, hooks, notices, peak>>

DeleteWrite(r) ==
    /\ At(r, "delete", "write")
    /\ fee' = DeletedFee
    /\ Finish(r)
    /\ UNCHANGED <<stripe, hooks, notices, peak>>

-----------------------------------------------------------------------------
(* stripe-invoice.service.ts: invoicing and refunding through Stripe         *)

\* Fault: a fee that was sent can be invoiced again.
InvoiceAgain(r) ==
    /\ fee.status \in {"draft", "sent"}
    /\ Start(r, "invoice", "create", fee.amount, fee.refunded, 0, NoInvoice, NoEvent)
    /\ UNCHANGED <<fee, stripe, hooks, notices, peak>>

InvoiceRead(r) ==
    /\ fee.status = "draft"
    /\ Start(r, "invoice", "create", fee.amount, fee.refunded, 0, NoInvoice, NoEvent)
    /\ UNCHANGED <<fee, stripe, hooks, notices, peak>>

\* invoices.create and invoiceItems.create: an invoice no one can pay yet, for
\* the amount that was read.
InvoiceCreate(r) ==
    /\ At(r, "invoice", "create")
    /\ \E i \in Invoices :
        /\ invoices[i].state = "none"
        /\ invoices' = [invoices EXCEPT ![i] = [@ EXCEPT !.state = "draft", !.amount = req[r].amount]]
        /\ req' = [req EXCEPT ![r] = [@ EXCEPT !.pc = "finalize", !.inv = i]]
    /\ UNCHANGED <<fee, emitted, hooks, notices, peak>>

\* finalizeInvoice and sendInvoice: from here the client can pay.
InvoiceFinalize(r) ==
    /\ At(r, "invoice", "finalize")
    /\ invoices' = [invoices EXCEPT ![req[r].inv].state = "open"]
    /\ Goto(r, "write")
    /\ UNCHANGED <<fee, emitted, hooks, notices, peak>>

InvoiceWrite(r) ==
    /\ At(r, "invoice", "write")
    /\ Write([fee EXCEPT !.status = "sent", !.invoice = req[r].inv])
    /\ Finish(r)
    /\ UNCHANGED <<stripe, hooks, notices, peak>>

\* A zero amount in the request means all that is left.
StripeRefundRead(r) ==
    LET left == fee.amount - fee.refunded
    IN  /\ fee.status \in Refundable
        /\ fee.intent # NoInvoice
        /\ \E n \in (1 .. fee.amount) \cup {left} :
            /\ n <= left
            /\ Start(r, "stripeRefund", "stripe", fee.amount, fee.refunded, n, fee.intent, NoEvent)
        /\ UNCHANGED <<fee, stripe, hooks, notices, peak>>

\* Stripe refunds a positive amount of what is left of the payment, for
\* whoever asks, and reports the new total in a charge.refunded event.
TakeRefund(i, n) ==
    /\ invoices[i].state = "paid"
    /\ n > 0
    /\ invoices[i].refunded + n <= invoices[i].amount
    /\ invoices' = [invoices EXCEPT ![i].refunded = @ + n]
    /\ emitted' = emitted \cup {Event("refunded", i, invoices[i].refunded + n)}

StripeRefundCall(r) ==
    /\ At(r, "stripeRefund", "stripe")
    /\ \/ TakeRefund(req[r].inv, req[r].n) /\ Goto(r, "write")
       \/ Finish(r) /\ UNCHANGED stripe        \* refunds.create throws
    /\ UNCHANGED <<fee, hooks, notices, peak>>

-----------------------------------------------------------------------------
(* stripe-invoice.service.ts: the webhook                                    *)

\* Stripe delivers an event as often as it likes, acknowledged or not.
Deliver(r, e) ==
    /\ Start(r, "webhook", "select", 0, 0, 0, NoInvoice, e)
    /\ UNCHANGED <<fee, stripe, hooks, notices, peak>>

\* A handler that returns is answered with 2xx, one that throws with 400.
Acknowledge(r) == Finish(r) /\ acked' = acked \cup {req[r].ev}

WebhookSelect(r) ==
    /\ At(r, "webhook", "select")
    /\ \/ req[r].ev \in recorded /\ Acknowledge(r)
       \/ req[r].ev \notin recorded /\ Goto(r, "insert") /\ UNCHANGED acked
    /\ UNCHANGED <<fee, stripe, recorded, applied, notices, peak>>

\* Fault: event_id is not unique.
WebhookInsertAgain(r) ==
    /\ At(r, "webhook", "insert")
    /\ recorded' = recorded \cup {req[r].ev}
    /\ Goto(r, "handle")
    /\ UNCHANGED <<fee, stripe, acked, applied, notices, peak>>

\* Fault: the event is handled without being recorded.
WebhookUnrecorded(r) ==
    /\ At(r, "webhook", "insert")
    /\ Goto(r, "handle")
    /\ UNCHANGED <<fee, stripe, hooks, notices, peak>>

\* event_id is unique: the second of two concurrent inserts throws.
WebhookInsert(r) ==
    /\ At(r, "webhook", "insert")
    /\ \/ req[r].ev \in recorded /\ Finish(r) /\ UNCHANGED recorded
       \/ /\ req[r].ev \notin recorded
          /\ recorded' = recorded \cup {req[r].ev}
          /\ Goto(r, "handle")
    /\ UNCHANGED <<fee, stripe, acked, applied, notices, peak>>

\* Fault: a payment only counts once the fee says it was sent.
HandleInvoicePaidIfSent(r) ==
    /\ At(r, "webhook", "handle") /\ req[r].ev.kind = "paid"
    /\ \/ /\ fee.status = "sent"
          /\ fee' = [fee EXCEPT !.status = "paid", !.intent = req[r].ev.inv, !.paidAt = TRUE]
          /\ applied' = applied \cup {req[r].ev}
       \/ fee.status # "sent" /\ UNCHANGED <<fee, applied>>
    /\ Goto(r, "notify")
    /\ UNCHANGED <<stripe, acked, recorded, notices, peak>>

\* The payment intent of a paid invoice may be missing from the event.
HandleInvoicePaid(r) ==
    /\ At(r, "webhook", "handle") /\ req[r].ev.kind = "paid"
    /\ \E intent \in {req[r].ev.inv, NoInvoice} :
        Write([fee EXCEPT !.status = "paid", !.intent = intent, !.paidAt = TRUE])
    /\ applied' = applied \cup {req[r].ev}
    /\ Goto(r, "notify")
    /\ UNCHANGED <<stripe, acked, recorded, notices, peak>>

NotifyInvoicePaid(r) ==
    /\ At(r, "webhook", "notify")
    /\ \/ fee.status # "deleted" /\ NotifyReceived
       \/ fee.status = "deleted" /\ UNCHANGED notices
    /\ Acknowledge(r)
    /\ UNCHANGED <<fee, stripe, recorded, applied, peak>>

HandleInvoicePaymentFailed(r) ==
    /\ At(r, "webhook", "handle") /\ req[r].ev.kind = "failed"
    /\ \/ fee.status # "deleted" /\ NotifyOverdue
       \/ fee.status = "deleted" /\ UNCHANGED notices
    /\ applied' = applied \cup {req[r].ev}
    /\ Acknowledge(r)
    /\ UNCHANGED <<fee, stripe, recorded, peak>>

\* Fault: a fee that was refunded in part takes no total from an event.
HandleRefundedOnce(r) ==
    /\ At(r, "webhook", "handle") /\ req[r].ev.kind = "refunded"
    /\ \/ /\ fee.intent = req[r].ev.inv
          /\ fee.status = "paid"
          /\ req' = [req EXCEPT ![r] = [@ EXCEPT !.pc = "apply", !.amount = fee.amount,
                                                 !.n = Higher(fee.refunded, req[r].ev.total)]]
          /\ UNCHANGED <<acked, applied>>
       \/ /\ fee.intent # req[r].ev.inv \/ fee.status # "paid"
          /\ applied' = applied \cup {req[r].ev}
          /\ Acknowledge(r)
    /\ UNCHANGED <<fee, stripe, recorded, notices, peak>>

\* The fee is looked up by payment intent; an event that finds none is done.
HandleChargeRefunded(r) ==
    /\ At(r, "webhook", "handle") /\ req[r].ev.kind = "refunded"
    /\ \/ /\ fee.intent = req[r].ev.inv
          /\ req' = [req EXCEPT ![r] = [@ EXCEPT !.pc = "apply", !.amount = fee.amount,
                                                 !.n = Higher(fee.refunded, req[r].ev.total)]]
          /\ UNCHANGED <<acked, applied>>
       \/ /\ fee.intent # req[r].ev.inv
          /\ applied' = applied \cup {req[r].ev}
          /\ Acknowledge(r)
    /\ UNCHANGED <<fee, stripe, recorded, notices, peak>>

ApplyChargeRefunded(r) ==
    /\ At(r, "webhook", "apply")
    /\ Write([fee EXCEPT !.status = Lifecycle!RefundStatus(req[r].n, req[r].amount),
                         !.refunded = req[r].n])
    /\ applied' = applied \cup {req[r].ev}
    /\ Acknowledge(r)
    /\ UNCHANGED <<stripe, recorded, notices, peak>>

-----------------------------------------------------------------------------
(* Stripe and failures                                                       *)

\* The client pays an invoice once it is finalized.
PayInvoice(i) ==
    /\ invoices[i].state = "open"
    /\ invoices' = [invoices EXCEPT ![i].state = "paid"]
    /\ emitted' = emitted \cup {Event("paid", i, 0)}
    /\ UNCHANGED <<fee, req, hooks, notices, peak>>

FailPayment(i) ==
    /\ "failPayment" \in External
    /\ invoices[i].state = "open"
    /\ emitted' = emitted \cup {Event("failed", i, 0)}
    /\ UNCHANGED <<fee, req, invoices, hooks, notices, peak>>

DashboardRefund(i) ==
    /\ "dashboardRefund" \in External
    /\ \E n \in 1 .. invoices[i].amount : TakeRefund(i, n)
    /\ UNCHANGED <<fee, req, hooks, notices, peak>>

\* A query, a Stripe call or the whole process fails: the request is over and
\* nothing it did is undone.
Die(r) ==
    /\ req[r].op \in Faulty
    /\ Finish(r)
    /\ UNCHANGED <<fee, stripe, hooks, notices, peak>>

Step(r) ==
    \/ UpdateWrite(r) \/ SendWrite(r) \/ CancelWrite(r)
    \/ MarkPaidWrite(r) \/ MarkPaidNotify(r)
    \/ RefundWrite(r) \/ RefundNotify(r) \/ DeleteWrite(r)
    \/ InvoiceCreate(r) \/ InvoiceFinalize(r) \/ InvoiceWrite(r)
    \/ StripeRefundCall(r)
    \/ WebhookSelect(r) \/ WebhookInsert(r)
    \/ HandleInvoicePaid(r) \/ NotifyInvoicePaid(r)
    \/ HandleInvoicePaymentFailed(r)
    \/ HandleChargeRefunded(r) \/ ApplyChargeRefunded(r)

Next ==
    \/ \E r \in Requests :
        \/ UpdateRead(r) \/ SendRead(r) \/ MarkPaidRead(r) \/ CancelRead(r)
        \/ RefundRead(r) \/ DeleteRead(r) \/ InvoiceRead(r) \/ StripeRefundRead(r)
        \/ \E e \in emitted : Deliver(r, e)
        \/ Step(r)
        \/ Die(r)
    \/ \E i \in Invoices : PayInvoice(i) \/ FailPayment(i) \/ DashboardRefund(i)

Spec == Init /\ [][Next]_vars

\* A request that started keeps being served, and Stripe delivers an event
\* again until one of its deliveries is answered with 2xx.
Fairness ==
    /\ \A r \in Requests : WF_vars(Step(r))
    /\ \A i \in Invoices :
        SF_vars(/\ Event("paid", i, 0) \in emitted \ acked
                /\ \E r \in Requests : Deliver(r, Event("paid", i, 0)))

FairSpec == Spec /\ Fairness

-----------------------------------------------------------------------------
(* Properties                                                                *)

Events == [kind : {"paid", "failed"}, inv : Invoices, total : {0}]
              \cup [kind : {"refunded"}, inv : Invoices, total : Nat \ {0}]

FeeRow == [status : Statuses, amount : Nat, refunded : Nat,
           invoice : Invoices \cup {NoInvoice}, intent : Invoices \cup {NoInvoice},
           paidAt : BOOLEAN]

Request == [op : Operations \cup {"none"},
            pc : {"idle", "write", "notify", "create", "finalize", "stripe",
                  "select", "insert", "handle", "apply"},
            amount : Nat, refunded : Nat, n : Int,
            inv : Invoices \cup {NoInvoice}, ev : Events \cup {NoEvent}]

\* Every variable has its type: rows, slots and events are well formed.
TypeOK ==
    /\ fee \in FeeRow
    /\ req \in [Requests -> Request]
    /\ invoices \in [Invoices -> [state : {"none", "draft", "open", "paid"},
                                 amount : Nat, refunded : Nat]]
    /\ emitted \subseteq Events
    /\ acked \subseteq recorded /\ applied \subseteq recorded /\ recorded \subseteq emitted
    /\ notices \in [received : BOOLEAN, overdue : BOOLEAN, refund : Nat]
    /\ peak \in Nat

\* However requests and webhooks overlap, a fee that is paid or refunded was
\* recorded as paid before, and a payment intent on it is one that was paid.
PaidBeforeRefund ==
    /\ fee.status \in Refundable \cup {"refunded"} => fee.paidAt
    /\ fee.refunded > 0 => fee.paidAt
    /\ fee.intent # NoInvoice => invoices[fee.intent].state = "paid"

\* Two refunds that read the same row lose one of the two totals, but no
\* interleaving records more refunded than the fee ever amounted to.
RefundWithinPeak == fee.refunded <= peak

\* An event delivered twice, even at the same time, is applied once: no
\* delivery is about to apply an event another one has applied.
EventAppliedOnce ==
    \A r \in Requests :
        req[r].op = "webhook" /\ req[r].pc \in {"handle", "apply"}
            => req[r].ev \notin applied

\* The invoice a fee points to is one its client can open and pay.
InvoiceIsLive == fee.invoice # NoInvoice => invoices[fee.invoice].state \in {"open", "paid"}

\* A payment notice is only sent for a fee that was recorded as paid (or is
\* gone), and no notice of a refund exceeds what the fee ever amounted to.
NoticesTruthful ==
    /\ notices.received => fee.paidAt \/ fee.status = "deleted"
    /\ notices.refund <= peak

\* What the fee row and the notices tell a reader is true however requests and webhooks overlap.
RowTruthful == PaidBeforeRefund /\ NoticesTruthful /\ InvoiceIsLive

\* What the client has been given back, the row says: whenever no request is
\* in flight and every event has been applied, both ledgers agree.
LedgersAgree ==
    (/\ \A r \in Requests : req[r] = Idle
     /\ emitted \subseteq applied
     /\ fee.intent # NoInvoice)
        => /\ fee.refunded = invoices[fee.intent].refunded
           /\ fee.status = "refunded" <=> fee.refunded = fee.amount

\* At most one invoice for the fee can be paid.
OneLiveInvoice ==
    Cardinality({i \in Invoices : invoices[i].state \in {"open", "paid"}}) <= 1

\* The status only moves along VALID_TRANSITIONS (or a draft is deleted).
FollowsTransitions ==
    [][fee.status' # fee.status =>
          \/ fee.status' \in Lifecycle!ValidTransitions[fee.status]
          \/ fee.status = "draft" /\ fee.status' = "deleted"]_fee

\* The amount only changes while the fee is a draft.
AmountFrozenAfterDraft ==
    [][fee.amount' # fee.amount => fee.status = "draft"]_fee

\* While requests do not overlap, a fee keeps the promise of its lifecycle: the status
\* follows the table, the amount is frozen once it was sent, the refunded total only
\* grows, up to the amount, and the status says whether anything is left.
Promise == Lifecycle!Spec

\* A payment Stripe took is eventually applied to the fee.
PaymentEventuallyApplied ==
    \A i \in Invoices : invoices[i].state = "paid" ~> Event("paid", i, 0) \in applied
=============================================================================
