--------------------------- MODULE ServiceFeesProofs ---------------------------
(***************************************************************************)
(* Theorems about ServiceFees, for any number of requests in flight, any    *)
(* invoices and amounts, and whatever the environment calls and breaks.     *)
(***************************************************************************)
EXTENDS ServiceFees, FiniteSetTheorems, TLAPS

\* What a slot holds between two awaits, by handler: the inductive part of the
\* type invariant.
SlotFine(q, sent, seen) ==
    /\ q.op = "update" => q.n \in Nat
    /\ q.refunded + q.n >= 0
    /\ q.op = "stripeRefund" => q.inv \in Invoices
    /\ q.op = "webhook" => q.ev \in sent /\ q.n \in Nat
    /\ q.op = "webhook" /\ q.pc \in {"handle", "apply", "notify"} => q.ev \in seen

SlotOK == \A r \in Requests : SlotFine(req[r], emitted, recorded)

Typed == TypeOK /\ SlotOK

\* One slot changes to something well formed, the tables of events only grow.
LEMMA SlotTyped ==
    ASSUME Typed, NEW r \in Requests, NEW s \in Request,
           req' = [req EXCEPT ![r] = s], SlotFine(s, emitted', recorded'),
           emitted \subseteq emitted', recorded \subseteq recorded'
    PROVE  req' \in [Requests -> Request] /\ SlotOK'
BY DEF Typed, TypeOK, SlotOK, SlotFine

\* A handler that ends frees its slot.
LEMMA FinishTyped ==
    ASSUME Typed, NEW r \in Requests, Finish(r),
           emitted \subseteq emitted', recorded \subseteq recorded'
    PROVE  req' \in [Requests -> Request] /\ SlotOK'
<1>1. Idle \in Request /\ SlotFine(Idle, emitted', recorded')
  BY DEF Idle, Request, NoEvent, Event, SlotFine
<1> QED
  BY <1>1, SlotTyped DEF Finish

\* A handler that goes on keeps what its slot holds.
LEMMA GotoTyped ==
    ASSUME Typed, NEW r \in Requests,
           NEW pc \in {"write", "notify", "finalize", "insert", "handle", "apply"},
           Goto(r, pc),
           emitted \subseteq emitted', recorded \subseteq recorded',
           req[r].op = "webhook" /\ pc \in {"handle", "apply", "notify"}
               => req[r].ev \in recorded'
    PROVE  req' \in [Requests -> Request] /\ SlotOK'
<1>1. req' \in [Requests -> Request]
  BY DEF Typed, TypeOK, Goto, Request
<1>2. SlotOK'
  BY DEF Typed, TypeOK, SlotOK, SlotFine, Goto, Request
<1> QED
  BY <1>1, <1>2

\* A handler that starts fills its slot and touches nothing else.
LEMMA StartTyped ==
    ASSUME Typed, NEW r \in Requests, NEW s \in Request, SlotFine(s, emitted, recorded),
           req' = [req EXCEPT ![r] = s],
           UNCHANGED <<fee, stripe, hooks, notices, peak>>
    PROVE  Typed'
<1>1. SlotFine(s, emitted', recorded')
  BY DEF SlotFine, stripe, hooks
<1>2. req' \in [Requests -> Request] /\ SlotOK'
  BY <1>1, SlotTyped DEF stripe, hooks
<1> QED
  BY <1>2 DEF Typed, TypeOK, stripe, hooks

\* A row with some of its columns written is still a row.
LEMMA RowTyped ==
    ASSUME NEW f \in FeeRow, NEW s \in Statuses, NEW i \in Invoices \cup {NoInvoice},
           NEW n \in Nat
    PROVE  /\ [f EXCEPT !.status = s] \in FeeRow
           /\ [f EXCEPT !.status = s, !.invoice = i] \in FeeRow
           /\ [f EXCEPT !.status = s, !.refunded = n] \in FeeRow
           /\ [f EXCEPT !.status = s, !.paidAt = TRUE] \in FeeRow
           /\ [f EXCEPT !.status = s, !.intent = i, !.paidAt = TRUE] \in FeeRow
BY DEF FeeRow

\* A slot that takes an amount and a total is still a slot.
LEMMA ApplySlotTyped ==
    ASSUME NEW q \in Request, NEW a \in Nat, NEW n \in Int
    PROVE  [q EXCEPT !.pc = "apply", !.amount = a, !.n = n] \in Request
BY DEF Request

\* The money columns are numbers.
LEMMA RowNat ==
    ASSUME Typed
    PROVE  fee.amount \in Nat /\ fee.refunded \in Nat /\ peak \in Nat
BY DEF Typed, TypeOK, FeeRow

LEMMA InitTyped == Init => Typed
<1> SUFFICES ASSUME Init PROVE Typed
  OBVIOUS
<1>1. PICK a \in Amounts : fee = Fee("draft", a)
  BY DEF Init
<1>2. fee \in FeeRow /\ peak \in Nat
  BY <1>1, ServiceFeesAssumption DEF Init, Fee, FeeRow, Statuses, Lifecycle!Statuses
<1>3. Idle \in Request
  BY DEF Idle, Request, NoEvent, Event, Events
<1>4. TypeOK
  BY <1>2, <1>3 DEF Init, TypeOK, NoStripeInvoice
<1>5. SlotOK
  BY DEF Init, SlotOK, SlotFine, Idle
<1> QED
  BY <1>4, <1>5 DEF Typed

\* Every step of every handler, of Stripe and of a failure keeps the types.
LEMMA NextTyped == Typed /\ [Next]_vars => Typed'
<1> SUFFICES ASSUME Typed, [Next]_vars PROVE Typed'
  OBVIOUS
<1> USE ServiceFeesAssumption DEF Typed
<1>1. ASSUME NEW r \in Requests, UpdateRead(r) PROVE Typed'
  <2>1. PICK a \in Amounts : Start(r, "update", "write", fee.amount, fee.refunded, a, NoInvoice, NoEvent)
    BY <1>1 DEF UpdateRead
  <2> DEFINE s == [op |-> "update", pc |-> "write", amount |-> fee.amount,
                   refunded |-> fee.refunded, n |-> a, inv |-> NoInvoice, ev |-> NoEvent]
  <2>2. s \in Request /\ SlotFine(s, emitted, recorded) /\ req' = [req EXCEPT ![r] = s]
    BY <2>1 DEF Start, TypeOK, FeeRow, Request, SlotFine
  <2> QED
    BY <1>1, <2>2, StartTyped DEF UpdateRead
<1>2. ASSUME NEW r \in Requests, NEW op \in {"send", "markPaid", "cancel"}, NEW to,
             TransitionRead(r, op, to)
      PROVE  Typed'
  <2> DEFINE s == [op |-> op, pc |-> "write", amount |-> fee.amount,
                   refunded |-> fee.refunded, n |-> 0, inv |-> NoInvoice, ev |-> NoEvent]
  <2>1. s \in Request /\ SlotFine(s, emitted, recorded) /\ req' = [req EXCEPT ![r] = s]
    BY <1>2 DEF TransitionRead, Start, TypeOK, FeeRow, Request, SlotFine
  <2> QED
    BY <1>2, <2>1, StartTyped DEF TransitionRead
<1>3. ASSUME NEW r \in Requests, RefundRead(r) PROVE Typed'
  <2>1. PICK n \in (1 .. fee.amount) \cup {fee.amount - fee.refunded} :
          Start(r, "refund", "write", fee.amount, fee.refunded, n, NoInvoice, NoEvent)
    BY <1>3 DEF RefundRead
  <2>2. fee.amount \in Nat /\ fee.refunded \in Nat
    BY RowNat
  <2>3. n \in Int /\ fee.refunded + n >= 0
    BY <2>2
  <2> DEFINE s == [op |-> "refund", pc |-> "write", amount |-> fee.amount,
                   refunded |-> fee.refunded, n |-> n, inv |-> NoInvoice, ev |-> NoEvent]
  <2>4. s \in Request /\ SlotFine(s, emitted, recorded) /\ req' = [req EXCEPT ![r] = s]
    BY <2>1, <2>2, <2>3 DEF Start, TypeOK, FeeRow, Request, SlotFine
  <2> QED
    BY <1>3, <2>4, StartTyped DEF RefundRead
<1>4. ASSUME NEW r \in Requests, DeleteRead(r) \/ InvoiceRead(r) PROVE Typed'
  <2>1. PICK op \in {"delete", "invoice"}, pc \in {"write", "create"} :
          Start(r, op, pc, fee.amount, fee.refunded, 0, NoInvoice, NoEvent)
    BY <1>4 DEF DeleteRead, InvoiceRead
  <2> DEFINE s == [op |-> op, pc |-> pc, amount |-> fee.amount,
                   refunded |-> fee.refunded, n |-> 0, inv |-> NoInvoice, ev |-> NoEvent]
  <2>2. s \in Request /\ SlotFine(s, emitted, recorded) /\ req' = [req EXCEPT ![r] = s]
    BY <2>1 DEF Start, TypeOK, FeeRow, Request, SlotFine
  <2> QED
    BY <1>4, <2>2, StartTyped DEF DeleteRead, InvoiceRead
<1>5. ASSUME NEW r \in Requests, StripeRefundRead(r) PROVE Typed'
  <2>1. PICK n \in (1 .. fee.amount) \cup {fee.amount - fee.refunded} :
          Start(r, "stripeRefund", "stripe", fee.amount, fee.refunded, n, fee.intent, NoEvent)
    BY <1>5 DEF StripeRefundRead
  <2>2. fee.amount \in Nat /\ fee.refunded \in Nat
    BY RowNat
  <2>3. n \in Int /\ fee.refunded + n >= 0
    BY <2>2
  <2> DEFINE s == [op |-> "stripeRefund", pc |-> "stripe", amount |-> fee.amount,
                   refunded |-> fee.refunded, n |-> n, inv |-> fee.intent, ev |-> NoEvent]
  <2>4. fee.intent \in Invoices
    BY <1>5 DEF StripeRefundRead, TypeOK, FeeRow
  <2>5. s \in Request /\ SlotFine(s, emitted, recorded) /\ req' = [req EXCEPT ![r] = s]
    BY <2>1, <2>2, <2>3, <2>4 DEF Start, TypeOK, FeeRow, Request, SlotFine
  <2> QED
    BY <1>5, <2>5, StartTyped DEF StripeRefundRead
<1>6. ASSUME NEW r \in Requests, NEW e \in emitted, Deliver(r, e) PROVE Typed'
  <2> DEFINE s == [op |-> "webhook", pc |-> "select", amount |-> 0,
                   refunded |-> 0, n |-> 0, inv |-> NoInvoice, ev |-> e]
  <2>1. s \in Request /\ SlotFine(s, emitted, recorded) /\ req' = [req EXCEPT ![r] = s]
    BY <1>6 DEF Deliver, Start, TypeOK, Request, SlotFine
  <2> QED
    BY <1>6, <2>1, StartTyped DEF Deliver
<1>7. ASSUME NEW r \in Requests, UpdateWrite(r) PROVE Typed'
  <2> USE <1>7 DEF UpdateWrite
  <2>1. fee' \in FeeRow
    BY DEF TypeOK, SlotOK, SlotFine, At, Write, FeeRow
  <2>2. peak' \in Nat
    BY <2>1 DEF TypeOK, Higher, FeeRow
  <2> QED
    BY <2>1, <2>2, FinishTyped DEF TypeOK, stripe, hooks
<1>8. ASSUME NEW r \in Requests, SendWrite(r) \/ CancelWrite(r) \/ InvoiceWrite(r) PROVE Typed'
  <2>1. {"sent", "cancelled"} \subseteq Statuses /\ req[r].inv \in Invoices \cup {NoInvoice}
    BY DEF Statuses, Lifecycle!Statuses, TypeOK, Request
  <2>2. /\ [fee EXCEPT !.status = "sent"] \in FeeRow
        /\ [fee EXCEPT !.status = "cancelled"] \in FeeRow
        /\ [fee EXCEPT !.status = "sent", !.invoice = req[r].inv] \in FeeRow
    BY <2>1, RowTyped DEF TypeOK
  <2>3. fee' \in FeeRow
    BY <1>8, <2>2 DEF SendWrite, CancelWrite, InvoiceWrite, TypeOK, Write
  <2> QED
    BY <1>8, <2>3, FinishTyped DEF SendWrite, CancelWrite, InvoiceWrite, TypeOK, stripe, hooks
<1>9. ASSUME NEW r \in Requests, MarkPaidWrite(r) PROVE Typed'
  <2>1. fee' \in FeeRow
    BY <1>9 DEF MarkPaidWrite, TypeOK, Write, FeeRow, Statuses, Lifecycle!Statuses
  <2> QED
    BY <1>9, <2>1, GotoTyped DEF MarkPaidWrite, At, TypeOK, stripe, hooks
<1>10. ASSUME NEW r \in Requests, MarkPaidNotify(r) PROVE Typed'
  BY <1>10, FinishTyped DEF MarkPaidNotify, NotifyReceived, TypeOK, stripe, hooks
<1>11. ASSUME NEW r \in Requests, RefundWrite(r) PROVE Typed'
  <2> DEFINE total == req[r].refunded + req[r].n
  <2>1. total \in Nat /\ Lifecycle!RefundStatus(total, req[r].amount) \in Statuses
    BY DEF TypeOK, SlotOK, SlotFine, Request, Statuses, Lifecycle!Statuses, Lifecycle!RefundStatus
  <2>2. fee' \in FeeRow
    BY <1>11, <2>1, RowTyped DEF RefundWrite, TypeOK, Write
  <2> QED
    BY <1>11, <2>2, GotoTyped DEF RefundWrite, At, TypeOK, stripe, hooks
<1>12. ASSUME NEW r \in Requests, RefundNotify(r) PROVE Typed'
  BY <1>12, FinishTyped DEF RefundNotify, NotifyRefund, Higher, TypeOK, Request, stripe, hooks
<1>13. ASSUME NEW r \in Requests, DeleteWrite(r) PROVE Typed'
  BY <1>13, FinishTyped DEF DeleteWrite, DeletedFee, Fee, FeeRow, Statuses, TypeOK, stripe, hooks
<1>14. ASSUME NEW r \in Requests, InvoiceCreate(r) PROVE Typed'
  <2>1. PICK i \in Invoices :
          /\ invoices' = [invoices EXCEPT ![i] = [@ EXCEPT !.state = "draft", !.amount = req[r].amount]]
          /\ req' = [req EXCEPT ![r] = [@ EXCEPT !.pc = "finalize", !.inv = i]]
    BY <1>14 DEF InvoiceCreate
  <2> DEFINE s == [req[r] EXCEPT !.pc = "finalize", !.inv = i]
  <2>2. req[r] \in Request /\ SlotFine(req[r], emitted, recorded) /\ req[r].op = "invoice"
    BY <1>14 DEF TypeOK, SlotOK, InvoiceCreate, At
  <2>3. s \in Request /\ SlotFine(s, emitted', recorded')
    BY <1>14, <2>2 DEF InvoiceCreate, hooks, Request, SlotFine
  <2>4. req' \in [Requests -> Request] /\ SlotOK'
    BY <1>14, <2>1, <2>3, SlotTyped DEF InvoiceCreate, hooks
  <2>5. req[r].amount \in Nat
    BY DEF TypeOK, Request
  <2>6. invoices' \in [Invoices -> [state : {"none", "draft", "open", "paid"},
                                    amount : Nat, refunded : Nat]]
    BY <2>1, <2>5 DEF TypeOK
  <2> QED
    BY <1>14, <2>4, <2>6 DEF InvoiceCreate, TypeOK, hooks
<1>15. ASSUME NEW r \in Requests, InvoiceFinalize(r) PROVE Typed'
  BY <1>15, GotoTyped DEF InvoiceFinalize, At, TypeOK, hooks
<1>16. ASSUME NEW r \in Requests, StripeRefundCall(r) PROVE Typed'
  <2>1. CASE Finish(r) /\ UNCHANGED stripe
    BY <1>16, <2>1, FinishTyped DEF StripeRefundCall, TypeOK, stripe, hooks
  <2>2. CASE TakeRefund(req[r].inv, req[r].n) /\ Goto(r, "write")
    <3>1. req[r].inv \in Invoices
      BY <1>16 DEF StripeRefundCall, At, SlotOK, SlotFine
    <3>2. invoices' \in [Invoices -> [state : {"none", "draft", "open", "paid"},
                                      amount : Nat, refunded : Nat]]
      BY <2>2, <3>1 DEF TakeRefund, TypeOK, Request
    <3>3. emitted \subseteq emitted' /\ emitted' \subseteq Events
      BY <2>2, <3>1 DEF TakeRefund, TypeOK, Request, Event, Events
    <3>4. req' \in [Requests -> Request] /\ SlotOK'
      BY <1>16, <2>2, <3>3, GotoTyped DEF StripeRefundCall, At, hooks
    <3> QED
      BY <1>16, <3>2, <3>3, <3>4 DEF StripeRefundCall, TypeOK, hooks
  <2> QED
    BY <1>16, <2>1, <2>2 DEF StripeRefundCall
<1>17. ASSUME NEW r \in Requests, WebhookSelect(r) PROVE Typed'
  BY <1>17, FinishTyped, GotoTyped DEF WebhookSelect, Acknowledge, At, TypeOK, SlotOK, SlotFine, stripe
<1>18. ASSUME NEW r \in Requests, WebhookInsert(r) PROVE Typed'
  BY <1>18, FinishTyped, GotoTyped DEF WebhookInsert, At, TypeOK, SlotOK, SlotFine, stripe
<1>19. ASSUME NEW r \in Requests, HandleInvoicePaid(r) PROVE Typed'
  <2>1. req[r].ev \in recorded
    BY <1>19 DEF HandleInvoicePaid, At, SlotOK, SlotFine
  <2>2. "paid" \in Statuses /\ req[r].ev.inv \in Invoices
    BY <2>1 DEF Statuses, Lifecycle!Statuses, TypeOK, Events
  <2>3. \A i \in {req[r].ev.inv, NoInvoice} :
          [fee EXCEPT !.status = "paid", !.intent = i, !.paidAt = TRUE] \in FeeRow
    BY <2>2, RowTyped DEF TypeOK
  <2>4. fee' \in FeeRow
    BY <1>19, <2>3 DEF HandleInvoicePaid, TypeOK, Write
  <2> QED
    BY <1>19, <2>1, <2>4, GotoTyped DEF HandleInvoicePaid, TypeOK, stripe
<1>20. ASSUME NEW r \in Requests, NotifyInvoicePaid(r) PROVE Typed'
  BY <1>20, FinishTyped DEF NotifyInvoicePaid, NotifyReceived, Acknowledge, At, TypeOK, SlotOK, SlotFine, stripe
<1>21. ASSUME NEW r \in Requests, HandleInvoicePaymentFailed(r) PROVE Typed'
  BY <1>21, FinishTyped DEF HandleInvoicePaymentFailed, NotifyOverdue, Acknowledge, At, TypeOK, SlotOK, SlotFine, stripe
<1>22. ASSUME NEW r \in Requests, HandleChargeRefunded(r) PROVE Typed'
  <2>1. req[r].ev \in recorded /\ req[r].ev \in Events
    BY <1>22 DEF HandleChargeRefunded, At, SlotOK, SlotFine, TypeOK
  <2>2. CASE fee.intent # req[r].ev.inv
    BY <1>22, <2>1, <2>2, FinishTyped DEF HandleChargeRefunded, Acknowledge, TypeOK, stripe
  <2>3. CASE fee.intent = req[r].ev.inv
    <3>1. req' = [req EXCEPT ![r] = [@ EXCEPT !.pc = "apply", !.amount = fee.amount,
                                              !.n = Higher(fee.refunded, req[r].ev.total)]]
      BY <1>22, <2>3 DEF HandleChargeRefunded
    <3>2. fee.amount \in Nat /\ Higher(fee.refunded, req[r].ev.total) \in Nat
      BY <2>1 DEF TypeOK, FeeRow, Events, Higher
    <3> DEFINE s == [req[r] EXCEPT !.pc = "apply", !.amount = fee.amount,
                                   !.n = Higher(fee.refunded, req[r].ev.total)]
    <3>3. req[r] \in Request /\ SlotFine(req[r], emitted, recorded) /\ req[r].op = "webhook"
      BY <1>22 DEF TypeOK, SlotOK, HandleChargeRefunded, At
    <3>4. Higher(fee.refunded, req[r].ev.total) \in Int
      BY <3>2
    <3>5. s \in Request
      BY <3>2, <3>3, <3>4, ApplySlotTyped
    <3>6. UNCHANGED recorded /\ UNCHANGED emitted
      BY <1>22 DEF HandleChargeRefunded, stripe
    <3>7. SlotFine(s, emitted', recorded')
      BY <2>1, <3>2, <3>3, <3>6 DEF Request, SlotFine
    <3>8. req' \in [Requests -> Request] /\ SlotOK'
      BY <3>1, <3>5, <3>6, <3>7, SlotTyped
    <3> QED
      BY <1>22, <2>3, <3>8 DEF HandleChargeRefunded, Acknowledge, TypeOK, stripe
  <2> QED
    BY <2>2, <2>3
<1>23. ASSUME NEW r \in Requests, ApplyChargeRefunded(r) PROVE Typed'
  <2>1. fee' \in FeeRow
    BY <1>23 DEF ApplyChargeRefunded, At, TypeOK, SlotOK, SlotFine, Write, FeeRow, Request, Statuses, Lifecycle!Statuses, Lifecycle!RefundStatus
  <2> QED
    BY <1>23, <2>1, FinishTyped DEF ApplyChargeRefunded, Acknowledge, At, TypeOK, SlotOK, SlotFine, stripe
<1>24. ASSUME NEW i \in Invoices, PayInvoice(i) \/ FailPayment(i) PROVE Typed'
  BY <1>24 DEF PayInvoice, FailPayment, Event, Events, TypeOK, SlotOK, SlotFine, hooks
<1>25. ASSUME NEW i \in Invoices, DashboardRefund(i) PROVE Typed'
  BY <1>25 DEF DashboardRefund, TakeRefund, Event, Events, TypeOK, SlotOK, SlotFine, hooks
<1>26. ASSUME NEW r \in Requests, Die(r) PROVE Typed'
  BY <1>26, FinishTyped DEF Die, TypeOK, stripe, hooks
<1>27. CASE UNCHANGED vars
  BY <1>27 DEF vars, stripe, hooks, TypeOK, SlotOK, SlotFine
<1> QED
  BY <1>1, <1>2, <1>3, <1>4, <1>5, <1>6, <1>7, <1>8, <1>9, <1>10, <1>11, <1>12, <1>13,
     <1>14, <1>15, <1>16, <1>17, <1>18, <1>19, <1>20, <1>21, <1>22, <1>23, <1>24, <1>25,
     <1>26, <1>27 DEF Next, Step, SendRead, MarkPaidRead, CancelRead

\* Every variable keeps its type in every behaviour.
LEMMA AlwaysTyped == Spec => []Typed
BY InitTyped, NextTyped, PTL DEF Spec

THEOREM TypeCorrect == Spec => []TypeOK
<1>1. Typed => TypeOK
  BY DEF Typed
<1> QED
  BY AlwaysTyped, <1>1, PTL

-----------------------------------------------------------------------------
(* An event is applied once.  EventAppliedOnce is not inductive: that no other *)
(* delivery holds the event too comes from the unique event_id, so a delivery  *)
(* past the insert holds an event that is recorded, and holds it alone.        *)

Handling(r) == req[r].op = "webhook" /\ req[r].pc \in {"handle", "apply"}

OnceInv ==
    /\ EventAppliedOnce
    /\ \A r, q \in Requests :
        Handling(r) /\ Handling(q) /\ req[r].ev = req[q].ev => r = q

\* A step of a slot that is not handling an event afterwards, and applies none.
LEMMA QuietStep ==
    ASSUME OnceInv, NEW r \in Requests, \A q \in Requests \ {r} : req'[q] = req[q],
           ~Handling(r)', UNCHANGED applied
    PROVE  OnceInv'
BY DEF OnceInv, EventAppliedOnce, Handling

\* The delivery that holds an event applies it and is done with it.
LEMMA ApplyStep ==
    ASSUME OnceInv, NEW r \in Requests, \A q \in Requests \ {r} : req'[q] = req[q],
           Handling(r), ~Handling(r)', applied' = applied \cup {req[r].ev}
    PROVE  OnceInv'
BY DEF OnceInv, EventAppliedOnce, Handling

LEMMA NextOnce == OnceInv /\ Typed /\ [Next]_vars => OnceInv'
<1> SUFFICES ASSUME OnceInv, Typed, [Next]_vars PROVE OnceInv'
  OBVIOUS
<1>0. req \in [Requests -> Request] /\ applied \subseteq recorded
  BY DEF Typed, TypeOK
<1>1. ASSUME NEW r \in Requests, NEW op, NEW pc, pc \notin {"handle", "apply"}, NEW a,
             NEW t, NEW n, NEW i, NEW e, Start(r, op, pc, a, t, n, i, e), UNCHANGED hooks
      PROVE  OnceInv'
  BY <1>0, <1>1, QuietStep DEF Start, Handling, hooks
<1>2. ASSUME NEW r \in Requests,
             \/ UpdateRead(r) \/ SendRead(r) \/ MarkPaidRead(r) \/ CancelRead(r)
             \/ RefundRead(r) \/ DeleteRead(r) \/ InvoiceRead(r) \/ StripeRefundRead(r)
      PROVE  OnceInv'
  BY <1>1, <1>2 DEF UpdateRead, SendRead, MarkPaidRead, CancelRead, TransitionRead,
     RefundRead, DeleteRead, InvoiceRead, StripeRefundRead
<1>3. ASSUME NEW r \in Requests, NEW e \in emitted, Deliver(r, e) PROVE OnceInv'
  BY <1>1, <1>3 DEF Deliver
<1>4. ASSUME NEW r \in Requests, Finish(r), UNCHANGED applied PROVE OnceInv'
  BY <1>0, <1>4, QuietStep DEF Finish, Idle, Handling
<1>5. ASSUME NEW r \in Requests, NEW pc, Goto(r, pc), UNCHANGED applied,
             req[r].op # "webhook" \/ pc \notin {"handle", "apply"}
      PROVE  OnceInv'
  BY <1>0, <1>5, QuietStep DEF Goto, Handling
<1>6. ASSUME NEW r \in Requests,
             \/ UpdateWrite(r) \/ SendWrite(r) \/ CancelWrite(r) \/ DeleteWrite(r)
             \/ InvoiceWrite(r) \/ MarkPaidNotify(r) \/ RefundNotify(r) \/ Die(r)
             \/ NotifyInvoicePaid(r)
      PROVE  OnceInv'
  BY <1>4, <1>6 DEF UpdateWrite, SendWrite, CancelWrite, DeleteWrite, InvoiceWrite,
     MarkPaidNotify, RefundNotify, Die, NotifyInvoicePaid, Acknowledge, hooks
<1>7. ASSUME NEW r \in Requests,
             MarkPaidWrite(r) \/ RefundWrite(r) \/ InvoiceFinalize(r) \/ StripeRefundCall(r)
      PROVE  OnceInv'
  BY <1>4, <1>5, <1>7 DEF MarkPaidWrite, RefundWrite, InvoiceFinalize, StripeRefundCall, At, hooks
<1>8. ASSUME NEW r \in Requests, InvoiceCreate(r) PROVE OnceInv'
  BY <1>0, <1>8, QuietStep DEF InvoiceCreate, At, Handling, hooks
<1>9. ASSUME NEW r \in Requests, WebhookSelect(r) PROVE OnceInv'
  BY <1>4, <1>5, <1>9 DEF WebhookSelect, Acknowledge
<1>10. ASSUME NEW r \in Requests, WebhookInsert(r) PROVE OnceInv'
  <2>1. CASE Finish(r) /\ UNCHANGED recorded
    BY <1>4, <1>10, <2>1 DEF WebhookInsert
  <2>2. CASE req[r].ev \notin recorded /\ Goto(r, "handle")
    <3>1. \A q \in Requests : Handling(q) => req[q].ev \in recorded
      BY DEF Typed, SlotOK, SlotFine, Handling
    <3>2. UNCHANGED applied
      BY <1>10 DEF WebhookInsert
    <3> QED
      BY <1>0, <2>2, <3>1, <3>2 DEF Goto, OnceInv, EventAppliedOnce, Handling
  <2> QED
    BY <1>10, <2>1, <2>2 DEF WebhookInsert
<1>11. ASSUME NEW r \in Requests, HandleInvoicePaid(r) PROVE OnceInv'
  BY <1>0, <1>11, ApplyStep DEF HandleInvoicePaid, At, Goto, Handling
<1>12. ASSUME NEW r \in Requests, HandleInvoicePaymentFailed(r) \/ ApplyChargeRefunded(r)
       PROVE  OnceInv'
  BY <1>0, <1>12, ApplyStep DEF HandleInvoicePaymentFailed, ApplyChargeRefunded, Acknowledge,
     At, Finish, Idle, Handling
<1>13. ASSUME NEW r \in Requests, HandleChargeRefunded(r) PROVE OnceInv'
  <2>1. CASE fee.intent # req[r].ev.inv
    BY <1>0, <1>13, <2>1, ApplyStep DEF HandleChargeRefunded, Acknowledge, At, Finish, Idle, Handling
  <2>2. CASE fee.intent = req[r].ev.inv
    <3>1. /\ Handling(r) /\ UNCHANGED applied
          /\ req' = [req EXCEPT ![r] = [@ EXCEPT !.pc = "apply", !.amount = fee.amount,
                                                 !.n = Higher(fee.refunded, req[r].ev.total)]]
      BY <1>13, <2>2 DEF HandleChargeRefunded, At, Handling
    <3>2. req[r] \in Request
      BY <1>0
    <3>3. req'[r].ev = req[r].ev
      BY <1>0, <3>1, <3>2 DEF Request
    <3>4. \A q \in Requests \ {r} : req'[q] = req[q]
      BY <1>0, <3>1
    <3> QED
      BY <3>1, <3>3, <3>4 DEF OnceInv, EventAppliedOnce, Handling
  <2> QED
    BY <2>1, <2>2
<1>14. ASSUME NEW i \in Invoices, PayInvoice(i) \/ FailPayment(i) \/ DashboardRefund(i)
       PROVE  OnceInv'
  BY <1>14 DEF PayInvoice, FailPayment, DashboardRefund, hooks, OnceInv, EventAppliedOnce, Handling
<1>15. CASE UNCHANGED vars
  BY <1>15 DEF vars, hooks, OnceInv, EventAppliedOnce, Handling
<1> QED
  BY <1>2, <1>3, <1>6, <1>7, <1>8, <1>9, <1>10, <1>11, <1>12, <1>13, <1>14, <1>15 DEF Next, Step

LEMMA AlwaysOnce == Spec => []OnceInv
<1>1. Init => OnceInv
  BY DEF Init, OnceInv, EventAppliedOnce, Handling, Idle
<1> QED
  BY <1>1, NextOnce, AlwaysTyped, PTL DEF Spec

\* However often and however concurrently an event is delivered, it is applied
\* once: no delivery is about to apply an event that has been applied.
THEOREM AppliedOnce == Spec => []EventAppliedOnce
<1>1. OnceInv => EventAppliedOnce
  BY DEF OnceInv
<1> QED
  BY <1>1, AlwaysOnce, PTL

-----------------------------------------------------------------------------
(* No refund beyond the peak.  A refund handler writes a total worked out from *)
(* the row it read, so the invariant bounds what every slot, every invoice and *)
(* every event carries, not only the row.                                      *)

PeakSlot(q, p) ==
    /\ q.amount <= p
    /\ q.op \in {"refund", "stripeRefund"} => q.refunded + q.n <= q.amount /\ q.n <= p
    /\ q.op = "webhook" => q.n <= p

PeakStripe ==
    /\ \A i \in Invoices : invoices[i].amount <= peak
    /\ \A e \in emitted : e.total <= peak

PeakRow == fee.amount <= peak /\ fee.refunded <= peak /\ notices.refund <= peak

PeakInv == PeakRow /\ PeakStripe /\ \A r \in Requests : PeakSlot(req[r], peak)

LEMMA PeakStep ==
    ASSUME PeakInv, NEW r \in Requests, \A q \in Requests \ {r} : req'[q] = req[q],
           UNCHANGED peak, PeakSlot(req'[r], peak), PeakRow', PeakStripe'
    PROVE  PeakInv'
BY DEF PeakInv

LEMMA IdlePeak ==
    ASSUME NEW p \in Nat
    PROVE  PeakSlot(Idle, p)
BY DEF PeakSlot, Idle

LEMMA NextPeak == PeakInv /\ Typed /\ [Next]_vars => PeakInv'
<1> SUFFICES ASSUME PeakInv, Typed, [Next]_vars PROVE PeakInv'
  OBVIOUS
<1>0. /\ req \in [Requests -> Request] /\ peak \in Nat
      /\ fee.amount \in Nat /\ fee.refunded \in Nat /\ notices.refund \in Nat
      /\ invoices \in [Invoices -> [state : {"none", "draft", "open", "paid"},
                                    amount : Nat, refunded : Nat]]
  BY DEF Typed, TypeOK, FeeRow
<1>1. PeakRow /\ PeakStripe /\ \A r \in Requests : PeakSlot(req[r], peak)
  BY DEF PeakInv
<1>2. ASSUME NEW r \in Requests, NEW op, NEW pc, NEW t, NEW n, NEW i, NEW e,
             NEW a \in {fee.amount, 0},
             Start(r, op, pc, a, t, n, i, e),
             op \in {"refund", "stripeRefund"} => t + n <= a /\ n <= peak,
             op = "webhook" => n <= peak,
             UNCHANGED <<fee, stripe, hooks, notices, peak>>
      PROVE  PeakInv'
  <2>1. PeakSlot(req'[r], peak) /\ \A q \in Requests \ {r} : req'[q] = req[q]
    BY <1>0, <1>1, <1>2 DEF Start, PeakSlot, PeakRow
  <2>2. PeakRow' /\ PeakStripe'
    BY <1>1, <1>2 DEF PeakRow, PeakStripe, stripe
  <2> QED
    BY <1>2, <2>1, <2>2, PeakStep
<1>3. ASSUME NEW r \in Requests,
             \/ UpdateRead(r) \/ SendRead(r) \/ MarkPaidRead(r) \/ CancelRead(r)
             \/ DeleteRead(r) \/ InvoiceRead(r)
      PROVE  PeakInv'
  BY <1>2, <1>3 DEF UpdateRead, SendRead, MarkPaidRead, CancelRead, TransitionRead,
     DeleteRead, InvoiceRead
<1>4. ASSUME NEW r \in Requests, RefundRead(r) PROVE PeakInv'
  <2>1. PICK n \in (1 .. fee.amount) \cup {fee.amount - fee.refunded} :
          /\ fee.refunded + n <= fee.amount
          /\ Start(r, "refund", "write", fee.amount, fee.refunded, n, NoInvoice, NoEvent)
    BY <1>4 DEF RefundRead
  <2>2. n <= peak
    BY <1>0, <1>1, <2>1 DEF PeakRow
  <2> QED
    BY <1>2, <1>4, <2>1, <2>2 DEF RefundRead
<1>5. ASSUME NEW r \in Requests, StripeRefundRead(r) PROVE PeakInv'
  <2>1. PICK n \in (1 .. fee.amount) \cup {fee.amount - fee.refunded} :
          /\ n <= fee.amount - fee.refunded
          /\ Start(r, "stripeRefund", "stripe", fee.amount, fee.refunded, n, fee.intent, NoEvent)
    BY <1>5 DEF StripeRefundRead
  <2>2. n <= peak /\ fee.refunded + n <= fee.amount
    BY <1>0, <1>1, <2>1 DEF PeakRow
  <2> QED
    BY <1>2, <1>5, <2>1, <2>2 DEF StripeRefundRead
<1>6. ASSUME NEW r \in Requests, NEW e \in emitted, Deliver(r, e) PROVE PeakInv'
  <2>1. Start(r, "webhook", "select", 0, 0, 0, NoInvoice, e) /\ 0 <= peak
    BY <1>0, <1>6 DEF Deliver
  <2> QED
    BY <1>2, <1>6, <2>1 DEF Deliver
\* The slot is freed: only the row and the notices may have changed.
<1>7. ASSUME NEW r \in Requests, Finish(r), UNCHANGED <<stripe, peak>>, PeakRow'
      PROVE  PeakInv'
  <2>1. PeakSlot(req'[r], peak) /\ \A q \in Requests \ {r} : req'[q] = req[q]
    BY <1>0, <1>7, IdlePeak DEF Finish
  <2>2. PeakStripe'
    BY <1>1, <1>7 DEF PeakStripe, stripe
  <2> QED
    BY <1>7, <2>1, <2>2, PeakStep
\* The slot goes on with what it holds.
<1>8. ASSUME NEW r \in Requests, NEW pc, Goto(r, pc), UNCHANGED peak, PeakRow', PeakStripe'
      PROVE  PeakInv'
  <2>1. req[r] \in Request /\ PeakSlot(req[r], peak)
    BY <1>0, <1>1
  <2>2. PeakSlot([req[r] EXCEPT !.pc = pc], peak)
    BY <2>1 DEF PeakSlot, Request
  <2>3. req'[r] = [req[r] EXCEPT !.pc = pc] /\ \A q \in Requests \ {r} : req'[q] = req[q]
    BY <1>0, <1>8 DEF Goto
  <2> QED
    BY <1>8, <2>2, <2>3, PeakStep
<1>9. ASSUME NEW r \in Requests, UpdateWrite(r) PROVE PeakInv'
  <2>1. fee'.amount \in Nat /\ fee'.refunded = fee.refunded
    BY <1>0, <1>9 DEF UpdateWrite, Write, At, Typed, TypeOK, SlotOK, SlotFine, FeeRow
  <2>2. peak' \in Nat /\ peak <= peak' /\ fee'.amount <= peak'
    BY <1>0, <1>9, <2>1 DEF UpdateWrite, Higher
  <2>3. PeakRow'
    BY <1>0, <1>1, <1>9, <2>1, <2>2 DEF UpdateWrite, PeakRow
  <2>4. PeakStripe'
    <3>1. \A i \in Invoices : invoices[i].amount \in Nat
      BY <1>0
    <3>2. \A e \in emitted : e.total \in Nat
      BY DEF Typed, TypeOK, Events
    <3>3. \A i \in Invoices : invoices'[i].amount = invoices[i].amount
      BY <1>9 DEF UpdateWrite, stripe
    <3>4. emitted' = emitted
      BY <1>9 DEF UpdateWrite, stripe
    <3> QED
      BY <1>0, <1>1, <2>2, <3>1, <3>2, <3>3, <3>4 DEF PeakStripe
  <2>5. ASSUME NEW q \in Requests PROVE PeakSlot(req'[q], peak')
    <3>1. CASE q = r
      BY <1>0, <1>9, <2>2, <3>1, IdlePeak DEF UpdateWrite, Finish
    <3>2. CASE q # r
      <4>1. req'[q] = req[q] /\ req[q].amount \in Nat /\ req[q].n \in Int
        BY <1>0, <1>9, <3>2 DEF UpdateWrite, Finish, Request
      <4>2. PeakSlot(req[q], peak)
        BY <1>1
      <4> QED
        BY <1>0, <2>2, <4>1, <4>2 DEF PeakSlot
    <3> QED
      BY <3>1, <3>2
  <2> QED
    BY <2>3, <2>4, <2>5 DEF PeakInv
<1>10. ASSUME NEW r \in Requests,
              \/ SendWrite(r) \/ CancelWrite(r) \/ InvoiceWrite(r) \/ DeleteWrite(r)
       PROVE  PeakInv'
  <2>1. \/ fee'.amount = fee.amount /\ fee'.refunded = fee.refunded
        \/ fee'.amount = 0 /\ fee'.refunded = 0
    <3>1. fee \in FeeRow
      BY DEF Typed, TypeOK
    <3>2. CASE SendWrite(r)
      BY <3>1, <3>2 DEF SendWrite, Write, FeeRow
    <3>3. CASE CancelWrite(r)
      BY <3>1, <3>3 DEF CancelWrite, Write, FeeRow
    <3>4. CASE InvoiceWrite(r)
      BY <3>1, <3>4 DEF InvoiceWrite, Write, FeeRow
    <3>5. CASE DeleteWrite(r)
      BY <3>5 DEF DeleteWrite, DeletedFee, Fee
    <3> QED
      BY <1>10, <3>2, <3>3, <3>4, <3>5
  <2>2. Finish(r) /\ UNCHANGED <<stripe, peak, notices>>
    BY <1>10 DEF SendWrite, CancelWrite, InvoiceWrite, DeleteWrite
  <2> QED
    BY <1>0, <1>1, <1>7, <2>1, <2>2 DEF PeakRow
<1>11. ASSUME NEW r \in Requests, MarkPaidWrite(r) \/ HandleInvoicePaid(r) PROVE PeakInv'
  <2>1. fee'.amount = fee.amount /\ fee'.refunded = fee.refunded
    BY <1>11 DEF MarkPaidWrite, HandleInvoicePaid, Write, Typed, TypeOK, FeeRow
  <2>2. Goto(r, "notify") /\ UNCHANGED <<stripe, peak, notices>>
    BY <1>11 DEF MarkPaidWrite, HandleInvoicePaid
  <2> QED
    BY <1>1, <1>8, <2>1, <2>2 DEF PeakRow, PeakStripe, stripe
<1>12. ASSUME NEW r \in Requests, RefundWrite(r) PROVE PeakInv'
  <2> DEFINE total == req[r].refunded + req[r].n
  <2>1. req[r] \in Request /\ PeakSlot(req[r], peak) /\ req[r].op \in {"refund", "stripeRefund"}
    BY <1>0, <1>1, <1>12 DEF RefundWrite, At
  <2>2. total <= peak
    BY <1>0, <2>1 DEF PeakSlot, Request
  <2>3. fee'.amount = fee.amount /\ fee'.refunded \in {fee.refunded, total}
    BY <1>12 DEF RefundWrite, Write, Typed, TypeOK, FeeRow
  <2>4. Goto(r, "notify") /\ UNCHANGED <<stripe, peak, notices>>
    BY <1>12 DEF RefundWrite
  <2> QED
    BY <1>1, <1>8, <2>2, <2>3, <2>4 DEF PeakRow, PeakStripe, stripe
<1>13. ASSUME NEW r \in Requests, RefundNotify(r) PROVE PeakInv'
  <2>1. req[r] \in Request /\ PeakSlot(req[r], peak) /\ req[r].op \in {"refund", "stripeRefund"}
    BY <1>0, <1>1, <1>13 DEF RefundNotify, At
  <2>2. notices'.refund \in {notices.refund, req[r].n}
    BY <1>13 DEF RefundNotify, NotifyRefund, Higher, Typed, TypeOK
  <2>3. Finish(r) /\ UNCHANGED <<stripe, peak, fee>>
    BY <1>13 DEF RefundNotify
  <2>4. PeakRow'
    BY <1>1, <2>1, <2>2, <2>3 DEF PeakRow, PeakSlot
  <2> QED
    BY <1>7, <2>3, <2>4
<1>14. ASSUME NEW r \in Requests,
              \/ MarkPaidNotify(r) \/ NotifyInvoicePaid(r) \/ HandleInvoicePaymentFailed(r) \/ Die(r)
       PROVE  PeakInv'
  <2>1. notices'.refund = notices.refund /\ UNCHANGED <<stripe, peak, fee>> /\ Finish(r)
    BY <1>14 DEF MarkPaidNotify, NotifyInvoicePaid, HandleInvoicePaymentFailed, Die, Acknowledge,
       NotifyReceived, NotifyOverdue, Typed, TypeOK
  <2> QED
    BY <1>1, <1>7, <2>1 DEF PeakRow
<1>15. ASSUME NEW r \in Requests, InvoiceCreate(r) PROVE PeakInv'
  <2>1. PICK i \in Invoices :
          /\ invoices' = [invoices EXCEPT ![i] = [@ EXCEPT !.state = "draft", !.amount = req[r].amount]]
          /\ req' = [req EXCEPT ![r] = [@ EXCEPT !.pc = "finalize", !.inv = i]]
    BY <1>15 DEF InvoiceCreate
  <2>2. req[r] \in Request /\ PeakSlot(req[r], peak) /\ req[r].op = "invoice"
    BY <1>0, <1>1, <1>15 DEF InvoiceCreate, At
  <2>3. PeakSlot([req[r] EXCEPT !.pc = "finalize", !.inv = i], peak)
    BY <2>2 DEF PeakSlot, Request
  <2>4. PeakSlot(req'[r], peak) /\ \A q \in Requests \ {r} : req'[q] = req[q]
    BY <1>0, <2>1, <2>3
  <2>5. UNCHANGED <<fee, notices, emitted, peak>>
    BY <1>15 DEF InvoiceCreate
  <2>6. \A j \in Invoices : invoices'[j].amount \in {invoices[j].amount, req[r].amount}
    BY <1>0, <2>1
  <2>7. PeakStripe' /\ PeakRow'
    BY <1>1, <2>2, <2>5, <2>6 DEF PeakStripe, PeakRow, PeakSlot
  <2> QED
    BY <2>4, <2>5, <2>7, PeakStep
<1>16. ASSUME NEW r \in Requests, InvoiceFinalize(r) PROVE PeakInv'
  <2>1. \A j \in Invoices : invoices'[j].amount = invoices[j].amount
    BY <1>0, <1>16 DEF InvoiceFinalize
  <2>2. Goto(r, "write") /\ UNCHANGED <<fee, notices, emitted, peak>>
    BY <1>16 DEF InvoiceFinalize
  <2> QED
    BY <1>1, <1>8, <2>1, <2>2 DEF PeakStripe, PeakRow
\* Stripe never refunds more of a payment than its invoice.
<1>17. ASSUME NEW i \in Invoices, NEW n \in Int, TakeRefund(i, n), UNCHANGED peak PROVE PeakStripe'
  <2>1. invoices[i].refunded + n <= peak
    BY <1>0, <1>1, <1>17 DEF TakeRefund, PeakStripe
  <2>2. \A j \in Invoices : invoices'[j].amount = invoices[j].amount
    BY <1>0, <1>17 DEF TakeRefund
  <2>3. \A e \in emitted' : e \in emitted \/ e.total = invoices[i].refunded + n
    BY <1>17 DEF TakeRefund, Event
  <2> QED
    BY <1>1, <1>17, <2>1, <2>2, <2>3 DEF PeakStripe
<1>18. ASSUME NEW r \in Requests, StripeRefundCall(r) PROVE PeakInv'
  <2>1. CASE Finish(r) /\ UNCHANGED stripe
    BY <1>1, <1>7, <1>18, <2>1 DEF StripeRefundCall, PeakRow
  <2>2. CASE TakeRefund(req[r].inv, req[r].n) /\ Goto(r, "write")
    <3>1. req[r].inv \in Invoices /\ req[r].n \in Int
      BY <1>0, <1>18 DEF StripeRefundCall, At, Typed, SlotOK, SlotFine, Request
    <3>2. UNCHANGED <<fee, notices, peak>>
      BY <1>18 DEF StripeRefundCall
    <3>3. PeakStripe'
      BY <1>17, <2>2, <3>1, <3>2
    <3> QED
      BY <1>1, <1>8, <2>2, <3>2, <3>3 DEF PeakRow
  <2> QED
    BY <1>18, <2>1, <2>2 DEF StripeRefundCall
<1>19. ASSUME NEW r \in Requests, WebhookSelect(r) \/ WebhookInsert(r) PROVE PeakInv'
  <2>1. UNCHANGED <<fee, stripe, notices, peak>>
    BY <1>19 DEF WebhookSelect, WebhookInsert
  <2>2. Finish(r) \/ Goto(r, "insert") \/ Goto(r, "handle")
    BY <1>19 DEF WebhookSelect, WebhookInsert, Acknowledge
  <2> QED
    BY <1>1, <1>7, <1>8, <2>1, <2>2 DEF PeakRow, PeakStripe, stripe
<1>20. ASSUME NEW r \in Requests, HandleChargeRefunded(r) PROVE PeakInv'
  <2>1. UNCHANGED <<fee, stripe, notices, peak>>
    BY <1>20 DEF HandleChargeRefunded
  <2>2. CASE fee.intent # req[r].ev.inv
    BY <1>1, <1>7, <1>20, <2>1, <2>2 DEF HandleChargeRefunded, Acknowledge, PeakRow
  <2>3. CASE fee.intent = req[r].ev.inv
    <3> DEFINE n == Higher(fee.refunded, req[r].ev.total)
    <3>1. req' = [req EXCEPT ![r] = [@ EXCEPT !.pc = "apply", !.amount = fee.amount, !.n = n]]
      BY <1>20, <2>3 DEF HandleChargeRefunded
    <3>2. req[r] \in Request /\ req[r].op = "webhook" /\ req[r].ev \in emitted
      BY <1>0, <1>20 DEF HandleChargeRefunded, At, Typed, SlotOK, SlotFine
    <3>3. n <= peak /\ fee.amount <= peak
      BY <1>1, <3>2 DEF PeakRow, PeakStripe, Higher
    <3>4. PeakSlot([req[r] EXCEPT !.pc = "apply", !.amount = fee.amount, !.n = n], peak)
      BY <3>2, <3>3 DEF PeakSlot, Request
    <3>5. PeakSlot(req'[r], peak) /\ \A q \in Requests \ {r} : req'[q] = req[q]
      BY <1>0, <3>1, <3>4
    <3>6. PeakRow' /\ PeakStripe'
      BY <1>1, <2>1 DEF PeakRow, PeakStripe, stripe
    <3> QED
      BY <2>1, <3>5, <3>6, PeakStep
  <2> QED
    BY <2>2, <2>3
<1>21. ASSUME NEW r \in Requests, ApplyChargeRefunded(r) PROVE PeakInv'
  <2>1. req[r] \in Request /\ PeakSlot(req[r], peak) /\ req[r].op = "webhook"
    BY <1>0, <1>1, <1>21 DEF ApplyChargeRefunded, At
  <2>2. fee'.amount = fee.amount /\ fee'.refunded \in {fee.refunded, req[r].n}
    BY <1>21 DEF ApplyChargeRefunded, Write, Typed, TypeOK, FeeRow
  <2>3. Finish(r) /\ UNCHANGED <<stripe, peak, notices>>
    BY <1>21 DEF ApplyChargeRefunded, Acknowledge
  <2> QED
    BY <1>1, <1>7, <2>1, <2>2, <2>3 DEF PeakRow, PeakSlot
<1>22. ASSUME NEW i \in Invoices, PayInvoice(i) \/ FailPayment(i) PROVE PeakInv'
  <2>1. UNCHANGED <<fee, req, notices, peak>>
    BY <1>22 DEF PayInvoice, FailPayment
  <2>2. \A j \in Invoices : invoices'[j].amount = invoices[j].amount
    BY <1>0, <1>22 DEF PayInvoice, FailPayment
  <2>3. \A e \in emitted' : e \in emitted \/ e.total = 0
    BY <1>22 DEF PayInvoice, FailPayment, Event
  <2> QED
    BY <1>0, <1>1, <2>1, <2>2, <2>3 DEF PeakInv, PeakRow, PeakStripe
<1>23. ASSUME NEW i \in Invoices, DashboardRefund(i) PROVE PeakInv'
  <2>1. PICK n \in 1 .. invoices[i].amount : TakeRefund(i, n)
    BY <1>23 DEF DashboardRefund
  <2>2. UNCHANGED <<fee, req, notices, peak>>
    BY <1>23 DEF DashboardRefund
  <2>3. PeakStripe'
    BY <1>0, <1>17, <2>1, <2>2
  <2> QED
    BY <1>1, <2>2, <2>3 DEF PeakInv, PeakRow
<1>24. CASE UNCHANGED vars
  BY <1>24 DEF vars, stripe, PeakInv, PeakRow, PeakStripe
<1> QED
  BY <1>3, <1>4, <1>5, <1>6, <1>9, <1>10, <1>11, <1>12, <1>13, <1>14, <1>15, <1>16, <1>18,
     <1>19, <1>20, <1>21, <1>22, <1>23, <1>24 DEF Next, Step

LEMMA InitPeak == Init /\ Typed => PeakInv
<1> SUFFICES ASSUME Init, Typed PROVE PeakInv
  OBVIOUS
<1>1. peak \in Nat /\ fee.amount = peak /\ fee.refunded = 0
  BY DEF Init, Fee, Typed, TypeOK
<1>2. PeakRow /\ PeakStripe
  BY <1>1 DEF Init, PeakRow, PeakStripe, NoStripeInvoice
<1> QED
  BY <1>1, <1>2, IdlePeak DEF Init, PeakInv

\* No interleaving of edits, refunds, invoices and webhooks records more
\* refunded than the fee ever amounted to.
THEOREM NeverOverRefunded == Spec => []RefundWithinPeak
<1>1. PeakInv => RefundWithinPeak
  BY DEF PeakInv, PeakRow, RefundWithinPeak
<1> QED
  BY <1>1, InitPeak, InitTyped, NextPeak, AlwaysTyped, PTL DEF Spec

-----------------------------------------------------------------------------
(* What the row and the notices tell is true.  A handler writes what it made   *)
(* of an earlier state, so the invariant says what every slot may rely on: a   *)
(* refund, and a delivery that has looked the fee up, find a fee that was      *)
(* recorded as paid (or is gone), and an invoice is not final before the       *)
(* request that created it says so.                                            *)

Recorded(f) == f.paidAt \/ f.status = "deleted"

Live == {"open", "paid"}

\* The points at which a handler relies on a fee that was paid.
Relies(q) ==
    \/ q.op \in {"refund", "stripeRefund"}
    \/ q.op = "webhook" /\ q.pc \in {"apply", "notify"}
    \/ q.op = "markPaid" /\ q.pc = "notify"

Finalizing(q) == q.op = "invoice" /\ q.pc = "finalize"

RowSlot(q, f, invs) ==
    /\ Relies(q) => Recorded(f)
    /\ Finalizing(q) => q.inv \in Invoices /\ invs[q.inv].state = "draft"
    /\ q.op = "invoice" /\ q.pc = "write" => q.inv \in Invoices /\ invs[q.inv].state \in Live

RowFine(f, invs) ==
    /\ f.status \in Refundable \cup {"refunded"} => f.paidAt
    /\ f.refunded > 0 => f.paidAt
    /\ f.intent # NoInvoice => f.paidAt /\ invs[f.intent].state = "paid"
    /\ f.invoice # NoInvoice => invs[f.invoice].state \in Live

EventsFine(sent, invs) == \A e \in sent : e.kind = "paid" => invs[e.inv].state = "paid"

RowInv ==
    /\ RowFine(fee, invoices) /\ EventsFine(emitted, invoices)
    /\ notices.received => Recorded(fee)
    /\ \A r \in Requests : RowSlot(req[r], fee, invoices)
    /\ \A r, q \in Requests :
        Finalizing(req[r]) /\ Finalizing(req[q]) /\ req[r].inv = req[q].inv => r = q

\* A step of one slot that leaves Stripe alone.
LEMMA RowStep ==
    ASSUME RowInv, NEW r \in Requests, NEW s, req' = [req EXCEPT ![r] = s],
           req \in [Requests -> Request],
           UNCHANGED stripe, RowFine(fee', invoices), Recorded(fee) => Recorded(fee'),
           notices'.received => notices.received \/ Recorded(fee'),
           RowSlot(s, fee', invoices), ~Finalizing(s)
    PROVE  RowInv'
<1>1. req'[r] = s /\ \A q \in Requests \ {r} : req'[q] = req[q]
  OBVIOUS
<1>2. invoices' = invoices /\ emitted' = emitted
  BY DEF stripe
<1>3. \A q \in Requests : RowSlot(req'[q], fee', invoices)
  BY <1>1 DEF RowInv, RowSlot
<1>4. \A q, p \in Requests :
        Finalizing(req'[p]) /\ Finalizing(req'[q]) /\ req'[p].inv = req'[q].inv => p = q
  BY <1>1 DEF RowInv
<1> QED
  BY <1>2, <1>3, <1>4 DEF RowInv

\* A step of Stripe: no invoice falls back, and those a request is about to make final stay.
LEMMA InvoicesStep ==
    ASSUME RowInv, Typed, UNCHANGED <<fee, notices>>,
           \A i \in Invoices : /\ invoices[i].state \in Live => invoices'[i].state \in Live
                               /\ invoices[i].state = "paid" => invoices'[i].state = "paid"
    PROVE  /\ RowFine(fee', invoices') /\ (notices'.received => Recorded(fee'))
           /\ \A e \in emitted : e.kind = "paid" => invoices'[e.inv].state = "paid"
           /\ \A r \in Requests :
                /\ Relies(req[r]) => Recorded(fee')
                /\ req[r].op = "invoice" /\ req[r].pc = "write" =>
                        req[r].inv \in Invoices /\ invoices'[req[r].inv].state \in Live
<1>1. \A e \in emitted : e.inv \in Invoices
  BY DEF Typed, TypeOK, Events
<1>2. fee.intent \in Invoices \cup {NoInvoice} /\ fee.invoice \in Invoices \cup {NoInvoice}
  BY DEF Typed, TypeOK, FeeRow
<1>3. RowFine(fee, invoices')
  BY <1>2 DEF RowInv, RowFine
<1>4. \A e \in emitted : e.kind = "paid" => invoices'[e.inv].state = "paid"
  BY <1>1 DEF RowInv, EventsFine
<1>5. \A r \in Requests :
        /\ Relies(req[r]) => Recorded(fee')
        /\ req[r].op = "invoice" /\ req[r].pc = "write" =>
                req[r].inv \in Invoices /\ invoices'[req[r].inv].state \in Live
  BY DEF RowInv, RowSlot
<1> QED
  BY <1>3, <1>4, <1>5 DEF RowInv

LEMMA IdleRow == ASSUME NEW f, NEW invs PROVE RowSlot(Idle, f, invs) /\ ~Finalizing(Idle)
BY DEF RowSlot, Idle, Relies, Finalizing

LEMMA NextRow == RowInv /\ Typed /\ [Next]_vars => RowInv'
<1> SUFFICES ASSUME RowInv, Typed, [Next]_vars PROVE RowInv'
  OBVIOUS
<1>0. /\ req \in [Requests -> Request] /\ fee \in FeeRow /\ \A r \in Requests : req[r] \in Request
      /\ invoices \in [Invoices -> [state : {"none", "draft", "open", "paid"},
                                    amount : Nat, refunded : Nat]]
  BY DEF Typed, TypeOK
<1>1. /\ RowFine(fee, invoices) /\ EventsFine(emitted, invoices)
      /\ notices.received => Recorded(fee)
      /\ \A r \in Requests : RowSlot(req[r], fee, invoices)
  BY DEF RowInv
\* A handler starts.
<1>2. ASSUME NEW r \in Requests, NEW op, NEW pc \in {"write", "create", "stripe", "select"},
             NEW a, NEW t, NEW n, NEW i, NEW e,
             Start(r, op, pc, a, t, n, i, e),
             op = "invoice" => pc # "write",
             op \in {"refund", "stripeRefund"} => Recorded(fee),
             UNCHANGED <<fee, stripe, hooks, notices, peak>>
      PROVE  RowInv'
  <2> DEFINE s == [op |-> op, pc |-> pc, amount |-> a, refunded |-> t, n |-> n, inv |-> i,
                   ev |-> e]
  <2>1. req' = [req EXCEPT ![r] = s]
    BY <1>2 DEF Start
  <2>2. RowSlot(s, fee, invoices) /\ ~Finalizing(s)
    BY <1>2 DEF RowSlot, Relies, Finalizing
  <2> HIDE DEF s
  <2> QED
    BY <1>0, <1>1, <1>2, <2>1, <2>2, RowStep
<1>3. ASSUME NEW r \in Requests,
             \/ UpdateRead(r) \/ SendRead(r) \/ MarkPaidRead(r) \/ CancelRead(r)
             \/ DeleteRead(r) \/ InvoiceRead(r)
      PROVE  RowInv'
  BY <1>2, <1>3 DEF UpdateRead, SendRead, MarkPaidRead, CancelRead, TransitionRead,
     DeleteRead, InvoiceRead
<1>4. ASSUME NEW r \in Requests, RefundRead(r) \/ StripeRefundRead(r) PROVE RowInv'
  <2>1. Recorded(fee)
    BY <1>1, <1>4 DEF RefundRead, StripeRefundRead, RowFine, Recorded
  <2> QED
    BY <1>2, <1>4, <2>1 DEF RefundRead, StripeRefundRead
<1>5. ASSUME NEW r \in Requests, NEW e \in emitted, Deliver(r, e) PROVE RowInv'
  BY <1>2, <1>5 DEF Deliver
\* A slot is freed, and the row or the notices may have changed, ...
<1>6. ASSUME NEW r \in Requests, Finish(r), UNCHANGED stripe, RowFine(fee', invoices),
             Recorded(fee) => Recorded(fee'), notices'.received => notices.received \/ Recorded(fee')
      PROVE  RowInv'
  BY <1>0, <1>6, IdleRow, RowStep DEF Finish
\* ... or goes on with what it holds.
<1>7. ASSUME NEW r \in Requests, NEW pc, Goto(r, pc), UNCHANGED <<stripe, notices>>,
             RowFine(fee', invoices), Recorded(fee) => Recorded(fee'),
             RowSlot([req[r] EXCEPT !.pc = pc], fee', invoices), req[r].op # "invoice"
      PROVE  RowInv'
  <2> DEFINE s == [req[r] EXCEPT !.pc = pc]
  <2>1. req' = [req EXCEPT ![r] = s]
    BY <1>0, <1>7 DEF Goto
  <2>2. ~Finalizing(s)
    BY <1>0, <1>7 DEF Finalizing, Request
  <2>3. RowSlot(s, fee', invoices) /\ (notices'.received => notices.received \/ Recorded(fee'))
    BY <1>7
  <2> HIDE DEF s
  <2> QED
    BY <1>0, <1>7, <2>1, <2>2, <2>3, RowStep
<1>8. ASSUME NEW r \in Requests, UpdateWrite(r) \/ SendWrite(r) \/ CancelWrite(r) \/ DeleteWrite(r)
      PROVE  RowInv'
  <2>1. RowFine(fee', invoices) /\ (Recorded(fee) => Recorded(fee'))
    <3>1. CASE UpdateWrite(r)
      BY <1>0, <1>1, <3>1 DEF UpdateWrite, Write, FeeRow, RowFine, Recorded
    <3>2. CASE SendWrite(r)
      BY <1>0, <1>1, <3>2 DEF SendWrite, Write, FeeRow, RowFine, Recorded, Refundable
    <3>3. CASE CancelWrite(r)
      BY <1>0, <1>1, <3>3 DEF CancelWrite, Write, FeeRow, RowFine, Recorded, Refundable
    <3>4. CASE DeleteWrite(r)
      BY <3>4 DEF DeleteWrite, DeletedFee, Fee, RowFine, Recorded, Refundable
    <3> QED
      BY <1>8, <3>1, <3>2, <3>3, <3>4
  <2>2. Finish(r) /\ UNCHANGED <<stripe, notices>>
    BY <1>8 DEF UpdateWrite, SendWrite, CancelWrite, DeleteWrite
  <2> QED
    BY <1>6, <2>1, <2>2
<1>9. ASSUME NEW r \in Requests, InvoiceWrite(r) PROVE RowInv'
  <2>1. req[r].inv \in Invoices /\ invoices[req[r].inv].state \in Live
    BY <1>1, <1>9 DEF InvoiceWrite, At, RowSlot
  <2>2. RowFine(fee', invoices) /\ (Recorded(fee) => Recorded(fee'))
    BY <1>0, <1>1, <1>9, <2>1 DEF InvoiceWrite, Write, FeeRow, RowFine, Recorded, Refundable
  <2> QED
    BY <1>6, <1>9, <2>2 DEF InvoiceWrite
<1>10. ASSUME NEW r \in Requests, MarkPaidWrite(r) PROVE RowInv'
  <2>1. RowFine(fee', invoices) /\ Recorded(fee')
    BY <1>0, <1>1, <1>10 DEF MarkPaidWrite, Write, FeeRow, RowFine, Recorded
  <2>2. RowSlot([req[r] EXCEPT !.pc = "notify"], fee', invoices) /\ req[r].op # "invoice"
    BY <1>0, <1>10, <2>1 DEF MarkPaidWrite, At, RowSlot, Request, Finalizing
  <2> QED
    BY <1>7, <1>10, <2>1, <2>2 DEF MarkPaidWrite
<1>11. ASSUME NEW r \in Requests, RefundWrite(r) PROVE RowInv'
  <2> DEFINE total == req[r].refunded + req[r].n
             status == Lifecycle!RefundStatus(total, req[r].amount)
  <2>1. Recorded(fee) /\ req[r].op \in {"refund", "stripeRefund"}
    BY <1>1, <1>11 DEF RefundWrite, At, RowSlot, Relies
  <2>2. fee' = IF fee.status = "deleted" THEN fee
               ELSE [fee EXCEPT !.status = status, !.refunded = total]
    BY <1>11 DEF RefundWrite, Write
  <2> HIDE DEF status, total
  <2>3. RowFine(fee', invoices) /\ Recorded(fee')
    BY <1>0, <1>1, <2>1, <2>2 DEF FeeRow, RowFine, Recorded
  <2>4. RowSlot([req[r] EXCEPT !.pc = "notify"], fee', invoices)
    BY <1>0, <2>1, <2>3 DEF RowSlot, Request, Finalizing
  <2>5. Goto(r, "notify") /\ UNCHANGED <<stripe, notices>>
    BY <1>11 DEF RefundWrite
  <2> QED
    BY <1>7, <2>1, <2>3, <2>4, <2>5
<1>12. ASSUME NEW r \in Requests, MarkPaidNotify(r) PROVE RowInv'
  <2>1. Recorded(fee)
    BY <1>1, <1>12 DEF MarkPaidNotify, At, RowSlot, Relies
  <2> QED
    BY <1>1, <1>6, <1>12, <2>1 DEF MarkPaidNotify
<1>13. ASSUME NEW r \in Requests,
              RefundNotify(r) \/ HandleInvoicePaymentFailed(r) \/ Die(r)
       PROVE  RowInv'
  <2>1. notices'.received = notices.received /\ UNCHANGED <<stripe, fee>> /\ Finish(r)
    BY <1>13 DEF RefundNotify, HandleInvoicePaymentFailed, Die, Acknowledge,
       NotifyRefund, NotifyOverdue, Typed, TypeOK
  <2> QED
    BY <1>1, <1>6, <2>1
<1>14. ASSUME NEW r \in Requests, NotifyInvoicePaid(r) PROVE RowInv'
  <2>1. Recorded(fee)
    BY <1>1, <1>14 DEF NotifyInvoicePaid, At, RowSlot, Relies
  <2> QED
    BY <1>1, <1>6, <1>14, <2>1 DEF NotifyInvoicePaid, Acknowledge
<1>15. ASSUME NEW r \in Requests, WebhookSelect(r) \/ WebhookInsert(r) PROVE RowInv'
  <2>1. UNCHANGED <<fee, stripe, notices>> /\ req[r].op = "webhook"
    BY <1>15 DEF WebhookSelect, WebhookInsert, At
  <2>2. Finish(r) \/ Goto(r, "insert") \/ Goto(r, "handle")
    BY <1>15 DEF WebhookSelect, WebhookInsert, Acknowledge
  <2>3. \A pc \in {"insert", "handle"} : RowSlot([req[r] EXCEPT !.pc = pc], fee', invoices)
    BY <1>0, <2>1 DEF RowSlot, Request, Finalizing, Relies
  <2> QED
    BY <1>1, <1>6, <1>7, <2>1, <2>2, <2>3
<1>16. ASSUME NEW r \in Requests, HandleInvoicePaid(r) PROVE RowInv'
  <2>1. req[r].op = "webhook" /\ req[r].ev.kind = "paid" /\ req[r].ev \in emitted
    BY <1>16 DEF HandleInvoicePaid, At, Typed, SlotOK, SlotFine
  <2>2. invoices[req[r].ev.inv].state = "paid"
    BY <1>1, <2>1 DEF EventsFine
  <2>3. PICK intent \in {req[r].ev.inv, NoInvoice} :
            Write([fee EXCEPT !.status = "paid", !.intent = intent, !.paidAt = TRUE])
    BY <1>16 DEF HandleInvoicePaid
  <2>4. RowFine(fee', invoices) /\ Recorded(fee')
    BY <1>0, <1>1, <2>2, <2>3 DEF Write, FeeRow, RowFine, Recorded
  <2>5. RowSlot([req[r] EXCEPT !.pc = "notify"], fee', invoices)
    BY <1>0, <2>1, <2>4 DEF RowSlot, Request, Finalizing
  <2> QED
    BY <1>7, <1>16, <2>1, <2>4, <2>5 DEF HandleInvoicePaid
<1>17. ASSUME NEW r \in Requests, HandleChargeRefunded(r) PROVE RowInv'
  <2>1. UNCHANGED <<fee, stripe, notices>> /\ req[r].op = "webhook"
    BY <1>17 DEF HandleChargeRefunded, At
  <2>2. CASE fee.intent # req[r].ev.inv
    BY <1>1, <1>6, <1>17, <2>1, <2>2 DEF HandleChargeRefunded, Acknowledge
  <2>3. CASE fee.intent = req[r].ev.inv
    <3>1. req[r].ev \in Events
      BY <1>17 DEF HandleChargeRefunded, At, Typed, SlotOK, SlotFine, TypeOK
    <3>2. Recorded(fee)
      BY <1>1, <2>3, <3>1, ServiceFeesAssumption DEF Events, RowFine, Recorded
    <3> DEFINE s == [req[r] EXCEPT !.pc = "apply", !.amount = fee.amount,
                                   !.n = Higher(fee.refunded, req[r].ev.total)]
    <3>3. req' = [req EXCEPT ![r] = s]
      BY <1>0, <1>17, <2>3 DEF HandleChargeRefunded
    <3>4. RowSlot(s, fee', invoices) /\ ~Finalizing(s)
      BY <1>0, <2>1, <3>2 DEF RowSlot, Request, Finalizing
    <3> HIDE DEF s
    <3> QED
      BY <1>0, <1>1, <2>1, <3>3, <3>4, RowStep
  <2> QED
    BY <2>2, <2>3
<1>18. ASSUME NEW r \in Requests, ApplyChargeRefunded(r) PROVE RowInv'
  <2> DEFINE total == req[r].n
             status == Lifecycle!RefundStatus(total, req[r].amount)
  <2>1. Recorded(fee)
    BY <1>1, <1>18 DEF ApplyChargeRefunded, At, RowSlot, Relies
  <2>2. fee' = IF fee.status = "deleted" THEN fee
               ELSE [fee EXCEPT !.status = status, !.refunded = total]
    BY <1>18 DEF ApplyChargeRefunded, Write
  <2> HIDE DEF status, total
  <2>3. RowFine(fee', invoices) /\ Recorded(fee')
    BY <1>0, <1>1, <2>1, <2>2 DEF FeeRow, RowFine, Recorded
  <2> QED
    BY <1>6, <1>18, <2>3 DEF ApplyChargeRefunded, Acknowledge
\* Stripe's invoices move forward only.
<1>19. ASSUME NEW r \in Requests, InvoiceCreate(r) PROVE RowInv'
  <2>1. PICK i \in Invoices :
          /\ invoices[i].state = "none"
          /\ invoices' = [invoices EXCEPT ![i] = [@ EXCEPT !.state = "draft", !.amount = req[r].amount]]
          /\ req' = [req EXCEPT ![r] = [@ EXCEPT !.pc = "finalize", !.inv = i]]
    BY <1>19 DEF InvoiceCreate
  <2>2. /\ req'[r].op = "invoice" /\ req'[r].pc = "finalize" /\ req'[r].inv = i
        /\ \A q \in Requests \ {r} : req'[q] = req[q]
    BY <1>0, <1>19, <2>1 DEF InvoiceCreate, At, Request
  <2>3. /\ invoices'[i].state = "draft"
        /\ \A j \in Invoices \ {i} : invoices'[j] = invoices[j]
    BY <1>0, <2>1
  <2>4. UNCHANGED <<fee, notices, emitted>>
    BY <1>19 DEF InvoiceCreate
  <2>5. \A j \in Invoices : /\ invoices[j].state \in Live => invoices'[j].state \in Live
                            /\ invoices[j].state = "paid" => invoices'[j].state = "paid"
    BY <2>1, <2>3 DEF Live
  <2>6. /\ RowFine(fee', invoices') /\ (notices'.received => Recorded(fee'))
        /\ EventsFine(emitted', invoices')
        /\ \A q \in Requests :
                /\ Relies(req[q]) => Recorded(fee')
                /\ req[q].op = "invoice" /\ req[q].pc = "write" =>
                        req[q].inv \in Invoices /\ invoices'[req[q].inv].state \in Live
    BY <2>4, <2>5, InvoicesStep DEF EventsFine
  <2>7. \A q \in Requests \ {r} : Finalizing(req[q]) => req[q].inv \in Invoices \ {i}
    BY <1>1, <2>1 DEF RowSlot
  <2>8. \A q \in Requests : RowSlot(req'[q], fee', invoices')
    BY <1>1, <2>2, <2>3, <2>6, <2>7 DEF RowSlot, Finalizing, Relies
  <2>9. \A q, p \in Requests :
            Finalizing(req'[p]) /\ Finalizing(req'[q]) /\ req'[p].inv = req'[q].inv => p = q
    BY <2>2, <2>7 DEF RowInv
  <2> QED
    BY <2>6, <2>8, <2>9 DEF RowInv
<1>20. ASSUME NEW r \in Requests, InvoiceFinalize(r) PROVE RowInv'
  <2> DEFINE i == req[r].inv
  <2>1. i \in Invoices /\ invoices[i].state = "draft" /\ Finalizing(req[r])
    BY <1>1, <1>20 DEF InvoiceFinalize, At, RowSlot, Finalizing
  <2>2. /\ invoices'[i].state = "open"
        /\ \A j \in Invoices \ {i} : invoices'[j] = invoices[j]
    BY <1>0, <1>20, <2>1 DEF InvoiceFinalize
  <2>3. /\ req'[r].op = "invoice" /\ req'[r].pc = "write" /\ req'[r].inv = i
        /\ \A q \in Requests \ {r} : req'[q] = req[q]
    BY <1>0, <1>20 DEF InvoiceFinalize, At, Request, Goto
  <2>4. UNCHANGED <<fee, notices, emitted>>
    BY <1>20 DEF InvoiceFinalize
  <2>5. \A j \in Invoices : /\ invoices[j].state \in Live => invoices'[j].state \in Live
                            /\ invoices[j].state = "paid" => invoices'[j].state = "paid"
    BY <2>1, <2>2 DEF Live
  <2>6. /\ RowFine(fee', invoices') /\ (notices'.received => Recorded(fee'))
        /\ EventsFine(emitted', invoices')
        /\ \A q \in Requests :
                /\ Relies(req[q]) => Recorded(fee')
                /\ req[q].op = "invoice" /\ req[q].pc = "write" =>
                        req[q].inv \in Invoices /\ invoices'[req[q].inv].state \in Live
    BY <2>4, <2>5, InvoicesStep DEF EventsFine
  <2>7. \A q \in Requests \ {r} : Finalizing(req[q]) => req[q].inv \in Invoices \ {i}
    BY <1>1, <2>1 DEF RowSlot, RowInv
  <2> HIDE DEF i
  <2>8. \A q \in Requests : RowSlot(req'[q], fee', invoices')
    <3>1. RowSlot(req'[r], fee', invoices')
      BY <2>1, <2>2, <2>3 DEF RowSlot, Relies, Finalizing, Live
    <3>2. \A q \in Requests \ {r} : RowSlot(req'[q], fee', invoices')
      BY <1>1, <2>2, <2>3, <2>6, <2>7 DEF RowSlot
    <3> QED
      BY <3>1, <3>2
  <2>9. ~Finalizing(req'[r])
    BY <2>3 DEF Finalizing
  <2>10. \A q, p \in Requests :
            Finalizing(req'[p]) /\ Finalizing(req'[q]) /\ req'[p].inv = req'[q].inv => p = q
    BY <2>3, <2>9 DEF RowInv
  <2> QED
    BY <2>6, <2>8, <2>10 DEF RowInv
\* A refund, a payment, and a payment that failed change no invoice a request is about to
\* make final.
<1>21. ASSUME \A j \in Invoices :
                /\ invoices[j].state \in Live => invoices'[j].state \in Live
                /\ invoices[j].state = "paid" => invoices'[j].state = "paid"
                /\ invoices[j].state = "draft" => invoices'[j].state = "draft",
              \A e \in emitted' : e \in emitted \/ (e.kind = "paid" => invoices'[e.inv].state = "paid"),
              UNCHANGED <<fee, notices>>,
              \/ UNCHANGED req
              \/ \E r \in Requests : req[r].op = "stripeRefund" /\ Goto(r, "write")
       PROVE  RowInv'
  <2>1. /\ RowFine(fee', invoices') /\ (notices'.received => Recorded(fee'))
        /\ EventsFine(emitted', invoices')
        /\ \A q \in Requests :
                /\ Relies(req[q]) => Recorded(fee')
                /\ req[q].op = "invoice" /\ req[q].pc = "write" =>
                        req[q].inv \in Invoices /\ invoices'[req[q].inv].state \in Live
    BY <1>21, InvoicesStep DEF EventsFine
  <2>2. \A q \in Requests : RowSlot(req[q], fee', invoices')
    BY <1>1, <1>21, <2>1 DEF RowSlot
  <2>3. CASE UNCHANGED req
    BY <2>1, <2>2, <2>3 DEF RowInv
  <2>4. ASSUME NEW r \in Requests, req[r].op = "stripeRefund", Goto(r, "write") PROVE RowInv'
    <3>1. /\ req'[r].op = "stripeRefund" /\ \A q \in Requests \ {r} : req'[q] = req[q]
      BY <1>0, <2>4 DEF Goto, Request
    <3>2. \A q \in Requests : RowSlot(req'[q], fee', invoices')
      BY <2>2, <2>4, <3>1 DEF RowSlot, Relies, Finalizing
    <3>3. ~Finalizing(req'[r])
      BY <3>1 DEF Finalizing
    <3> QED
      BY <2>1, <3>1, <3>2, <3>3 DEF RowInv
  <2> QED
    BY <1>21, <2>3, <2>4
<1>22. ASSUME NEW i \in Invoices, NEW n, TakeRefund(i, n)
       PROVE  /\ \A j \in Invoices : invoices'[j].state = invoices[j].state
              /\ \A e \in emitted' : e \in emitted \/ e.kind = "refunded"
  <2>1. \A j \in Invoices : invoices'[j].state = invoices[j].state
    BY <1>0, <1>22 DEF TakeRefund
  <2>2. \A e \in emitted' : e \in emitted \/ e.kind = "refunded"
    BY <1>22 DEF TakeRefund, Event
  <2> QED
    BY <2>1, <2>2
<1>23. ASSUME NEW r \in Requests, StripeRefundCall(r) PROVE RowInv'
  <2>1. CASE Finish(r) /\ UNCHANGED stripe
    BY <1>1, <1>6, <1>23, <2>1 DEF StripeRefundCall
  <2>2. CASE TakeRefund(req[r].inv, req[r].n) /\ Goto(r, "write")
    <3>1. req[r].inv \in Invoices /\ req[r].op = "stripeRefund" /\ UNCHANGED <<fee, notices>>
      BY <1>23 DEF StripeRefundCall, At, Typed, SlotOK, SlotFine
    <3> QED
      BY <1>21, <1>22, <2>2, <3>1
  <2> QED
    BY <1>23, <2>1, <2>2 DEF StripeRefundCall
<1>24. ASSUME NEW i \in Invoices, PayInvoice(i) PROVE RowInv'
  <2>1. /\ invoices[i].state = "open" /\ invoices'[i].state = "paid"
        /\ \A j \in Invoices \ {i} : invoices'[j] = invoices[j]
        /\ UNCHANGED <<fee, notices, req>>
    BY <1>0, <1>24 DEF PayInvoice
  <2>2. \A e \in emitted' : e \in emitted \/ e.inv = i
    BY <1>24 DEF PayInvoice, Event
  <2> QED
    BY <1>21, <2>1, <2>2 DEF Live
<1>25. ASSUME NEW i \in Invoices, FailPayment(i) PROVE RowInv'
  <2>1. UNCHANGED <<fee, notices, req, invoices>>
    BY <1>25 DEF FailPayment
  <2>2. \A e \in emitted' : e \in emitted \/ e.kind = "failed"
    BY <1>25 DEF FailPayment, Event
  <2> QED
    BY <1>21, <2>1, <2>2
<1>26. ASSUME NEW i \in Invoices, DashboardRefund(i) PROVE RowInv'
  BY <1>21, <1>22, <1>26 DEF DashboardRefund
<1>27. CASE UNCHANGED vars
  BY <1>27 DEF vars, stripe, RowInv
<1> QED
  BY <1>3, <1>4, <1>5, <1>8, <1>9, <1>10, <1>11, <1>12, <1>13, <1>14, <1>15, <1>16, <1>17,
     <1>18, <1>19, <1>20, <1>23, <1>24, <1>25, <1>26, <1>27 DEF Next, Step

LEMMA AlwaysRow == Spec => []RowInv
<1>1. Init => RowInv
  <2> SUFFICES ASSUME Init PROVE RowInv
    OBVIOUS
  <2>1. RowFine(fee, invoices)
    BY DEF Init, Fee, RowFine, Refundable
  <2> QED
    BY <2>1, IdleRow DEF Init, RowInv, EventsFine
<1> QED
  BY <1>1, NextRow, AlwaysTyped, PTL DEF Spec

\* However requests and webhooks overlap, die and come again: what is paid or refunded was
\* recorded as paid, an intent on the fee is one that was paid, the notices are true, and the
\* invoice on the fee is one its client can open.
THEOREM RowIsTruthful == Spec => []RowTruthful
<1>1. RowInv /\ PeakInv => RowTruthful
  BY DEF RowInv, RowFine, PeakInv, PeakRow, RowTruthful, PaidBeforeRefund, NoticesTruthful,
     InvoiceIsLive, Recorded, Live
<1> QED
  BY <1>1, AlwaysRow, InitPeak, InitTyped, NextPeak, AlwaysTyped, PTL DEF Spec

-----------------------------------------------------------------------------
(* Requests that do not overlap.  At most one slot is in use, and what it read  *)
(* is still what the row holds, for nothing but requests writes it.             *)

Alone == \A r, q \in Requests : req[r] # Idle /\ req[q] # Idle => r = q

\* The invoice a request is about to write on the fee.
Holds(q, i) == q.op = "invoice" /\ q.pc \in {"finalize", "write"} /\ q.inv = i

\* Stripe knows the invoice on the fee, and the one the request in flight creates for a draft.
LiveWith(q, f, invs) ==
    /\ q.op \in {"delete", "invoice"} => f.status = "draft"
    /\ f.status = "draft" => f.invoice = NoInvoice
    /\ \A i \in Invoices : invs[i].state # "none" => f.invoice = i \/ Holds(q, i)

LiveInv ==
    /\ Alone
    /\ \A r \in Requests : req[r] # Idle => LiveWith(req[r], fee, invoices)
    /\ (\A r \in Requests : req[r] = Idle) => LiveWith(Idle, fee, invoices)

\* What makes a fee keep its promise: requests that do not overlap, an invoice that is not
\* lost half way, and no money moved behind Stripe's back or behind the API's.
Unbroken == Isolated /\ "invoice" \notin Faulty

Careful == Unbroken /\ "refund" \notin Operations /\ "cancel" \notin Operations
           /\ "dashboardRefund" \notin External

RowKept(f, invs, done) ==
    /\ f.status # "deleted" => f.amount \in Amounts
    /\ f.status \in {"draft", "deleted"} =>
            f.refunded = 0 /\ f.intent = NoInvoice /\ f.invoice = NoInvoice
    /\ f.status # "cancelled"
    /\ f.refunded = 0 => f.status \notin {"partially_refunded", "refunded"}
    /\ f.refunded > 0 => /\ f.intent # NoInvoice /\ f.refunded <= f.amount
                         /\ f.status = Lifecycle!RefundStatus(f.refunded, f.amount)
    /\ f.intent # NoInvoice =>
            /\ f.intent = f.invoice /\ f.status \in {"paid", "partially_refunded", "refunded"}
            /\ f.refunded <= invs[f.intent].refunded
            /\ Event("paid", f.intent, 0) \in done
    /\ f.invoice # NoInvoice => invs[f.invoice].amount = f.amount

\* Stripe tells of every refund it made, and every total it told is on the fee once applied.
StripeKept(f, invs, sent, done) ==
    /\ \A i \in Invoices :
        /\ invs[i].state # "paid" => invs[i].refunded = 0
        /\ invs[i].refunded <= invs[i].amount
        /\ invs[i].refunded > 0 => Event("refunded", i, invs[i].refunded) \in sent
    /\ \A e \in sent : e.kind = "refunded" => f.intent = e.inv /\ e.total <= invs[e.inv].refunded
    /\ \A e \in done : e.kind = "refunded" => e.total <= f.refunded

\* What the request in flight holds is what the row says, and a refund Stripe made for it is
\* one of what was left.
SlotKept(q, f, invs) ==
    /\ q.op = "update" => f.status = "draft" /\ q.n \in Amounts
    /\ q.op = "send" => f.status = "draft"
    /\ q.op = "markPaid" /\ q.pc = "write" => f.status = "sent"
    /\ q.op = "invoice" /\ q.pc = "create" => q.amount = f.amount
    /\ q.op = "invoice" /\ q.pc \in {"finalize", "write"} => invs[q.inv].amount = f.amount
    /\ q.op = "stripeRefund" /\ q.pc \in {"stripe", "write"} =>
            /\ f.intent = q.inv /\ q.refunded = f.refunded /\ q.amount = f.amount
            /\ q.n <= f.amount - f.refunded
    /\ q.op = "stripeRefund" /\ q.pc = "write" =>
            q.n > 0 /\ q.refunded + q.n <= invs[q.inv].refunded
    /\ q.op = "webhook" /\ q.pc = "apply" =>
            /\ f.intent = q.ev.inv /\ q.ev.kind = "refunded" /\ q.amount = f.amount
            /\ q.n = Higher(f.refunded, q.ev.total)

KeptInv ==
    /\ RowKept(fee, invoices, applied) /\ StripeKept(fee, invoices, emitted, applied)
    /\ \A r \in Requests : SlotKept(req[r], fee, invoices)

Solo(r) == \A q \in Requests \ {r} : req[q] = Idle

LEMMA SoloFacts ==
    ASSUME LiveInv, NEW r \in Requests, req[r] # Idle \/ \A q \in Requests : req[q] = Idle
    PROVE  Solo(r) /\ LiveWith(req[r], fee, invoices)
BY DEF LiveInv, Alone, Solo

LEMMA BusySlot == ASSUME NEW r \in Requests, NEW op, NEW pc, At(r, op, pc), op # "none" PROVE req[r] # Idle
BY DEF At, Idle

LEMMA SoloStep ==
    ASSUME NEW r \in Requests, Solo(r), NEW s, req' = [req EXCEPT ![r] = s],
           req \in [Requests -> Request], LiveWith(s, fee', invoices')
    PROVE  LiveInv'
<1>1. req'[r] = s /\ \A q \in Requests \ {r} : req'[q] = Idle
  BY DEF Solo
<1>2. Alone' /\ \A q \in Requests : req'[q] # Idle => LiveWith(req'[q], fee', invoices')
  BY <1>1 DEF Alone
<1>3. (\A q \in Requests : req'[q] = Idle) => s = Idle
  BY <1>1
<1> QED
  BY <1>2, <1>3 DEF LiveInv

\* A request that neither deletes nor invoices keeps the fee's invoice, and makes no draft of it.
LEMMA MoveLive ==
    ASSUME NEW q, NEW s, NEW f, NEW g, NEW invs, LiveWith(q, f, invs), q.op # "invoice",
           s.op \notin {"delete", "invoice"}, g.invoice = f.invoice,
           g.status = f.status \/ g.status # "draft"
    PROVE  LiveWith(s, g, invs)
BY DEF LiveWith, Holds

LEMMA NextLive == Unbroken /\ LiveInv /\ Typed /\ [Next]_vars => LiveInv'
<1> SUFFICES ASSUME Unbroken, LiveInv, Typed, [Next]_vars PROVE LiveInv'
  OBVIOUS
<1>0. /\ req \in [Requests -> Request] /\ fee \in FeeRow /\ \A r \in Requests : req[r] \in Request
      /\ invoices \in [Invoices -> [state : {"none", "draft", "open", "paid"},
                                    amount : Nat, refunded : Nat]]
      /\ Idle.op = "none"
  BY DEF Typed, TypeOK, Idle
<1>1. ASSUME NEW r \in Requests, NEW op, NEW pc, NEW a, NEW t, NEW n, NEW i, NEW e,
             Start(r, op, pc, a, t, n, i, e), op \in {"delete", "invoice"} => fee.status = "draft",
             UNCHANGED <<fee, stripe, hooks, notices, peak>>
      PROVE  LiveInv'
  <2> DEFINE s == [op |-> op, pc |-> pc, amount |-> a, refunded |-> t, n |-> n, inv |-> i,
                   ev |-> e]
  <2>1. req' = [req EXCEPT ![r] = s] /\ s.op = op /\ \A q \in Requests : req[q] = Idle
    BY <1>1 DEF Start, Unbroken
  <2>2. Solo(r) /\ LiveWith(Idle, fee, invoices)
    BY <2>1, SoloFacts
  <2> HIDE DEF s
  <2>3. LiveWith(s, fee, invoices)
    BY <1>0, <1>1, <2>1, <2>2 DEF LiveWith, Holds
  <2>4. fee' = fee /\ invoices' = invoices
    BY <1>1 DEF stripe
  <2> QED
    BY <1>0, <2>1, <2>2, <2>3, <2>4, SoloStep
<1>2. ASSUME NEW r \in Requests,
             \/ UpdateRead(r) \/ SendRead(r) \/ MarkPaidRead(r) \/ CancelRead(r) \/ RefundRead(r)
             \/ DeleteRead(r) \/ InvoiceRead(r) \/ StripeRefundRead(r)
             \/ \E e \in emitted : Deliver(r, e)
      PROVE  LiveInv'
  BY <1>1, <1>2 DEF UpdateRead, SendRead, MarkPaidRead, CancelRead, TransitionRead, RefundRead,
     DeleteRead, InvoiceRead, StripeRefundRead, Deliver
\* A slot that neither deletes nor invoices is freed or goes on.
<1>3. ASSUME NEW r \in Requests, NEW s, req' = [req EXCEPT ![r] = s], req[r] # Idle,
             req[r].op # "invoice", s.op \notin {"delete", "invoice"}, UNCHANGED invoices,
             fee'.invoice = fee.invoice, fee'.status = fee.status \/ fee'.status # "draft"
      PROVE  LiveInv'
  <2>1. Solo(r) /\ LiveWith(req[r], fee, invoices)
    BY <1>3, SoloFacts
  <2>2. LiveWith(s, fee', invoices)
    BY <1>3, <2>1, MoveLive
  <2>3. LiveWith(s, fee', invoices')
    BY <1>3, <2>2
  <2> QED
    BY <1>0, <1>3, <2>1, <2>3, SoloStep
<1>4. ASSUME NEW r \in Requests, Finish(r), req[r] # Idle, req[r].op # "invoice",
             UNCHANGED invoices, fee'.invoice = fee.invoice,
             fee'.status = fee.status \/ fee'.status # "draft"
      PROVE  LiveInv'
  BY <1>0, <1>3, <1>4 DEF Finish
<1>5. ASSUME NEW r \in Requests, NEW pc, Goto(r, pc), req[r] # Idle,
             req[r].op \notin {"delete", "invoice"},
             UNCHANGED invoices, fee'.invoice = fee.invoice,
             fee'.status = fee.status \/ fee'.status # "draft"
      PROVE  LiveInv'
  <2> DEFINE s == [req[r] EXCEPT !.pc = pc]
  <2>1. req' = [req EXCEPT ![r] = s] /\ s.op = req[r].op
    BY <1>0, <1>5 DEF Goto, Request
  <2> HIDE DEF s
  <2> QED
    BY <1>3, <1>5, <2>1
<1>6. ASSUME NEW r \in Requests,
             \/ UpdateWrite(r) \/ SendWrite(r) \/ CancelWrite(r) \/ ApplyChargeRefunded(r)
      PROVE  LiveInv'
  <2>1. req[r] # Idle /\ req[r].op # "invoice"
    BY <1>6 DEF UpdateWrite, SendWrite, CancelWrite, ApplyChargeRefunded, At, Idle
  <2>2. fee'.invoice = fee.invoice /\ (fee'.status = fee.status \/ fee'.status # "draft")
    BY <1>0, <1>6 DEF UpdateWrite, SendWrite, CancelWrite, ApplyChargeRefunded, Write, FeeRow,
       Lifecycle!RefundStatus
  <2>3. Finish(r) /\ UNCHANGED invoices
    BY <1>6 DEF UpdateWrite, SendWrite, CancelWrite, ApplyChargeRefunded, Acknowledge, stripe
  <2> QED
    BY <1>4, <2>1, <2>2, <2>3
<1>7. ASSUME NEW r \in Requests, MarkPaidWrite(r) \/ RefundWrite(r) \/ HandleInvoicePaid(r)
      PROVE  LiveInv'
  <2>1. req[r] # Idle /\ req[r].op \notin {"delete", "invoice"}
    BY <1>7 DEF MarkPaidWrite, RefundWrite, HandleInvoicePaid, At, Idle
  <2>2. fee'.invoice = fee.invoice /\ (fee'.status = fee.status \/ fee'.status # "draft")
    BY <1>0, <1>7 DEF MarkPaidWrite, RefundWrite, HandleInvoicePaid, Write, FeeRow,
       Lifecycle!RefundStatus
  <2>3. Goto(r, "notify") /\ UNCHANGED invoices
    BY <1>7 DEF MarkPaidWrite, RefundWrite, HandleInvoicePaid, stripe
  <2> QED
    BY <1>5, <2>1, <2>2, <2>3
<1>8. ASSUME NEW r \in Requests,
             \/ MarkPaidNotify(r) \/ RefundNotify(r) \/ NotifyInvoicePaid(r)
             \/ HandleInvoicePaymentFailed(r)
      PROVE  LiveInv'
  <2>1. req[r] # Idle /\ req[r].op # "invoice"
    BY <1>8 DEF MarkPaidNotify, RefundNotify, NotifyInvoicePaid, HandleInvoicePaymentFailed, At, Idle
  <2>2. Finish(r) /\ UNCHANGED <<fee, invoices>>
    BY <1>8 DEF MarkPaidNotify, RefundNotify, NotifyInvoicePaid, HandleInvoicePaymentFailed,
       Acknowledge, stripe
  <2> QED
    BY <1>4, <2>1, <2>2
<1>9. ASSUME NEW r \in Requests, Die(r) PROVE LiveInv'
  <2>1. req[r].op # "invoice" /\ Finish(r) /\ UNCHANGED <<fee, invoices>>
    BY <1>9 DEF Die, Unbroken, stripe
  <2>2. CASE req[r] # Idle
    BY <1>4, <2>1, <2>2
  <2>3. CASE req[r] = Idle
    BY <1>0, <2>1, <2>3 DEF Finish, LiveInv, Alone
  <2> QED
    BY <2>2, <2>3
<1>10. ASSUME NEW r \in Requests, WebhookSelect(r) \/ WebhookInsert(r) PROVE LiveInv'
  <2>1. req[r] # Idle /\ req[r].op \notin {"delete", "invoice"} /\ UNCHANGED <<fee, invoices>>
    BY <1>10 DEF WebhookSelect, WebhookInsert, At, Idle, stripe
  <2>2. Finish(r) \/ Goto(r, "insert") \/ Goto(r, "handle")
    BY <1>10 DEF WebhookSelect, WebhookInsert, Acknowledge
  <2> QED
    BY <1>4, <1>5, <2>1, <2>2
<1>11. ASSUME NEW r \in Requests, HandleChargeRefunded(r) PROVE LiveInv'
  <2>1. req[r] # Idle /\ req[r].op = "webhook" /\ UNCHANGED <<fee, invoices>>
    BY <1>11 DEF HandleChargeRefunded, At, Idle, stripe
  <2>2. CASE Finish(r)
    BY <1>4, <2>1, <2>2
  <2>3. CASE ~Finish(r)
    <3> DEFINE s == [req[r] EXCEPT !.pc = "apply", !.amount = fee.amount,
                                   !.n = Higher(fee.refunded, req[r].ev.total)]
    <3>1. req' = [req EXCEPT ![r] = s] /\ s.op = "webhook"
      BY <1>0, <1>11, <2>1, <2>3 DEF HandleChargeRefunded, Acknowledge, Request
    <3> HIDE DEF s
    <3> QED
      BY <1>3, <2>1, <3>1
  <2> QED
    BY <2>2, <2>3
<1>12. ASSUME NEW r \in Requests, DeleteWrite(r) PROVE LiveInv'
  <2>1. /\ req[r].op = "delete" /\ req[r] # Idle /\ fee'.status = "deleted"
        /\ fee'.invoice = NoInvoice /\ invoices' = invoices
    BY <1>12 DEF DeleteWrite, At, Idle, stripe, DeletedFee, Fee
  <2>2. Solo(r) /\ LiveWith(req[r], fee, invoices)
    BY <2>1, SoloFacts
  <2>3. \A i \in Invoices : invoices[i].state = "none"
    BY <2>1, <2>2, ServiceFeesAssumption DEF LiveWith, Holds
  <2>4. LiveWith(Idle, fee', invoices')
    BY <1>0, <2>1, <2>3 DEF LiveWith
  <2> QED
    BY <1>0, <1>12, <2>2, <2>4, SoloStep DEF DeleteWrite, Finish
<1>13. ASSUME NEW r \in Requests, InvoiceWrite(r) PROVE LiveInv'
  <2>1. req[r].op = "invoice" /\ req[r] # Idle /\ invoices' = invoices
    BY <1>13 DEF InvoiceWrite, At, Idle, stripe
  <2>2. Solo(r) /\ LiveWith(req[r], fee, invoices)
    BY <2>1, SoloFacts
  <2>3. fee.status = "draft" /\ fee.invoice = NoInvoice
    BY <2>1, <2>2 DEF LiveWith
  <2>4. fee'.status = "sent" /\ fee'.invoice = req[r].inv
    BY <1>0, <1>13, <2>3 DEF InvoiceWrite, Write, FeeRow
  <2>5. LiveWith(Idle, fee', invoices')
    BY <1>0, <2>1, <2>2, <2>3, <2>4, ServiceFeesAssumption DEF LiveWith, Holds
  <2> QED
    BY <1>0, <1>13, <2>2, <2>5, SoloStep DEF InvoiceWrite, Finish
<1>14. ASSUME NEW r \in Requests, InvoiceCreate(r) PROVE LiveInv'
  <2>1. PICK i \in Invoices :
          /\ invoices' = [invoices EXCEPT ![i] = [@ EXCEPT !.state = "draft", !.amount = req[r].amount]]
          /\ req' = [req EXCEPT ![r] = [@ EXCEPT !.pc = "finalize", !.inv = i]]
    BY <1>14 DEF InvoiceCreate
  <2>2. req[r].op = "invoice" /\ req[r].pc = "create" /\ req[r] # Idle /\ fee' = fee
    BY <1>14 DEF InvoiceCreate, At, Idle
  <2>3. Solo(r) /\ LiveWith(req[r], fee, invoices)
    BY <2>2, SoloFacts
  <2>4. \A j \in Invoices : invoices[j].state = "none"
    BY <2>2, <2>3, ServiceFeesAssumption DEF LiveWith, Holds
  <2>5. \A j \in Invoices \ {i} : invoices'[j].state = "none"
    BY <1>0, <2>1, <2>4
  <2> DEFINE s == [req[r] EXCEPT !.pc = "finalize", !.inv = i]
  <2>6. req' = [req EXCEPT ![r] = s] /\ s.op = "invoice" /\ s.pc = "finalize" /\ s.inv = i
    BY <1>0, <2>1, <2>2 DEF Request
  <2> HIDE DEF s
  <2>7. LiveWith(s, fee', invoices')
    BY <2>2, <2>3, <2>5, <2>6 DEF LiveWith, Holds
  <2> QED
    BY <1>0, <2>3, <2>6, <2>7, SoloStep
<1>15. ASSUME NEW r \in Requests, InvoiceFinalize(r) PROVE LiveInv'
  <2>1. /\ req[r].op = "invoice" /\ req[r].pc = "finalize" /\ req[r] # Idle /\ fee' = fee
        /\ Goto(r, "write")
    BY <1>15 DEF InvoiceFinalize, At, Idle
  <2>2. Solo(r) /\ LiveWith(req[r], fee, invoices)
    BY <2>1, SoloFacts
  <2>3. \A j \in Invoices : j # req[r].inv => invoices'[j].state = invoices[j].state
    BY <1>0, <1>15 DEF InvoiceFinalize
  <2> DEFINE s == [req[r] EXCEPT !.pc = "write"]
  <2>4. req' = [req EXCEPT ![r] = s] /\ s.op = "invoice" /\ s.pc = "write" /\ s.inv = req[r].inv
    BY <1>0, <2>1 DEF Request, Goto
  <2> HIDE DEF s
  <2>5. LiveWith(s, fee', invoices')
    BY <2>1, <2>2, <2>3, <2>4 DEF LiveWith, Holds
  <2> QED
    BY <1>0, <2>2, <2>4, <2>5, SoloStep
\* Stripe creates no invoice of its own.
<1>16. ASSUME \A i \in Invoices : invoices'[i].state # "none" => invoices[i].state # "none",
              UNCHANGED <<fee, req>>
       PROVE  LiveInv'
  BY <1>16 DEF LiveInv, LiveWith, Alone
<1>17. ASSUME NEW i \in Invoices, NEW n, TakeRefund(i, n)
       PROVE  \A j \in Invoices : invoices'[j].state = invoices[j].state
  BY <1>0, <1>17 DEF TakeRefund
<1>18. ASSUME NEW r \in Requests, StripeRefundCall(r) PROVE LiveInv'
  <2>1. req[r] # Idle /\ req[r].op = "stripeRefund" /\ fee' = fee
    BY <1>18 DEF StripeRefundCall, At, Idle
  <2>2. CASE Finish(r) /\ UNCHANGED stripe
    BY <1>4, <2>1, <2>2 DEF stripe
  <2>3. CASE TakeRefund(req[r].inv, req[r].n) /\ Goto(r, "write")
    <3>1. req[r].inv \in Invoices
      BY <2>1 DEF Typed, SlotOK, SlotFine
    <3>2. \A j \in Invoices : invoices'[j].state = invoices[j].state
      BY <1>17, <2>3, <3>1
    <3>3. Solo(r) /\ LiveWith(req[r], fee, invoices)
      BY <2>1, SoloFacts
    <3> DEFINE s == [req[r] EXCEPT !.pc = "write"]
    <3>4. req' = [req EXCEPT ![r] = s] /\ s.op = "stripeRefund"
      BY <1>0, <2>1, <2>3 DEF Request, Goto
    <3> HIDE DEF s
    <3>5. LiveWith(s, fee', invoices')
      BY <2>1, <3>2, <3>3, <3>4 DEF LiveWith, Holds
    <3> QED
      BY <1>0, <3>3, <3>4, <3>5, SoloStep
  <2> QED
    BY <1>18, <2>2, <2>3 DEF StripeRefundCall
<1>19. ASSUME NEW i \in Invoices, PayInvoice(i) \/ FailPayment(i) \/ DashboardRefund(i)
       PROVE  LiveInv'
  <2>1. UNCHANGED <<fee, req>>
    BY <1>19 DEF PayInvoice, FailPayment, DashboardRefund
  <2>2. \A j \in Invoices : invoices'[j].state # "none" => invoices[j].state # "none"
    BY <1>0, <1>17, <1>19 DEF PayInvoice, FailPayment, DashboardRefund
  <2> QED
    BY <1>16, <2>1, <2>2
<1>20. CASE UNCHANGED vars
  BY <1>16, <1>20 DEF vars, stripe
<1> QED
  BY <1>2, <1>6, <1>7, <1>8, <1>9, <1>10, <1>11, <1>12, <1>13, <1>14, <1>15, <1>18, <1>19,
     <1>20 DEF Next, Step

LEMMA AlwaysLive == Spec => [](Unbroken => LiveInv)
<1>1. Init => (Unbroken => LiveInv)
  BY DEF Init, Fee, NoStripeInvoice, LiveInv, Alone, LiveWith, Idle
<1>2. (Unbroken => LiveInv) /\ Typed /\ [Next]_vars => (Unbroken' => LiveInv')
  BY NextLive DEF Unbroken
<1> QED
  BY <1>1, <1>2, AlwaysTyped, PTL DEF Spec

\* While requests do not overlap and none that invoices dies, at most one invoice of the fee
\* can ever be paid: whoever else pays, fails or delivers.
THEOREM OneInvoiceToPay == Spec => [](Unbroken => OneLiveInvoice)
<1>1. LiveInv /\ Typed => OneLiveInvoice
  <2> SUFFICES ASSUME LiveInv, Typed PROVE OneLiveInvoice
    OBVIOUS
  <2> DEFINE L == {i \in Invoices : invoices[i].state \in {"open", "paid"}}
  <2>1. ASSUME NEW i \in L, NEW j \in L PROVE i = j
    <3>1. /\ i \in Invoices /\ j \in Invoices /\ i # NoInvoice /\ j # NoInvoice
          /\ invoices[i].state # "none" /\ invoices[j].state # "none"
      BY <2>1, ServiceFeesAssumption
    <3>2. CASE \E r \in Requests : req[r] # Idle
      <4>1. PICK r \in Requests : req[r] # Idle
        BY <3>2
      <4>2. LiveWith(req[r], fee, invoices)
        BY <4>1 DEF LiveInv
      <4> QED
        BY <3>1, <4>2 DEF LiveWith, Holds
    <3>3. CASE \A r \in Requests : req[r] = Idle
      <4>1. LiveWith(Idle, fee, invoices)
        BY <3>3 DEF LiveInv
      <4> QED
        BY <3>1, <4>1 DEF LiveWith, Holds, Idle
    <3> QED
      BY <3>2, <3>3
  <2>2. CASE L = {}
    BY <2>2, FS_EmptySet DEF OneLiveInvoice
  <2>3. CASE L # {}
    <3>1. PICK i \in L : TRUE
      BY <2>3
    <3>2. L = {i}
      BY <2>1, <3>1
    <3>3. Cardinality({i}) = 1
      BY FS_Singleton
    <3>4. Cardinality(L) <= 1
      BY <3>2, <3>3
    <3> QED
      BY <3>4 DEF OneLiveInvoice
  <2> QED
    BY <2>2, <2>3
<1>2. (Unbroken => LiveInv) /\ Typed => (Unbroken => OneLiveInvoice)
  BY <1>1
<1> QED
  BY <1>2, AlwaysLive, AlwaysTyped, PTL

LEMMA IdleKept == ASSUME NEW f, NEW invs PROVE SlotKept(Idle, f, invs)
BY DEF SlotKept, Idle

\* The slot in use changes; the other ones are idle.
LEMMA KeptStep ==
    ASSUME NEW r \in Requests, Solo(r), NEW s, req' = [req EXCEPT ![r] = s],
           req \in [Requests -> Request], SlotKept(s, fee', invoices'),
           RowKept(fee', invoices', applied'), StripeKept(fee', invoices', emitted', applied')
    PROVE  KeptInv'
<1>1. \A q \in Requests : req'[q] = IF q = r THEN s ELSE Idle
  BY DEF Solo
<1>2. \A q \in Requests : SlotKept(req'[q], fee', invoices')
  BY <1>1, IdleKept
<1> QED
  BY <1>2 DEF KeptInv

\* The numbers and the names the invariant speaks of.
LEMMA KeptTypes ==
    ASSUME Typed
    PROVE  /\ fee \in FeeRow /\ fee.amount \in Nat /\ fee.refunded \in Nat
           /\ fee.intent \in Invoices \cup {NoInvoice} /\ fee.invoice \in Invoices \cup {NoInvoice}
           /\ fee.status \in {"draft", "sent", "paid", "partially_refunded", "refunded",
                              "cancelled", "deleted"}
           /\ \A i \in Invoices : /\ invoices[i].amount \in Nat /\ invoices[i].refunded \in Nat
                                  /\ i # NoInvoice
           /\ \A a \in Amounts : a \in Nat /\ a > 0
           /\ \A e \in emitted : e.inv \in Invoices /\ e.total \in Nat
           /\ \A e \in emitted : e.kind = "refunded" => e.total > 0
           /\ \A e \in emitted : e.kind = "paid" => e = Event("paid", e.inv, 0)
           /\ applied \subseteq emitted
           /\ req \in [Requests -> Request] /\ \A r \in Requests : req[r] \in Request
<1>1. \A e \in emitted : e \in Events
  BY DEF Typed, TypeOK
<1>2. \A e \in Events : /\ e.inv \in Invoices /\ e.total \in Nat
                        /\ e.kind = "refunded" => e.total > 0
                        /\ e.kind = "paid" => e = Event("paid", e.inv, 0)
  BY DEF Events, Event
<1>3. \A i \in Invoices : /\ invoices[i].amount \in Nat /\ invoices[i].refunded \in Nat
                          /\ i # NoInvoice
  BY ServiceFeesAssumption DEF Typed, TypeOK
<1>4. \A a \in Amounts : a \in Nat /\ a > 0
  BY ServiceFeesAssumption
<1> QED
  BY <1>1, <1>2, <1>3, <1>4 DEF Typed, TypeOK, FeeRow, Statuses, Lifecycle!Statuses

\* A row whose intent stays and whose refunded total does not fall.
LEMMA StripeStays ==
    ASSUME Typed, StripeKept(fee, invoices, emitted, applied), NEW f, f.intent = fee.intent,
           f.refunded \in Nat, fee.refunded <= f.refunded
    PROVE  StripeKept(f, invoices, emitted, applied)
<1>1. fee.refunded \in Nat /\ \A e \in applied : e.total \in Nat
  BY KeptTypes
<1> QED
  BY <1>1 DEF StripeKept

\* A fee no payment of which was applied: Stripe has refunded nothing.
LEMMA NothingRefunded ==
    ASSUME Typed, StripeKept(fee, invoices, emitted, applied), fee.intent = NoInvoice
    PROVE  (\A e \in emitted : e.kind # "refunded") /\ \A f : StripeKept(f, invoices, emitted, applied)
<1>1. \A e \in emitted : e.kind # "refunded"
  BY KeptTypes DEF StripeKept
<1>2. applied \subseteq emitted
  BY KeptTypes
<1> QED
  BY <1>1, <1>2 DEF StripeKept

LEMMA Transitions ==
    ASSUME Typed
    PROVE  /\ "sent" \in Lifecycle!ValidTransitions[fee.status] => fee.status = "draft"
           /\ "paid" \in Lifecycle!ValidTransitions[fee.status] => fee.status = "sent"
BY KeptTypes DEF Lifecycle!ValidTransitions

\* What the fee is while it waits for its payment.
LEMMA Unpaid ==
    ASSUME Typed, RowKept(fee, invoices, applied), fee.status \in {"draft", "sent"}
    PROVE  fee.refunded = 0 /\ fee.intent = NoInvoice
<1>1. fee.intent = NoInvoice
  BY DEF RowKept
<1>2. fee.refunded \in Nat /\ ~(fee.refunded > 0)
  BY <1>1, KeptTypes DEF RowKept
<1> QED
  BY <1>1, <1>2

\* A step of the fee's lifecycle, or one that leaves its status and its money.
Keeps == [Lifecycle!Next]_(Lifecycle!feeVars)

LEMMA KeepsFee ==
    ASSUME fee'.status = fee.status, fee'.amount = fee.amount, fee'.refunded = fee.refunded
    PROVE  Keeps
BY DEF Keeps, Lifecycle!feeVars

\* A step of the slot in use that leaves the fee, Stripe and the events applied.
LEMMA StillKept ==
    ASSUME Typed, KeptInv, NEW r \in Requests, Solo(r), NEW s, req' = [req EXCEPT ![r] = s],
           UNCHANGED <<fee, stripe, applied>>, SlotKept(s, fee, invoices)
    PROVE  KeptInv' /\ Keeps
<1>1. fee' = fee /\ invoices' = invoices /\ emitted' = emitted /\ applied' = applied
      /\ req \in [Requests -> Request]
  BY KeptTypes DEF stripe
<1>2. RowKept(fee', invoices', applied') /\ StripeKept(fee', invoices', emitted', applied')
      /\ SlotKept(s, fee', invoices')
  BY <1>1 DEF KeptInv
<1>3. KeptInv'
  BY <1>1, <1>2, KeptStep
<1> QED
  BY <1>1, <1>3, KeepsFee

\* A handler starts.
LEMMA StartKept ==
    ASSUME Careful, Typed, KeptInv, LiveInv, NEW r \in Requests,
           \/ UpdateRead(r) \/ SendRead(r) \/ MarkPaidRead(r) \/ CancelRead(r) \/ RefundRead(r)
           \/ DeleteRead(r) \/ InvoiceRead(r) \/ StripeRefundRead(r)
           \/ \E e \in emitted : Deliver(r, e)
    PROVE  KeptInv' /\ Keeps
<1>1. ASSUME NEW op, NEW pc, NEW a, NEW t, NEW n, NEW i, NEW e,
             Start(r, op, pc, a, t, n, i, e),
             SlotKept([op |-> op, pc |-> pc, amount |-> a, refunded |-> t, n |-> n, inv |-> i,
                       ev |-> e], fee, invoices),
             UNCHANGED <<fee, stripe, hooks, notices, peak>>
      PROVE  KeptInv' /\ Keeps
  <2> DEFINE s == [op |-> op, pc |-> pc, amount |-> a, refunded |-> t, n |-> n, inv |-> i,
                   ev |-> e]
  <2>1. req' = [req EXCEPT ![r] = s] /\ \A q \in Requests : req[q] = Idle
    BY <1>1 DEF Start, Careful, Unbroken
  <2>2. Solo(r) /\ SlotKept(s, fee, invoices)
    BY <1>1, <2>1, SoloFacts
  <2> HIDE DEF s
  <2> QED
    BY <1>1, <2>1, <2>2, StillKept DEF hooks
<1>2. CASE UpdateRead(r)
  <2>1. PICK a \in Amounts :
            Start(r, "update", "write", fee.amount, fee.refunded, a, NoInvoice, NoEvent)
    BY <1>2 DEF UpdateRead
  <2>2. SlotKept([op |-> "update", pc |-> "write", amount |-> fee.amount,
                  refunded |-> fee.refunded, n |-> a, inv |-> NoInvoice, ev |-> NoEvent],
                 fee, invoices)
    BY <1>2 DEF UpdateRead, SlotKept
  <2> QED
    BY <1>1, <1>2, <2>1, <2>2 DEF UpdateRead
<1>3. CASE SendRead(r)
  <2>1. SlotKept([op |-> "send", pc |-> "write", amount |-> fee.amount,
                  refunded |-> fee.refunded, n |-> 0, inv |-> NoInvoice, ev |-> NoEvent],
                 fee, invoices)
    BY <1>3, Transitions DEF SendRead, TransitionRead, SlotKept
  <2> QED
    BY <1>1, <1>3, <2>1 DEF SendRead, TransitionRead
<1>4. CASE MarkPaidRead(r)
  <2>1. SlotKept([op |-> "markPaid", pc |-> "write", amount |-> fee.amount,
                  refunded |-> fee.refunded, n |-> 0, inv |-> NoInvoice, ev |-> NoEvent],
                 fee, invoices)
    BY <1>4, Transitions DEF MarkPaidRead, TransitionRead, SlotKept
  <2> QED
    BY <1>1, <1>4, <2>1 DEF MarkPaidRead, TransitionRead
<1>5. CASE DeleteRead(r)
  <2>1. SlotKept([op |-> "delete", pc |-> "write", amount |-> fee.amount,
                  refunded |-> fee.refunded, n |-> 0, inv |-> NoInvoice, ev |-> NoEvent],
                 fee, invoices)
    BY DEF SlotKept
  <2> QED
    BY <1>1, <1>5, <2>1 DEF DeleteRead
<1>6. CASE InvoiceRead(r)
  <2>1. SlotKept([op |-> "invoice", pc |-> "create", amount |-> fee.amount,
                  refunded |-> fee.refunded, n |-> 0, inv |-> NoInvoice, ev |-> NoEvent],
                 fee, invoices)
    BY DEF SlotKept
  <2> QED
    BY <1>1, <1>6, <2>1 DEF InvoiceRead
<1>7. CASE StripeRefundRead(r)
  <2>1. PICK n \in (1 .. fee.amount) \cup {fee.amount - fee.refunded} :
          /\ n <= fee.amount - fee.refunded
          /\ Start(r, "stripeRefund", "stripe", fee.amount, fee.refunded, n, fee.intent, NoEvent)
    BY <1>7 DEF StripeRefundRead
  <2>2. SlotKept([op |-> "stripeRefund", pc |-> "stripe", amount |-> fee.amount,
                  refunded |-> fee.refunded, n |-> n, inv |-> fee.intent, ev |-> NoEvent],
                 fee, invoices)
    BY <2>1 DEF SlotKept
  <2> QED
    BY <1>1, <1>7, <2>1, <2>2 DEF StripeRefundRead
<1>8. ASSUME NEW e \in emitted, Deliver(r, e) PROVE KeptInv' /\ Keeps
  <2>1. SlotKept([op |-> "webhook", pc |-> "select", amount |-> 0, refunded |-> 0, n |-> 0,
                  inv |-> NoInvoice, ev |-> e], fee, invoices)
    BY DEF SlotKept
  <2> QED
    BY <1>1, <1>8, <2>1 DEF Deliver
<1>9. ~CancelRead(r) /\ ~RefundRead(r)
  BY DEF CancelRead, TransitionRead, RefundRead, Start, Careful
<1> QED
  BY <1>2, <1>3, <1>4, <1>5, <1>6, <1>7, <1>8, <1>9

\* The writes of the handlers that touch no money Stripe holds.
LEMMA WriteKept ==
    ASSUME Careful, Typed, KeptInv, LiveInv, NEW r \in Requests,
           UpdateWrite(r) \/ SendWrite(r) \/ MarkPaidWrite(r) \/ DeleteWrite(r) \/ InvoiceWrite(r)
    PROVE  KeptInv' /\ Keeps
<1>0. /\ req[r] # Idle /\ req[r] \in Request /\ req \in [Requests -> Request]
      /\ invoices' = invoices /\ emitted' = emitted /\ applied' = applied
  BY KeptTypes DEF UpdateWrite, SendWrite, MarkPaidWrite, DeleteWrite, InvoiceWrite, At, Idle,
     stripe, hooks
<1>1. /\ Solo(r) /\ LiveWith(req[r], fee, invoices)
      /\ RowKept(fee, invoices, applied) /\ StripeKept(fee, invoices, emitted, applied)
      /\ SlotKept(req[r], fee, invoices)
  BY <1>0, SoloFacts DEF KeptInv
\* The row changes, the slot is freed or told to notify.
<1>2. ASSUME RowKept(fee', invoices, applied), StripeKept(fee', invoices, emitted, applied),
             Finish(r) \/ (req[r].op = "markPaid" /\ Goto(r, "notify"))
      PROVE  KeptInv'
  <2>1. CASE Finish(r)
    BY <1>0, <1>1, <1>2, <2>1, IdleKept, KeptStep DEF Finish
  <2>2. CASE req[r].op = "markPaid" /\ Goto(r, "notify")
    <3> DEFINE s == [req[r] EXCEPT !.pc = "notify"]
    <3>1. req' = [req EXCEPT ![r] = s] /\ s.op = "markPaid" /\ s.pc = "notify"
      BY <1>0, <2>2 DEF Goto, Request
    <3> HIDE DEF s
    <3>2. SlotKept(s, fee', invoices')
      BY <3>1 DEF SlotKept
    <3>3. RowKept(fee', invoices', applied') /\ StripeKept(fee', invoices', emitted', applied')
      BY <1>0, <1>2
    <3> QED
      BY <1>0, <1>1, <3>1, <3>2, <3>3, KeptStep
  <2> QED
    BY <1>2, <2>1, <2>2
<1>3. CASE UpdateWrite(r)
  <2>1. fee.status = "draft" /\ req[r].n \in Amounts
    BY <1>1, <1>3 DEF UpdateWrite, At, SlotKept
  <2>2. /\ fee'.status = "draft" /\ fee'.amount = req[r].n /\ fee'.refunded = fee.refunded
        /\ fee'.intent = fee.intent /\ fee'.invoice = fee.invoice
    BY <1>3, <2>1, KeptTypes DEF UpdateWrite, Write, FeeRow
  <2>3. fee.refunded = 0 /\ fee.intent = NoInvoice /\ fee.invoice = NoInvoice
    BY <1>1, <2>1 DEF RowKept
  <2>4. RowKept(fee', invoices, applied)
    BY <2>1, <2>2, <2>3 DEF RowKept
  <2>5. StripeKept(fee', invoices, emitted, applied)
    BY <1>1, <2>3, NothingRefunded
  <2>6. Keeps
    BY <2>1, <2>2 DEF Keeps, Lifecycle!Next, Lifecycle!Edit
  <2> QED
    BY <1>2, <1>3, <2>4, <2>5, <2>6 DEF UpdateWrite
<1>4. CASE SendWrite(r)
  <2>1. fee.status = "draft"
    BY <1>1, <1>4 DEF SendWrite, At, SlotKept
  <2>2. /\ fee'.status = "sent" /\ fee'.amount = fee.amount /\ fee'.refunded = fee.refunded
        /\ fee'.intent = fee.intent /\ fee'.invoice = fee.invoice
    BY <1>4, <2>1, KeptTypes DEF SendWrite, Write, FeeRow
  <2>3. fee.refunded = 0 /\ fee.intent = NoInvoice /\ fee.invoice = NoInvoice
    BY <1>1, <2>1 DEF RowKept
  <2>4. RowKept(fee', invoices, applied)
    BY <1>1, <2>1, <2>2, <2>3 DEF RowKept
  <2>5. StripeKept(fee', invoices, emitted, applied)
    BY <1>1, <2>3, NothingRefunded
  <2>6. Keeps
    BY <2>1, <2>2 DEF Keeps, Lifecycle!Next, Lifecycle!Advance, Lifecycle!ValidTransitions
  <2> QED
    BY <1>2, <1>4, <2>4, <2>5, <2>6 DEF SendWrite
<1>5. CASE MarkPaidWrite(r)
  <2>1. fee.status = "sent"
    BY <1>1, <1>5 DEF MarkPaidWrite, At, SlotKept
  <2>2. /\ fee'.status = "paid" /\ fee'.amount = fee.amount /\ fee'.refunded = fee.refunded
        /\ fee'.intent = fee.intent /\ fee'.invoice = fee.invoice
    BY <1>5, <2>1, KeptTypes DEF MarkPaidWrite, Write, FeeRow
  <2>3. fee.refunded = 0 /\ fee.intent = NoInvoice
    BY <1>1, <2>1, Unpaid
  <2>4. RowKept(fee', invoices, applied)
    BY <1>1, <2>1, <2>2, <2>3 DEF RowKept
  <2>5. StripeKept(fee', invoices, emitted, applied)
    BY <1>1, <2>3, NothingRefunded
  <2>6. Keeps
    BY <2>1, <2>2 DEF Keeps, Lifecycle!Next, Lifecycle!Advance, Lifecycle!ValidTransitions
  <2> QED
    BY <1>2, <1>5, <2>4, <2>5, <2>6 DEF MarkPaidWrite, At
<1>6. CASE DeleteWrite(r)
  <2>1. fee.status = "draft"
    BY <1>1, <1>6 DEF DeleteWrite, At, LiveWith
  <2>2. /\ fee'.status = "deleted" /\ fee'.amount = 0 /\ fee'.refunded = 0
        /\ fee'.intent = NoInvoice /\ fee'.invoice = NoInvoice
    BY <1>6 DEF DeleteWrite, DeletedFee, Fee
  <2>3. fee.intent = NoInvoice
    BY <1>1, <2>1 DEF RowKept
  <2>4. RowKept(fee', invoices, applied)
    BY <2>2 DEF RowKept
  <2>5. StripeKept(fee', invoices, emitted, applied)
    BY <1>1, <2>3, NothingRefunded
  <2>6. Keeps
    BY <2>1, <2>2 DEF Keeps, Lifecycle!Next, Lifecycle!Remove, Lifecycle!Deleted
  <2> QED
    BY <1>2, <1>6, <2>4, <2>5, <2>6 DEF DeleteWrite
<1>7. CASE InvoiceWrite(r)
  <2>1. fee.status = "draft" /\ invoices[req[r].inv].amount = fee.amount
    BY <1>1, <1>7 DEF InvoiceWrite, At, LiveWith, SlotKept
  <2>2. /\ fee'.status = "sent" /\ fee'.amount = fee.amount /\ fee'.refunded = fee.refunded
        /\ fee'.intent = fee.intent /\ fee'.invoice = req[r].inv
    BY <1>7, <2>1, KeptTypes DEF InvoiceWrite, Write, FeeRow
  <2>3. fee.refunded = 0 /\ fee.intent = NoInvoice
    BY <1>1, <2>1 DEF RowKept
  <2>4. RowKept(fee', invoices, applied)
    BY <1>1, <2>1, <2>2, <2>3 DEF RowKept
  <2>5. StripeKept(fee', invoices, emitted, applied)
    BY <1>1, <2>3, NothingRefunded
  <2>6. Keeps
    BY <2>1, <2>2 DEF Keeps, Lifecycle!Next, Lifecycle!Advance, Lifecycle!ValidTransitions
  <2> QED
    BY <1>2, <1>7, <2>4, <2>5, <2>6 DEF InvoiceWrite
<1> QED
  BY <1>3, <1>4, <1>5, <1>6, <1>7

\* A total that is more than the row has, and no more than Stripe refunded.
LEMMA RefundKept ==
    ASSUME Typed, KeptInv, NEW total \in Nat, fee.intent # NoInvoice,
           fee.refunded <= total, total > 0, total <= invoices[fee.intent].refunded,
           fee'.status = Lifecycle!RefundStatus(total, fee.amount), fee'.refunded = total,
           fee'.amount = fee.amount, fee'.intent = fee.intent, fee'.invoice = fee.invoice
    PROVE  /\ RowKept(fee', invoices, applied) /\ StripeKept(fee', invoices, emitted, applied)
           /\ Keeps
<1>1. RowKept(fee, invoices, applied) /\ StripeKept(fee, invoices, emitted, applied)
  BY DEF KeptInv
<1>2. /\ fee.intent \in Invoices /\ fee.invoice = fee.intent
      /\ fee.status \in {"paid", "partially_refunded", "refunded"}
      /\ invoices[fee.intent].amount = fee.amount
      /\ Event("paid", fee.intent, 0) \in applied
  BY <1>1, KeptTypes DEF RowKept
<1>3. invoices[fee.intent].refunded <= invoices[fee.intent].amount
  BY <1>1, <1>2 DEF StripeKept
<1>n. /\ fee.amount \in Nat /\ fee.refunded \in Nat /\ invoices[fee.intent].refunded \in Nat
  BY <1>2, KeptTypes
<1>4. total <= fee.amount
  BY <1>2, <1>3, <1>n
<1>5. fee'.status \in {"partially_refunded", "refunded"}
  BY DEF Lifecycle!RefundStatus
<1>6. fee.status # "deleted" /\ fee.amount \in Amounts
  BY <1>1, <1>2 DEF RowKept
<1>7. RowKept(fee', invoices, applied)
  BY <1>2, <1>4, <1>5, <1>6 DEF RowKept
<1>8. StripeKept(fee', invoices, emitted, applied)
  BY <1>1, StripeStays
<1>9. Keeps
  <2>1. CASE total = fee.refunded
    <3>1. fee.status = Lifecycle!RefundStatus(fee.refunded, fee.amount)
      BY <1>1, <2>1 DEF RowKept
    <3> QED
      BY <2>1, <3>1, KeepsFee
  <2>2. CASE total # fee.refunded
    <3>1. total \in (fee.refunded + 1) .. fee.amount
      BY <1>4, <1>n, <2>2
    <3>2. fee.status # "refunded"
      <4> SUFFICES ASSUME fee.status = "refunded" PROVE FALSE
        OBVIOUS
      <4>1. fee.refunded > 0
        BY <1>1, <1>n DEF RowKept
      <4>2. fee.refunded >= fee.amount
        BY <1>1, <4>1 DEF RowKept, Lifecycle!RefundStatus
      <4> QED
        BY <3>1, <4>2, <1>n
    <3> QED
      BY <1>2, <3>1, <3>2 DEF Keeps, Lifecycle!Next, Lifecycle!Refund
  <2> QED
    BY <2>1, <2>2
<1> QED
  BY <1>7, <1>8, <1>9

\* A refund the API asked for is written as Stripe made it.
LEMMA RefundWriteKept ==
    ASSUME Careful, Typed, KeptInv, LiveInv, NEW r \in Requests, RefundWrite(r)
    PROVE  KeptInv' /\ Keeps
<1> DEFINE total == req[r].refunded + req[r].n
           s == [req[r] EXCEPT !.pc = "notify"]
<1>0. /\ req[r] # Idle /\ req[r] \in Request /\ req \in [Requests -> Request]
      /\ invoices' = invoices /\ emitted' = emitted /\ applied' = applied
      /\ req[r].op = "stripeRefund" /\ req[r].pc = "write"
  BY KeptTypes DEF RefundWrite, At, Idle, stripe, hooks, Request, Careful
<1>1. Solo(r) /\ SlotKept(req[r], fee, invoices) /\ RowKept(fee, invoices, applied)
  BY <1>0, SoloFacts DEF KeptInv
<1>2. /\ fee.intent = req[r].inv /\ req[r].refunded = fee.refunded /\ req[r].amount = fee.amount
      /\ req[r].n > 0 /\ req[r].refunded + req[r].n <= invoices[fee.intent].refunded
      /\ req[r].inv \in Invoices /\ req[r].n \in Int
  BY <1>0, <1>1 DEF SlotKept, Typed, SlotOK, SlotFine, Request
<1>3. fee.refunded \in Nat /\ fee.intent # NoInvoice
  BY <1>2, KeptTypes
<1>4. /\ total \in Nat /\ fee.refunded <= total /\ total > 0
      /\ total <= invoices[fee.intent].refunded
  BY <1>2, <1>3
<1>5. fee.status # "deleted"
  BY <1>1, <1>3 DEF RowKept
<1>6. fee' = [fee EXCEPT !.status = Lifecycle!RefundStatus(total, fee.amount), !.refunded = total]
  BY <1>2, <1>5 DEF RefundWrite, Write
<1>s. req' = [req EXCEPT ![r] = s] /\ s.op = "stripeRefund" /\ s.pc = "notify"
  BY <1>0 DEF RefundWrite, Goto, Request
<1> HIDE DEF total, s
<1>7. /\ fee'.status = Lifecycle!RefundStatus(total, fee.amount) /\ fee'.refunded = total
      /\ fee'.amount = fee.amount /\ fee'.intent = fee.intent /\ fee'.invoice = fee.invoice
  BY <1>6, KeptTypes DEF FeeRow
<1>8. /\ RowKept(fee', invoices, applied) /\ StripeKept(fee', invoices, emitted, applied)
      /\ Keeps
  BY <1>3, <1>4, <1>7, RefundKept
<1>9. SlotKept(s, fee', invoices')
  BY <1>s DEF SlotKept
<1>10. RowKept(fee', invoices', applied') /\ StripeKept(fee', invoices', emitted', applied')
  BY <1>0, <1>8
<1> QED
  BY <1>0, <1>1, <1>s, <1>8, <1>9, <1>10, KeptStep

\* The events applied grow by one the row already answers for.
LEMMA DoneGrows ==
    ASSUME NEW f, NEW invs, NEW sent, NEW done, NEW e, RowKept(f, invs, done),
           StripeKept(f, invs, sent, done), e.kind = "refunded" => e.total <= f.refunded
    PROVE  RowKept(f, invs, done \cup {e}) /\ StripeKept(f, invs, sent, done \cup {e})
<1>1. RowKept(f, invs, done \cup {e})
  BY DEF RowKept
<1>2. StripeKept(f, invs, sent, done \cup {e})
  BY DEF StripeKept
<1> QED
  BY <1>1, <1>2

\* A refund Stripe tells of is written, unless the row has it already.
LEMMA ApplyKept ==
    ASSUME Typed, KeptInv, LiveInv, NEW r \in Requests, ApplyChargeRefunded(r)
    PROVE  KeptInv' /\ Keeps
<1> DEFINE total == req[r].n
           e == req[r].ev
<1>0. /\ req[r] # Idle /\ req[r] \in Request /\ req \in [Requests -> Request]
      /\ invoices' = invoices /\ emitted' = emitted /\ applied' = applied \cup {e}
      /\ req[r].op = "webhook" /\ req[r].pc = "apply" /\ Finish(r)
  BY KeptTypes DEF ApplyChargeRefunded, Acknowledge, At, Idle, stripe
<1>1. /\ Solo(r) /\ SlotKept(req[r], fee, invoices) /\ RowKept(fee, invoices, applied)
      /\ StripeKept(fee, invoices, emitted, applied)
  BY <1>0, SoloFacts DEF KeptInv
<1>2. /\ fee.intent = e.inv /\ e.kind = "refunded" /\ req[r].amount = fee.amount
      /\ total = Higher(fee.refunded, e.total) /\ e \in emitted
  BY <1>0, <1>1 DEF SlotKept, Typed, SlotOK, SlotFine
<1>3. /\ fee.refunded \in Nat /\ fee.intent # NoInvoice /\ e.total \in Nat /\ e.total > 0
      /\ invoices[fee.intent].refunded \in Nat
  BY <1>2, KeptTypes
<1>4. e.total <= invoices[fee.intent].refunded /\ fee.refunded <= invoices[fee.intent].refunded
  BY <1>1, <1>2, <1>3 DEF RowKept, StripeKept
<1>5. /\ total \in Nat /\ fee.refunded <= total /\ total > 0 /\ e.total <= total
      /\ total <= invoices[fee.intent].refunded
  BY <1>2, <1>3, <1>4 DEF Higher
<1>6. fee.status # "deleted"
  BY <1>1, <1>3 DEF RowKept
<1>7. fee' = [fee EXCEPT !.status = Lifecycle!RefundStatus(total, fee.amount), !.refunded = total]
  BY <1>2, <1>6 DEF ApplyChargeRefunded, Write
<1> HIDE DEF total, e
<1>8. /\ fee'.status = Lifecycle!RefundStatus(total, fee.amount) /\ fee'.refunded = total
      /\ fee'.amount = fee.amount /\ fee'.intent = fee.intent /\ fee'.invoice = fee.invoice
  BY <1>7, KeptTypes DEF FeeRow
<1>9. /\ RowKept(fee', invoices, applied) /\ StripeKept(fee', invoices, emitted, applied)
      /\ Keeps
  BY <1>3, <1>5, <1>8, RefundKept
<1>10. RowKept(fee', invoices', applied') /\ StripeKept(fee', invoices', emitted', applied')
  BY <1>0, <1>5, <1>8, <1>9, DoneGrows
<1> QED
  BY <1>0, <1>1, <1>9, <1>10, IdleKept, KeptStep DEF Finish

\* A payment Stripe tells of finds a fee that waits for it: its event was not applied before.
LEMMA PaidKept ==
    ASSUME Typed, KeptInv, LiveInv, RowInv, OnceInv, NEW r \in Requests, HandleInvoicePaid(r)
    PROVE  KeptInv' /\ Keeps
<1> DEFINE e == req[r].ev
           s == [req[r] EXCEPT !.pc = "notify"]
<1>0. /\ req[r] # Idle /\ req[r] \in Request /\ req \in [Requests -> Request]
      /\ invoices' = invoices /\ emitted' = emitted /\ applied' = applied \cup {e}
      /\ req[r].op = "webhook" /\ req[r].pc = "handle" /\ e.kind = "paid" /\ e \in emitted
  BY KeptTypes DEF HandleInvoicePaid, At, Idle, stripe, Typed, SlotOK, SlotFine
<1>1. /\ Solo(r) /\ LiveWith(req[r], fee, invoices) /\ RowKept(fee, invoices, applied)
      /\ StripeKept(fee, invoices, emitted, applied)
  BY <1>0, SoloFacts DEF KeptInv
<1>2. e \notin applied /\ e.inv \in Invoices /\ e = Event("paid", e.inv, 0)
  BY <1>0, KeptTypes DEF OnceInv, EventAppliedOnce
<1>3. invoices[e.inv].state = "paid"
  BY <1>0 DEF RowInv, EventsFine
<1>4. fee.invoice = e.inv /\ fee.invoice # NoInvoice
  BY <1>0, <1>1, <1>2, <1>3, KeptTypes DEF LiveWith, Holds
<1>5. fee.intent = NoInvoice
  BY <1>1, <1>2, <1>4 DEF RowKept
<1>6. fee.refunded = 0
  BY <1>1, <1>5, KeptTypes DEF RowKept
<1>7. fee.status \in {"sent", "paid"}
  BY <1>1, <1>4, <1>6, KeptTypes DEF RowKept
<1>8. PICK intent \in {e.inv, NoInvoice} :
          fee' = [fee EXCEPT !.status = "paid", !.intent = intent, !.paidAt = TRUE]
  BY <1>7 DEF HandleInvoicePaid, Write
<1>s. req' = [req EXCEPT ![r] = s] /\ s.op = "webhook" /\ s.pc = "notify"
  BY <1>0 DEF HandleInvoicePaid, Goto, Request
<1> HIDE DEF e, s
<1>9. /\ fee'.status = "paid" /\ fee'.refunded = 0 /\ fee'.amount = fee.amount
      /\ fee'.intent = intent /\ fee'.invoice = e.inv
  BY <1>4, <1>6, <1>8, KeptTypes DEF FeeRow
<1>10. 0 <= invoices[e.inv].refunded
  BY <1>2, KeptTypes
<1>11. RowKept(fee', invoices, applied')
  BY <1>0, <1>1, <1>2, <1>4, <1>7, <1>9, <1>10 DEF RowKept
<1>12. StripeKept(fee', invoices, emitted, applied')
  <2>1. StripeKept(fee', invoices, emitted, applied) /\ \A x \in emitted : x.kind # "refunded"
    BY <1>1, <1>5, NothingRefunded
  <2> QED
    BY <1>0, <2>1 DEF StripeKept
<1>13. Keeps
  <2>1. CASE fee.status = "sent"
    BY <1>6, <1>9, <2>1 DEF Keeps, Lifecycle!Next, Lifecycle!Advance, Lifecycle!ValidTransitions
  <2>2. CASE fee.status = "paid"
    BY <1>6, <1>9, <2>2, KeepsFee
  <2> QED
    BY <1>7, <2>1, <2>2
<1>14. SlotKept(s, fee', invoices')
  BY <1>s DEF SlotKept
<1>15. RowKept(fee', invoices', applied') /\ StripeKept(fee', invoices', emitted', applied')
  BY <1>0, <1>11, <1>12
<1> QED
  BY <1>0, <1>1, <1>s, <1>13, <1>14, <1>15, KeptStep

\* A delivery looks the fee up, or is done.
LEMMA WebhookKept ==
    ASSUME Careful, Typed, KeptInv, LiveInv, NEW r \in Requests,
           \/ WebhookSelect(r) \/ WebhookInsert(r) \/ HandleInvoicePaymentFailed(r)
           \/ HandleChargeRefunded(r)
    PROVE  KeptInv' /\ Keeps
<1> DEFINE e == req[r].ev
<1>0. /\ req[r] # Idle /\ req[r] \in Request /\ req \in [Requests -> Request]
      /\ fee' = fee /\ invoices' = invoices /\ emitted' = emitted /\ req[r].op = "webhook"
      /\ UNCHANGED stripe
  BY KeptTypes DEF WebhookSelect, WebhookInsert, HandleInvoicePaymentFailed,
     HandleChargeRefunded, At, Idle, stripe
<1>1. /\ Solo(r) /\ SlotKept(req[r], fee, invoices) /\ RowKept(fee, invoices, applied)
      /\ StripeKept(fee, invoices, emitted, applied)
  BY <1>0, SoloFacts DEF KeptInv
<1>2. CASE WebhookSelect(r) \/ WebhookInsert(r)
  <2>1. Finish(r) \/ Goto(r, "insert") \/ Goto(r, "handle")
    BY <1>2 DEF WebhookSelect, WebhookInsert, Acknowledge
  <2>2. applied' = applied
    BY <1>2 DEF WebhookSelect, WebhookInsert
  <2>3. CASE Finish(r)
    BY <1>0, <1>1, <2>2, <2>3, IdleKept, StillKept DEF Finish
  <2>4. ASSUME NEW pc \in {"insert", "handle"}, Goto(r, pc) PROVE KeptInv' /\ Keeps
    <3> DEFINE s == [req[r] EXCEPT !.pc = pc]
    <3>1. req' = [req EXCEPT ![r] = s] /\ s.op = "webhook" /\ s.pc = pc
      BY <1>0, <2>4 DEF Goto, Request
    <3> HIDE DEF s
    <3>2. SlotKept(s, fee, invoices)
      BY <3>1 DEF SlotKept
    <3> QED
      BY <1>0, <1>1, <2>2, <3>1, <3>2, StillKept
  <2> QED
    BY <2>1, <2>3, <2>4
<1>3. ASSUME applied' = applied \cup {e}, Finish(r), e.kind = "refunded" => e.total <= fee.refunded
      PROVE  KeptInv' /\ Keeps
  <2>1. RowKept(fee', invoices', applied') /\ StripeKept(fee', invoices', emitted', applied')
    BY <1>0, <1>1, <1>3, DoneGrows
  <2> QED
    BY <1>0, <1>1, <1>3, <2>1, IdleKept, KeptStep, KeepsFee DEF Finish
<1>4. CASE HandleInvoicePaymentFailed(r)
  BY <1>3, <1>4 DEF HandleInvoicePaymentFailed, Acknowledge
<1>5. CASE HandleChargeRefunded(r)
  <2>1. e.kind = "refunded" /\ e \in emitted
    BY <1>5 DEF HandleChargeRefunded, At, Typed, SlotOK, SlotFine
  <2>2. fee.intent = e.inv
    BY <1>1, <2>1 DEF StripeKept
  <2> DEFINE s == [req[r] EXCEPT !.pc = "apply", !.amount = fee.amount,
                                 !.n = Higher(fee.refunded, e.total)]
  <2>3. req' = [req EXCEPT ![r] = s] /\ applied' = applied
    BY <1>0, <1>5, <2>2 DEF HandleChargeRefunded
  <2>4. /\ s.op = "webhook" /\ s.pc = "apply" /\ s.ev = e /\ s.amount = fee.amount
        /\ s.n = Higher(fee.refunded, e.total)
    BY <1>0 DEF Request
  <2> HIDE DEF s, e
  <2>5. SlotKept(s, fee, invoices)
    BY <2>1, <2>2, <2>4 DEF SlotKept
  <2> QED
    BY <1>0, <1>1, <2>3, <2>5, StillKept
<1> QED
  BY <1>2, <1>4, <1>5

\* The last step of a handler, and a handler that dies.
LEMMA EndKept ==
    ASSUME Typed, KeptInv, LiveInv, NEW r \in Requests,
           MarkPaidNotify(r) \/ RefundNotify(r) \/ NotifyInvoicePaid(r) \/ Die(r)
    PROVE  KeptInv' /\ Keeps
<1>1. Finish(r) /\ UNCHANGED <<fee, stripe, applied>>
  BY DEF MarkPaidNotify, RefundNotify, NotifyInvoicePaid, Die, Acknowledge, hooks
<1>2. CASE req[r] # Idle
  BY <1>1, <1>2, SoloFacts, IdleKept, StillKept DEF Finish
<1>3. CASE req[r] = Idle
  <2>1. UNCHANGED <<req, fee, invoices, emitted, applied>>
    BY <1>1, <1>3, KeptTypes DEF Finish, stripe
  <2> QED
    BY <2>1, KeepsFee DEF KeptInv
<1> QED
  BY <1>2, <1>3

LEMMA InvoiceKept ==
    ASSUME Typed, KeptInv, LiveInv, RowInv, NEW r \in Requests,
           InvoiceCreate(r) \/ InvoiceFinalize(r)
    PROVE  KeptInv' /\ Keeps
<1>0. /\ req[r] # Idle /\ req[r] \in Request /\ req \in [Requests -> Request]
      /\ fee' = fee /\ emitted' = emitted /\ applied' = applied /\ req[r].op = "invoice"
  <2>1. req[r] \in Request /\ req \in [Requests -> Request]
    BY KeptTypes
  <2>2. /\ fee' = fee /\ emitted' = emitted /\ applied' = applied /\ req[r].op = "invoice"
    BY DEF InvoiceCreate, InvoiceFinalize, At, hooks
  <2> QED
    BY <2>1, <2>2 DEF Idle
<1>1. /\ Solo(r) /\ SlotKept(req[r], fee, invoices) /\ RowKept(fee, invoices, applied)
      /\ StripeKept(fee, invoices, emitted, applied) /\ LiveWith(req[r], fee, invoices)
  BY <1>0, SoloFacts DEF KeptInv
<1>2. fee.intent = NoInvoice /\ fee.invoice = NoInvoice /\ fee.refunded = 0
  BY <1>0, <1>1 DEF LiveWith, RowKept
\* What becomes of the invoices does not concern a fee that has none.
<1>3. ASSUME NEW s, req' = [req EXCEPT ![r] = s], SlotKept(s, fee, invoices'),
             \A j \in Invoices : /\ invoices'[j].refunded <= invoices'[j].amount
                                 /\ invoices'[j].refunded = 0
      PROVE  KeptInv' /\ Keeps
  <2>1. RowKept(fee', invoices', applied')
    BY <1>0, <1>1, <1>2 DEF RowKept
  <2>2. \A e \in emitted : e.kind # "refunded"
    BY <1>1, <1>2, NothingRefunded
  <2>3. applied \subseteq emitted
    BY KeptTypes
  <2>4. StripeKept(fee', invoices', emitted', applied')
    BY <1>0, <1>3, <2>2, <2>3 DEF StripeKept
  <2> QED
    BY <1>0, <1>1, <1>3, <2>1, <2>4, KeptStep, KeepsFee
<1>4. invoices \in [Invoices -> [state : {"none", "draft", "open", "paid"},
                                 amount : Nat, refunded : Nat]]
  BY DEF Typed, TypeOK
<1>5. \A j \in Invoices : invoices[j].refunded = 0 /\ invoices[j].amount \in Nat
  <2>1. \A e \in emitted : e.kind # "refunded"
    BY <1>1, <1>2, NothingRefunded
  <2>2. \A j \in Invoices : ~(invoices[j].refunded > 0)
    BY <1>1, <2>1 DEF StripeKept, Event
  <2> QED
    BY <2>2, KeptTypes
<1>6. CASE InvoiceCreate(r)
  <2>1. PICK i \in Invoices :
          /\ invoices' = [invoices EXCEPT ![i] = [@ EXCEPT !.state = "draft", !.amount = req[r].amount]]
          /\ req' = [req EXCEPT ![r] = [@ EXCEPT !.pc = "finalize", !.inv = i]]
    BY <1>6 DEF InvoiceCreate
  <2>2. req[r].amount = fee.amount /\ req[r].amount \in Nat
    BY <1>0, <1>1, <1>6 DEF InvoiceCreate, At, SlotKept, Request
  <2>3. /\ invoices'[i].amount = fee.amount /\ invoices'[i].refunded = 0
        /\ \A j \in Invoices \ {i} : invoices'[j] = invoices[j]
    BY <1>4, <1>5, <2>1, <2>2
  <2> DEFINE s == [req[r] EXCEPT !.pc = "finalize", !.inv = i]
  <2>4. req' = [req EXCEPT ![r] = s] /\ s.op = "invoice" /\ s.pc = "finalize" /\ s.inv = i
    BY <1>0, <2>1 DEF Request
  <2> HIDE DEF s
  <2>5. SlotKept(s, fee, invoices')
    BY <2>3, <2>4 DEF SlotKept
  <2>6. fee.amount \in Nat
    BY <2>2
  <2>7. \A j \in Invoices : /\ invoices'[j].refunded <= invoices'[j].amount
                            /\ invoices'[j].refunded = 0
    BY <1>5, <2>3, <2>6
  <2> QED
    BY <1>3, <2>4, <2>5, <2>7
<1>7. CASE InvoiceFinalize(r)
  <2>1. req[r].inv \in Invoices /\ Goto(r, "write") /\ req[r].pc = "finalize"
        /\ invoices' = [invoices EXCEPT ![req[r].inv].state = "open"]
    BY <1>7 DEF InvoiceFinalize, At, RowInv, RowSlot, Finalizing
  <2>2. \A j \in Invoices : /\ invoices'[j].amount = invoices[j].amount
                            /\ invoices'[j].refunded = invoices[j].refunded
    BY <1>4, <2>1
  <2> DEFINE s == [req[r] EXCEPT !.pc = "write"]
  <2>3. req' = [req EXCEPT ![r] = s] /\ s.op = "invoice" /\ s.pc = "write" /\ s.inv = req[r].inv
    BY <1>0, <2>1 DEF Request, Goto
  <2> HIDE DEF s
  <2>4. SlotKept(s, fee, invoices')
    BY <1>0, <1>1, <2>1, <2>2, <2>3 DEF SlotKept
  <2>5. \A j \in Invoices : /\ invoices'[j].refunded <= invoices'[j].amount
                            /\ invoices'[j].refunded = 0
    BY <1>5, <2>2
  <2> QED
    BY <1>3, <2>3, <2>4, <2>5
<1> QED
  BY <1>6, <1>7

\* Stripe refunds, at the API's request, part of the payment of the fee.
LEMMA StripeRefundKept ==
    ASSUME Typed, KeptInv, LiveInv, NEW r \in Requests, StripeRefundCall(r)
    PROVE  KeptInv' /\ Keeps
<1> DEFINE i == req[r].inv
           n == req[r].n
           s == [req[r] EXCEPT !.pc = "write"]
<1>0. /\ req[r] # Idle /\ req[r] \in Request /\ req \in [Requests -> Request] /\ n \in Int
      /\ fee' = fee /\ applied' = applied /\ req[r].op = "stripeRefund" /\ req[r].pc = "stripe"
  BY KeptTypes DEF StripeRefundCall, At, Idle, hooks, Request
<1>1. /\ Solo(r) /\ SlotKept(req[r], fee, invoices) /\ RowKept(fee, invoices, applied)
      /\ StripeKept(fee, invoices, emitted, applied)
  BY <1>0, SoloFacts DEF KeptInv
<1>2. CASE Finish(r) /\ UNCHANGED stripe
  BY <1>0, <1>1, <1>2, IdleKept, StillKept DEF Finish
<1>3. CASE TakeRefund(i, n) /\ Goto(r, "write")
  <2>1. /\ fee.intent = i /\ req[r].refunded = fee.refunded /\ i \in Invoices
        /\ req[r].amount = fee.amount /\ n <= fee.amount - fee.refunded
    BY <1>0, <1>1 DEF SlotKept, Typed, SlotOK, SlotFine
  <2>2. fee.refunded <= invoices[i].refunded
    BY <1>1, <2>1, KeptTypes DEF RowKept
  <2> DEFINE total == invoices[i].refunded + n
  <2>3. /\ invoices[i].state = "paid" /\ n > 0 /\ total <= invoices[i].amount
        /\ invoices' = [invoices EXCEPT ![i].refunded = @ + n]
        /\ emitted' = emitted \cup {Event("refunded", i, total)}
    BY <1>3 DEF TakeRefund
  <2>4. /\ invoices'[i].refunded = total /\ invoices'[i].amount = invoices[i].amount
        /\ invoices'[i].state = "paid"
        /\ \A j \in Invoices \ {i} : invoices'[j] = invoices[j]
    BY <2>1, <2>3 DEF Typed, TypeOK
  <2>5. req' = [req EXCEPT ![r] = s] /\ s.op = "stripeRefund" /\ s.pc = "write" /\ s.inv = i
        /\ s.refunded = fee.refunded /\ s.amount = fee.amount /\ s.n = n
    BY <1>0, <1>3, <2>1 DEF Request, Goto
  <2>6. /\ invoices[i].refunded \in Nat /\ fee.refunded \in Nat /\ total \in Nat
        /\ \A e \in emitted : e.total \in Nat /\ e.inv \in Invoices
    BY <1>0, <2>1, <2>3, KeptTypes
  <2>7. fee.refunded + n <= total /\ invoices[i].refunded <= total
    BY <1>0, <2>2, <2>3, <2>6
  <2> HIDE DEF i, n, s, total
  <2>8. SlotKept(s, fee, invoices')
    BY <2>1, <2>3, <2>4, <2>5, <2>7 DEF SlotKept
  <2>9. RowKept(fee, invoices', applied)
    <3>1. fee.refunded <= total
      BY <2>2, <2>6, <2>7
    <3>2. \A j \in Invoices : invoices'[j].amount = invoices[j].amount
      BY <2>4
    <3>3. fee.invoice \in Invoices \cup {NoInvoice}
      BY KeptTypes
    <3> QED
      BY <1>1, <2>1, <2>4, <3>1, <3>2, <3>3 DEF RowKept
  <2>10. StripeKept(fee, invoices', emitted', applied)
    <3> DEFINE x == Event("refunded", i, total)
    <3>1. x.kind = "refunded" /\ x.inv = i /\ x.total = total
      BY DEF Event
    <3>2. \A e \in emitted' : e.kind = "refunded" =>
                fee.intent = e.inv /\ e.total <= invoices'[e.inv].refunded
      <4> SUFFICES ASSUME NEW e \in emitted', e.kind = "refunded"
                   PROVE  fee.intent = e.inv /\ e.total <= invoices'[e.inv].refunded
        OBVIOUS
      <4>1. CASE e = x
        BY <2>1, <2>4, <2>6, <3>1, <4>1
      <4>2. CASE e \in emitted
        <5>1. e.inv = i /\ e.total <= invoices[i].refunded /\ e.total \in Nat
          BY <1>1, <2>1, <2>6, <4>2 DEF StripeKept
        <5> QED
          BY <2>1, <2>4, <2>6, <2>7, <5>1
      <4> QED
        BY <2>3, <4>1, <4>2
    <3>3. \A j \in Invoices :
            /\ invoices'[j].state # "paid" => invoices'[j].refunded = 0
            /\ invoices'[j].refunded <= invoices'[j].amount
            /\ invoices'[j].refunded > 0 => Event("refunded", j, invoices'[j].refunded) \in emitted'
      <4> SUFFICES ASSUME NEW j \in Invoices
                   PROVE  /\ invoices'[j].state # "paid" => invoices'[j].refunded = 0
                          /\ invoices'[j].refunded <= invoices'[j].amount
                          /\ invoices'[j].refunded > 0 =>
                                Event("refunded", j, invoices'[j].refunded) \in emitted'
        OBVIOUS
      <4>1. CASE j = i
        BY <2>3, <2>4, <4>1
      <4>2. CASE j # i
        BY <1>1, <2>3, <2>4, <4>2 DEF StripeKept
      <4> QED
        BY <4>1, <4>2
    <3>4. \A e \in applied : e.kind = "refunded" => e.total <= fee.refunded
      BY <1>1 DEF StripeKept
    <3> QED
      BY <3>2, <3>3, <3>4 DEF StripeKept
  <2>11. SlotKept(s, fee', invoices') /\ RowKept(fee', invoices', applied')
         /\ StripeKept(fee', invoices', emitted', applied')
    BY <1>0, <2>8, <2>9, <2>10
  <2> QED
    BY <1>0, <1>1, <2>5, <2>11, KeptStep, KeepsFee
<1> QED
  BY <1>2, <1>3 DEF StripeRefundCall

\* The client pays, or fails to.
LEMMA PayKept ==
    ASSUME Typed, KeptInv, RowInv, NEW i \in Invoices, PayInvoice(i) \/ FailPayment(i)
    PROVE  KeptInv' /\ Keeps
<1>0. /\ fee' = fee /\ req' = req /\ applied' = applied /\ invoices[i].state = "open"
      /\ RowKept(fee, invoices, applied) /\ StripeKept(fee, invoices, emitted, applied)
  BY DEF PayInvoice, FailPayment, hooks, KeptInv
<1>1. \A j \in Invoices : /\ invoices'[j].amount = invoices[j].amount
                          /\ invoices'[j].refunded = invoices[j].refunded
                          /\ invoices'[j].state # "paid" => invoices[j].state # "paid"
  BY <1>0 DEF PayInvoice, FailPayment, Typed, TypeOK
<1>2. emitted \subseteq emitted' /\ \A e \in emitted' : e \in emitted \/ e.kind # "refunded"
  BY DEF PayInvoice, FailPayment, Event
<1>3. fee.intent \in Invoices \cup {NoInvoice} /\ fee.invoice \in Invoices \cup {NoInvoice}
      /\ \A e \in emitted : e.inv \in Invoices
  BY KeptTypes
<1>4. RowKept(fee', invoices', applied')
  BY <1>0, <1>1, <1>3 DEF RowKept
<1>5. StripeKept(fee', invoices', emitted', applied')
  <2>1. \A e \in emitted' : e.kind = "refunded" =>
            fee.intent = e.inv /\ e.total <= invoices'[e.inv].refunded
    BY <1>0, <1>1, <1>2, <1>3 DEF StripeKept
  <2>2. \A j \in Invoices :
            /\ invoices'[j].state # "paid" => invoices'[j].refunded = 0
            /\ invoices'[j].refunded <= invoices'[j].amount
            /\ invoices'[j].refunded > 0 => Event("refunded", j, invoices'[j].refunded) \in emitted'
    BY <1>0, <1>1, <1>2 DEF StripeKept
  <2>3. \A e \in applied : e.kind = "refunded" => e.total <= fee.refunded
    BY <1>0 DEF StripeKept
  <2> QED
    BY <1>0, <2>1, <2>2, <2>3 DEF StripeKept
<1>6. ASSUME NEW r \in Requests PROVE SlotKept(req'[r], fee', invoices')
  <2>1. SlotKept(req[r], fee, invoices)
    BY DEF KeptInv
  <2>2. req[r].op = "stripeRefund" => req[r].inv \in Invoices
    BY DEF Typed, SlotOK, SlotFine
  <2>3. req[r].op = "invoice" /\ req[r].pc \in {"finalize", "write"} => req[r].inv \in Invoices
    BY DEF RowInv, RowSlot, Finalizing
  <2> QED
    BY <1>0, <1>1, <2>1, <2>2, <2>3 DEF SlotKept
<1> QED
  BY <1>0, <1>4, <1>5, <1>6, KeepsFee DEF KeptInv

\* A step that no careful environment takes.
LEMMA Refused ==
    ASSUME Careful, Typed, NEW r \in Requests PROVE ~CancelWrite(r)
<1>1. req[r].op \in Operations \cup {"none"}
  BY KeptTypes DEF Request
<1> QED
  BY <1>1 DEF Careful, CancelWrite, At

LEMMA NextKept ==
    Careful /\ KeptInv /\ LiveInv /\ RowInv /\ OnceInv /\ Typed /\ [Next]_vars => KeptInv' /\ Keeps
<1> SUFFICES ASSUME Careful, KeptInv, LiveInv, RowInv, OnceInv, Typed, [Next]_vars
             PROVE  KeptInv' /\ Keeps
  OBVIOUS
<1>1. ASSUME NEW r \in Requests,
             \/ UpdateRead(r) \/ SendRead(r) \/ MarkPaidRead(r) \/ CancelRead(r) \/ RefundRead(r)
             \/ DeleteRead(r) \/ InvoiceRead(r) \/ StripeRefundRead(r)
             \/ \E e \in emitted : Deliver(r, e)
      PROVE  KeptInv' /\ Keeps
  BY <1>1, StartKept
<1>2. ASSUME NEW r \in Requests, Step(r) PROVE KeptInv' /\ Keeps
  <2>1. CASE UpdateWrite(r) \/ SendWrite(r) \/ MarkPaidWrite(r) \/ DeleteWrite(r) \/ InvoiceWrite(r)
    BY <2>1, WriteKept
  <2>2. CASE RefundWrite(r)
    BY <2>2, RefundWriteKept
  <2>3. CASE MarkPaidNotify(r) \/ RefundNotify(r) \/ NotifyInvoicePaid(r)
    BY <2>3, EndKept
  <2>4. CASE InvoiceCreate(r) \/ InvoiceFinalize(r)
    BY <2>4, InvoiceKept
  <2>5. CASE StripeRefundCall(r)
    BY <2>5, StripeRefundKept
  <2>6. CASE \/ WebhookSelect(r) \/ WebhookInsert(r) \/ HandleInvoicePaymentFailed(r)
             \/ HandleChargeRefunded(r)
    BY <2>6, WebhookKept
  <2>7. CASE HandleInvoicePaid(r)
    BY <2>7, PaidKept
  <2>8. CASE ApplyChargeRefunded(r)
    BY <2>8, ApplyKept
  <2> QED
    BY <1>2, <2>1, <2>2, <2>3, <2>4, <2>5, <2>6, <2>7, <2>8, Refused DEF Step
<1>3. ASSUME NEW r \in Requests, Die(r) PROVE KeptInv' /\ Keeps
  BY <1>3, EndKept
<1>4. ASSUME NEW i \in Invoices, PayInvoice(i) \/ FailPayment(i) PROVE KeptInv' /\ Keeps
  BY <1>4, PayKept
<1>5. ASSUME NEW i \in Invoices PROVE ~DashboardRefund(i)
  BY DEF Careful, DashboardRefund
<1>6. CASE UNCHANGED vars
  <2>1. UNCHANGED <<req, fee, invoices, emitted, applied>>
    BY <1>6 DEF vars
  <2> QED
    BY <2>1, KeepsFee DEF KeptInv
<1> QED
  BY <1>1, <1>2, <1>3, <1>4, <1>5, <1>6 DEF Next

LEMMA InitKept == Init => KeptInv /\ Lifecycle!Init
<1> SUFFICES ASSUME Init PROVE KeptInv /\ Lifecycle!Init
  OBVIOUS
<1>1. PICK a \in Amounts : fee = Fee("draft", a)
  BY DEF Init
<1>2. /\ fee.status = "draft" /\ fee.amount = a /\ fee.refunded = 0
      /\ fee.intent = NoInvoice /\ fee.invoice = NoInvoice
  BY <1>1 DEF Fee
<1>3. RowKept(fee, invoices, applied)
  BY <1>2 DEF RowKept
<1>4. StripeKept(fee, invoices, emitted, applied)
  BY DEF Init, StripeKept, NoStripeInvoice
<1>5. Lifecycle!Init
  BY <1>2 DEF Lifecycle!Init
<1> QED
  BY <1>3, <1>4, <1>5, IdleKept DEF Init, KeptInv

LEMMA AlwaysKept == Spec => [](Careful => KeptInv)
<1>1. Init => (Careful => KeptInv)
  BY InitKept
<1>2. (Careful => KeptInv) /\ (Unbroken => LiveInv) /\ RowInv /\ OnceInv /\ Typed /\ [Next]_vars
        => (Careful' => KeptInv')
  BY NextKept DEF Careful, Unbroken
<1> QED
  BY <1>1, <1>2, AlwaysLive, AlwaysRow, AlwaysOnce, AlwaysTyped, PTL DEF Spec

\* Of a careful environment, whichever requests die half way and however often Stripe delivers:
\* once nothing is in flight and every event is applied, the fee says what Stripe refunded,
\* and is refunded exactly when nothing is left.
THEOREM LedgersAlwaysAgree == Spec => [](Careful => LedgersAgree)
<1>1. KeptInv /\ Typed => LedgersAgree
  <2> SUFFICES ASSUME KeptInv, Typed, emitted \subseteq applied, fee.intent # NoInvoice
               PROVE  /\ fee.refunded = invoices[fee.intent].refunded
                      /\ fee.status = "refunded" <=> fee.refunded = fee.amount
    BY DEF LedgersAgree
  <2> DEFINE i == fee.intent
             total == invoices[i].refunded
  <2>1. /\ i \in Invoices /\ total \in Nat /\ fee.refunded \in Nat /\ fee.amount \in Nat
        /\ \A a \in Amounts : a > 0
    BY KeptTypes
  <2>2. RowKept(fee, invoices, applied) /\ StripeKept(fee, invoices, emitted, applied)
    BY DEF KeptInv
  <2>3. fee.refunded <= total /\ fee.amount > 0
    BY <2>1, <2>2 DEF RowKept
  <2>4. total > 0 => total <= fee.refunded
    <3>1. total > 0 => Event("refunded", i, total) \in applied
      BY <2>1, <2>2 DEF StripeKept
    <3>2. /\ Event("refunded", i, total).kind = "refunded"
          /\ Event("refunded", i, total).total = total
      BY DEF Event
    <3> QED
      BY <2>2, <3>1, <3>2 DEF StripeKept
  <2>5. fee.refunded = total
    BY <2>1, <2>3, <2>4
  <2>6. fee.status = "refunded" => fee.refunded > 0
    BY <2>1, <2>2 DEF RowKept
  <2>7. fee.refunded > 0 => /\ fee.refunded <= fee.amount
                            /\ fee.status = Lifecycle!RefundStatus(fee.refunded, fee.amount)
    BY <2>2 DEF RowKept
  <2>8. fee.status = "refunded" <=> fee.refunded = fee.amount
    BY <2>1, <2>3, <2>6, <2>7 DEF Lifecycle!RefundStatus
  <2> QED
    BY <2>5, <2>8
<1>2. (Careful => KeptInv) /\ Typed => (Careful => LedgersAgree)
  BY <1>1
<1> QED
  BY <1>2, AlwaysKept, AlwaysTyped, PTL

\* Of a careful environment a fee implements its lifecycle: every step of every handler, every
\* webhook and every death is a step of it, or leaves the status and the money alone.
THEOREM KeepsItsPromise == ASSUME Careful PROVE Spec => Promise
<1>1. Init => Lifecycle!Init
  BY InitKept
<1>2. (Careful => KeptInv) /\ (Unbroken => LiveInv) /\ RowInv /\ OnceInv /\ Typed /\ [Next]_vars
        => [Lifecycle!Next]_(Lifecycle!feeVars)
  BY NextKept DEF Careful, Keeps
<1> QED
  BY <1>1, <1>2, AlwaysKept, AlwaysLive, AlwaysRow, AlwaysOnce, AlwaysTyped, PTL
     DEF Spec, Promise, Lifecycle!Spec
================================================================================
