------------------------------- MODULE TripOrders -------------------------------
(* The stored orders of a trip, draft, finalized, sent (financials/              *)
(* trip-order.service.ts), and the mail that carries one (email/email.service.ts *)
(* with its log; the provider is external).                                      *)
EXTENDS Trips

OrderExists(o) == db.order[o].trip # 0
OrdersOf(t) == {o \in Orders : db.order[o].trip = t}

GenerateTripOrderSnapshot(r) == \E t \in Trips :
    Arrive(r, [Idle EXCEPT !.op = "generateOrder", !.pc = <<"trip", "version", "insert">>, !.t = t])

GenerateReadTrip(r) ==
    /\ Due(r, "generateOrder", "trip")
    /\ IF Existing(req[r].t) THEN Go(r, Next1(r)) /\ UNCHANGED db ELSE Refuse(r)

GenerateNextVersion(r) ==
    /\ Due(r, "generateOrder", "version")
    /\ Go(r, [Next1(r) EXCEPT
                !.n = MaxOr({db.order[o].version : o \in OrdersOf(req[r].t)}, 0) + 1])
    /\ UNCHANGED db

VersionTaken(r) == \E o \in OrdersOf(req[r].t) : db.order[o].version = req[r].n

\* The version may have been taken, or the trip removed, since they were read.
GenerateInsert(r) ==
    LET o == db.made.order + 1
    IN  /\ Due(r, "generateOrder", "insert") /\ o \in Orders
        /\ IF Existing(req[r].t) /\ ~VersionTaken(r)
           THEN /\ db' = [db EXCEPT !.made.order = o,
                    !.order[o] = [trip |-> req[r].t, version |-> req[r].n, status |-> "draft"]]
                /\ Finish(r)
           ELSE Refuse(r)

-----------------------------------------------------------------------------
(* finalizeTripOrder, on its own or as a part of sending                     *)

FinalizeSteps == <<"finalizeFind", "finalizeWrite">>

FinalizeTripOrder(r) == \E o \in Orders :
    Arrive(r, [Idle EXCEPT !.op = "finalizeOrder", !.pc = FinalizeSteps, !.o = o])

OfOrder(r, step) == req[r].op \in {"finalizeOrder", "sendOrder"} /\ Due(r, req[r].op, step)

FinalizeFind(r) ==
    /\ OfOrder(r, "finalizeFind")
    /\ IF db.order[req[r].o].status = "draft" THEN Go(r, Next1(r)) /\ UNCHANGED db ELSE Refuse(r)

\* Written by id: whatever the order has become since it was read.
FinalizeWrite(r) ==
    /\ OfOrder(r, "finalizeWrite")
    /\ IF OrderExists(req[r].o)
       THEN db' = [db EXCEPT !.order[req[r].o].status = "finalized"] /\ Finish(r)
       ELSE Refuse(r)

-----------------------------------------------------------------------------
(* sendStoredTripOrderEmail                                                  *)

SendTripOrder(r) == \E o \in Orders :
    Arrive(r, [Idle EXCEPT !.op = "sendOrder", !.o = o,
                !.pc = <<"get", "prepare", "log", "provider", "markLog", "markFind", "markWrite">>])

\* Fault: a draft is sent as it is.
SendGetOnly(r) ==
    /\ Due(r, "sendOrder", "get")
    /\ IF OrderExists(req[r].o)
       THEN Go(r, [Next1(r) EXCEPT !.t = db.order[req[r].o].trip]) /\ UNCHANGED db
       ELSE Refuse(r)

\* A draft is finalized first.
SendGet(r) ==
    LET order == db.order[req[r].o]
    IN  /\ Due(r, "sendOrder", "get")
        /\ IF OrderExists(req[r].o)
           THEN /\ Go(r, [req[r] EXCEPT !.t = order.trip,
                    !.pc = (IF order.status = "draft" THEN FinalizeSteps ELSE <<>>) \o Tail(@)])
                /\ UNCHANGED db
           ELSE Refuse(r)

\* The document, the recipients (there may be none) and the trip are read.
SendPrepare(r) ==
    /\ Due(r, "sendOrder", "prepare")
    /\ IF OrderExists(req[r].o) THEN (Go(r, Next1(r)) \/ Reply(r, "ok")) /\ UNCHANGED db
       ELSE Refuse(r)

\* sendEmail: the entry of the log comes first; the filter may leave no recipient.
SendEmailLog(r) ==
    /\ Due(r, "sendOrder", "log")
    /\ IF Existing(req[r].t)
       THEN /\ db' = [db EXCEPT !.mail = Append(@,
                        [order |-> req[r].o, log |-> "pending", accepted |-> FALSE])]
            /\ \E filtered \in BOOLEAN :
                Go(r, [req[r] EXCEPT !.s = Len(db.mail) + 1,
                                     !.pc = IF filtered THEN <<"filtered">> ELSE Tail(@)])
       ELSE Refuse(r)

SendEmailFiltered(r) ==
    /\ Due(r, "sendOrder", "filtered")
    /\ db' = [db EXCEPT !.mail[req[r].s].log = "filtered"]
    /\ Reply(r, "ok")

\* flag: the provider said it accepted.  Its answer may be lost, a fault.
ProviderSend(r) ==
    /\ Due(r, "sendOrder", "provider")
    /\ \E accepted, told \in BOOLEAN :
        /\ told => accepted
        /\ accepted /\ ~told => faults < env.faults
        /\ db' = [db EXCEPT !.mail[req[r].s].accepted = accepted]
        /\ req' = [req EXCEPT ![r] = [Next1(r) EXCEPT !.flag = told]]
        /\ faults' = IF accepted /\ ~told THEN faults + 1 ELSE faults
    /\ UNCHANGED <<form, left>>

\* An accepted mail is logged as sent; the error of that statement is caught, as the provider's
\* is, and the mail is logged as failed.
SendEmailMark(r) ==
    /\ Due(r, "sendOrder", "markLog")
    /\ \/ /\ req[r].flag
          /\ db' = [db EXCEPT !.mail[req[r].s].log = "sent"]
          /\ Go(r, Next1(r))
       \/ /\ ~req[r].flag
          /\ db' = [db EXCEPT !.mail[req[r].s].log = "failed"]
          /\ Reply(r, "ok")
       \/ /\ req[r].flag /\ faults < env.faults
          /\ req' = [req EXCEPT ![r].flag = FALSE] /\ faults' = faults + 1
          /\ UNCHANGED <<db, form, left>>

MarkSentFind(r) ==
    /\ Due(r, "sendOrder", "markFind")
    /\ IF db.order[req[r].o].status \in {"finalized", "sent"}
       THEN Go(r, Next1(r)) /\ UNCHANGED db
       ELSE Refuse(r)

MarkSentWrite(r) ==
    /\ Due(r, "sendOrder", "markWrite")
    /\ IF OrderExists(req[r].o)
       THEN db' = [db EXCEPT !.order[req[r].o].status = "sent"] /\ Finish(r)
       ELSE Refuse(r)
=============================================================================
