--------------------------------- MODULE Trips ---------------------------------
(* Trips and their status (trips/trips.service.ts), and the handlers of the       *)
(* events the service emits: the activity log (activity-logs.service.ts) and the  *)
(* first booking date of the contact (contacts.service.ts).  There is one contact *)
(* and one group; all trips are of the owner bulk requests act for.               *)
EXTENDS TripTree

TRIP_STATUS_TRANSITIONS ==
    [draft |-> {"quoted", "booked", "cancelled"}, quoted |-> {"draft", "booked", "cancelled"},
     booked |-> {"in_progress", "completed", "cancelled"},
     in_progress |-> {"completed", "cancelled"}, completed |-> {}, cancelled |-> {}]

CanTransition(from, to) == to \in {"none", from} \cup TRIP_STATUS_TRANSITIONS[from]
CanDelete(status) == status \in {"draft", "quoted"}

Existing(t) == db.trip[t] # NoTrip

\* Fault: the database takes any status.
NoTrigger(t, to) == Existing(t)

\* trip_status_transition_validation: whatever the service checked, the database checks again.
TriggerAllows(t, to) == Existing(t) /\ CanTransition(db.trip[t].status, to)

-----------------------------------------------------------------------------
(* Events.  emit starts a handler per listener and waits for none.  The audit  *)
(* handler listens to the name 'audit.*': EventEmitterModule.forRoot() is       *)
(* called without wildcard, so that no emitted name matches it.                *)

Listeners(name) ==
    CASE name \in {"trip.created", "trip.updated", "trip.deleted"} -> {"log"}
      [] name = "trip.booked" -> {"contact"}
      [] OTHER -> {}

Handlers(name, t, date) ==
    {[name |-> name, on |-> on, trip |-> t, date |-> date, read |-> FALSE] : on \in Listeners(name)}

\* What a request emits in one go: a set of <<name, date>> about one trip.
Emit(t, what) == events' = events \cup UNION {Handlers(w[1], t, w[2]) : w \in what}
Booked(contact, date) == IF contact # 0 /\ date # 0 THEN {<<"trip.booked", date>>} ELSE {}

\* The log refers to the trip: the entry of a trip that is gone is refused.
LogEvent(e) ==
    /\ e.on = "log"
    /\ db' = IF Existing(e.trip) THEN [db EXCEPT !.log = @ \cup {<<e.name, e.trip>>}] ELSE db
    /\ events' = events \ {e}
    /\ UNCHANGED <<req, form, left, faults>>

HandleTripBooked(e) ==
    /\ e.on = "contact" /\ ~e.read
    /\ events' = (events \ {e}) \cup (IF db.first # 0 THEN {} ELSE {[e EXCEPT !.read = TRUE]})
    /\ UNCHANGED <<db, req, form, left, faults>>

SetFirstBookingDate(e) ==
    /\ e.on = "contact" /\ e.read
    /\ db' = [db EXCEPT !.first = e.date]
    /\ events' = events \ {e}
    /\ UNCHANGED <<req, form, left, faults>>

\* A statement of a handler fails, or its process dies: nothing is tried again.
HandlerDies(e) ==
    /\ faults < env.faults
    /\ faults' = faults + 1
    /\ events' = events \ {e}
    /\ UNCHANGED <<db, req, form, left>>

HandlerStep == \E e \in events :
    LogEvent(e) \/ HandleTripBooked(e) \/ SetFirstBookingDate(e) \/ HandlerDies(e)

-----------------------------------------------------------------------------
(* create and update.  A request that gives no date has 0 in create, and -1 in *)
(* update, where 0 is a null.                                                 *)

CreateTrip(r) ==
    \E status \in {"draft", "booked"}, contact \in {0, 1}, date \in 0 .. MaxDate :
        /\ Arrive(r, [Idle EXCEPT !.op = "createTrip", !.pc = <<"insert">>,
                                  !.v = status, !.a = contact, !.d = date])
        /\ UNCHANGED events

\* Fault: a trip that becomes booked gets no date of its own.
BookingDateGiven(date, books) == date

\* The booking date of a request: the one given, or today if it books.  Today is the last date.
BookingDate(date, books) == IF books /\ date \in {-1, 0} THEN MaxDate ELSE date

CreateTripInsert(r) ==
    LET t == db.made.trip + 1
        date == BookingDate(req[r].d, req[r].v = "booked")
    IN  /\ Due(r, "createTrip", "insert") /\ t \in Trips
        /\ db' = [db EXCEPT !.made.trip = t,
                    !.trip[t] = [NoTrip EXCEPT !.status = req[r].v, !.date = date,
                                               !.contact = req[r].a]]
        /\ Emit(t, {<<"trip.created", 0>>} \cup
                    (IF req[r].v = "booked" THEN Booked(req[r].a, date) ELSE {}))
        /\ Finish(r)

\* Bounds: one column is written next to the status and the date, and with it the status that
\* emits another event or none.
UpdateTrip(r) ==
    /\ Expected("updateTrip")
    /\ \E t \in Trips, status \in {"none"} \cup TripStatuses, date \in -1 .. MaxDate,
          column \in {"none"} \cup env.patches, value \in {0, 1} :
        /\ column # "none" => status \in {"none", "booked"}
        /\ date = 0 <=> column = "date"
        /\ Arrive(r, [Idle EXCEPT !.op = "updateTrip", !.pc = <<"find", "write">>, !.t = t,
                        !.v = status, !.d = date,
                        !.seen = IF column \in {"none", "date"} THEN {} ELSE {<<column, value>>}])
        /\ UNCHANGED events

Switch(q, column, old) == Sets(q, column, 1) \/ (old /\ ~Sets(q, column, 0))

\* The row of a trip after the update of a request: the whole dto is spread over it.
Patched(row, q, date) ==
    [row EXCEPT !.status = IF q.v = "none" THEN @ ELSE q.v, !.date = IF date = -1 THEN @ ELSE date,
                !.contact = Column(q, "contact", @), !.group = Column(q, "group", @),
                !.archived = Switch(q, "archived", @), !.published = Switch(q, "published", @)]

\* flag: the trip becomes booked; n and a: the group and the contact it had.
UpdateTripFind(r) ==
    LET row == db.trip[req[r].t]
    IN  /\ Due(r, "updateTrip", "find")
        /\ IF row # NoTrip /\ CanTransition(row.status, req[r].v)
           THEN /\ Go(r, [Next1(r) EXCEPT !.n = row.group, !.a = row.contact,
                                          !.flag = req[r].v = "booked" /\ row.status # "booked"])
                /\ UNCHANGED db
           ELSE Refuse(r)
        /\ UNCHANGED events

\* The event is for the contact of the row written, or else of the row read.
UpdateTripWrite(r) ==
    LET t == req[r].t
        date == BookingDate(req[r].d, req[r].flag)
        row == Patched(db.trip[t], req[r], date)
        contact == IF row.contact # 0 THEN row.contact ELSE req[r].a
        regroups == \E group \in {0, 1} \ {req[r].n} : Sets(req[r], "group", group)
        onlyGroup == /\ \E group \in {0, 1} : Sets(req[r], "group", group)
                     /\ req[r].v = "none" /\ req[r].d = -1
        booked == IF req[r].flag THEN Booked(contact, date) ELSE {}
    IN  /\ Due(r, "updateTrip", "write")
        /\ IF TriggerAllows(t, req[r].v)
           THEN /\ db' = [db EXCEPT !.trip[t] = row]
                /\ Emit(t, (IF onlyGroup THEN {} ELSE {<<"trip.updated", 0>>})
                            \cup (IF regroups THEN {} ELSE booked))
                /\ IF regroups
                   THEN Go(r, [req[r] EXCEPT !.pc = <<"group">>, !.d = date, !.a = contact])
                   ELSE Finish(r)
           ELSE Refuse(r) /\ UNCHANGED events

\* The name of the group is read before the audit event, and the booking event comes after it.
UpdateTripGroup(r) ==
    /\ Due(r, "updateTrip", "group")
    /\ Emit(req[r].t, {<<IF Sets(req[r], "group", 0) THEN "audit.removed_from_group"
                         ELSE "audit.moved_to_group", 0>>}
                        \cup (IF req[r].flag THEN Booked(req[r].a, req[r].d) ELSE {}))
    /\ Finish(r) /\ UNCHANGED db

-----------------------------------------------------------------------------
(* remove, and the bulk operations: one read of all trips, then one by one.  *)

RemoveTrip(r) == \E t \in Trips :
    Arrive(r, [Idle EXCEPT !.op = "removeTrip", !.pc = <<"find", "delete">>, !.t = t])
        /\ UNCHANGED events

RemoveTripFind(r) ==
    /\ Due(r, "removeTrip", "find")
    /\ IF CanDelete(db.trip[req[r].t].status) THEN Go(r, Next1(r)) /\ UNCHANGED db ELSE Refuse(r)
    /\ UNCHANGED events

DeleteTripRow(t) ==
    /\ \A d \in Days : t = TheTrip => ~Locked(d)
    /\ db' = DropTrip(db, t)
    /\ Emit(t, {<<"trip.deleted", 0>>})

RemoveTripDelete(r) == Due(r, "removeTrip", "delete") /\ DeleteTripRow(req[r].t) /\ Finish(r)

BulkRequest(r, op) ==
    \E T \in (SUBSET Trips) \ {{}}, status \in TripStatuses, archive \in BOOLEAN :
        /\ op # "bulkStatus" => status = "draft"
        /\ op # "bulkArchive" => ~archive
        /\ Arrive(r, [Idle EXCEPT !.op = op, !.pc = <<"read", "each">>, !.seen = T,
                                  !.v = status, !.flag = archive])
        /\ UNCHANGED events
BulkDelete(r) == BulkRequest(r, "bulkDelete")
BulkArchive(r) == BulkRequest(r, "bulkArchive")
BulkChangeStatus(r) == BulkRequest(r, "bulkStatus")

\* The trips that are not skipped, judged by the rows of this read.
Chosen(r, row) ==
    CASE req[r].op = "bulkDelete" -> CanDelete(row.status)
      [] req[r].op = "bulkArchive" -> row.archived # req[r].flag
      [] OTHER -> row.status # req[r].v /\ CanTransition(row.status, req[r].v)

BulkRead(r) ==
    /\ req[r].op \in {"bulkDelete", "bulkArchive", "bulkStatus"} /\ Due(r, req[r].op, "read")
    /\ Go(r, [Next1(r) EXCEPT !.seen = {<<t, db.trip[t].contact>> :
                t \in {u \in req[r].seen : Existing(u) /\ Chosen(r, db.trip[u])}}])
    /\ UNCHANGED <<db, events>>

BulkEach(r, w) == /\ req[r].pc = <<"each">> /\ w \in req[r].seen
                  /\ Go(r, [req[r] EXCEPT !.seen = @ \ {w}])

BulkDeleteEach(r) == \E w \in req[r].seen :
    req[r].op = "bulkDelete" /\ BulkEach(r, w) /\ DeleteTripRow(w[1])

BulkArchiveEach(r) == \E w \in req[r].seen :
    /\ req[r].op = "bulkArchive" /\ BulkEach(r, w)
    /\ db' = IF Existing(w[1]) THEN [db EXCEPT !.trip[w[1]].archived = req[r].flag] ELSE db
    /\ Emit(w[1], {<<"trip.updated", 0>>})

\* No row to write is no error, and the events are emitted all the same; what the trigger
\* refuses ends the whole request.
BulkChangeStatusEach(r) ==
    \E w \in req[r].seen :
        LET date == BookingDate(0, req[r].v = "booked") IN
        /\ req[r].op = "bulkStatus" /\ req[r].pc = <<"each">>
        /\ IF Existing(w[1]) => TriggerAllows(w[1], req[r].v)
           THEN /\ BulkEach(r, w)
                /\ db' = IF Existing(w[1])
                         THEN [db EXCEPT !.trip[w[1]].status = req[r].v,
                                         !.trip[w[1]].date = IF date = 0 THEN @ ELSE date]
                         ELSE db
                /\ Emit(w[1], {<<"trip.updated", 0>>} \cup Booked(w[2], date))
           ELSE Refuse(r) /\ UNCHANGED events

BulkEnd(r) == /\ req[r].op \in {"bulkDelete", "bulkArchive", "bulkStatus"}
              /\ req[r].pc = <<"each">> /\ req[r].seen = {}
              /\ Reply(r, "ok") /\ UNCHANGED <<db, events>>

-----------------------------------------------------------------------------
(* publishTrip and unpublishTrip                                             *)

PublishTrip(r) == \E t \in Trips :
    Arrive(r, [Idle EXCEPT !.op = "publishTrip", !.pc = <<"find", "write">>, !.t = t])
        /\ UNCHANGED events
UnpublishTrip(r) == \E t \in Trips :
    Arrive(r, [Idle EXCEPT !.op = "unpublishTrip", !.pc = <<"write">>, !.t = t])
        /\ UNCHANGED events

\* A trip that is published already is left as it is, with its token.
PublishTripFind(r) ==
    /\ Due(r, "publishTrip", "find")
    /\ IF ~Existing(req[r].t) THEN Refuse(r)
       ELSE /\ IF db.trip[req[r].t].published THEN Reply(r, "ok") ELSE Go(r, Next1(r))
            /\ UNCHANGED db
    /\ UNCHANGED events

\* A row that is gone is an error after the event was emitted.
PublishTripWrite(r) ==
    LET t == req[r].t IN
    /\ Due(r, "publishTrip", "write")
    /\ Emit(t, {<<"audit.log", 0>>})
    /\ IF Existing(t)
       THEN /\ db' = [db EXCEPT !.made.token = @ + 1,
                        !.trip[t] = [@ EXCEPT !.published = TRUE, !.token = db.made.token + 1]]
            /\ Finish(r)
       ELSE Refuse(r)

UnpublishTripWrite(r) ==
    LET t == req[r].t IN
    /\ Due(r, "unpublishTrip", "write")
    /\ IF Existing(t)
       THEN /\ db' = [db EXCEPT !.trip[t] = [@ EXCEPT !.published = FALSE, !.token = 0]]
            /\ Emit(t, {<<"audit.log", 0>>}) /\ Finish(r)
       ELSE Refuse(r) /\ UNCHANGED events
=============================================================================
