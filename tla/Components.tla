------------------------------- MODULE Components -------------------------------
(* The component endpoints (trips/component-orchestration.service.ts): an     *)
(* activity, its details, the segments of a flight and its price, written by   *)
(* statements of their own, without a transaction.  An operation is the        *)
(* sequence of its steps; the steps are the actions below.                     *)
EXTENDS Activities

\* base-component.service.ts create: the day, its last position, the row, a price row.
BaseCreate == <<"day", "maxSeq", "insert", "price">>

\* What a client sends along: details with c segments, details without a price, or nothing.
Sent == {"all", "details", "nothing"}

Create(r, kind, parent, steps) ==
    /\ Expected("createComponent")
    /\ \E d \in Days, given \in BOOLEAN :
        /\ db.day[d] # NoDay
        /\ given => "place" \in env.operations
        /\ Arrive(r, [Idle EXCEPT !.op = "createComponent", !.v = kind, !.d = d, !.s = parent,
                        !.flag = given, !.seen = {left}, !.pc = BaseCreate \o steps])

Priced(sent, details) ==
    CASE sent = "all" -> details \o <<"setPrice">>
      [] sent = "details" -> details
      [] sent = "nothing" -> <<>>

CreateFlight(r) ==
    \E sent \in Sent, segments \in BOOLEAN :
        Create(r, "flight", 0, Priced(sent, IF segments THEN <<"details", "clear", "segments">>
                                                        ELSE <<"details">>))
CreateLodging(r) == \E sent \in Sent : Create(r, "lodging", 0, Priced(sent, <<"details">>))
CreateTransportation(r) ==
    \E sent \in Sent : Create(r, "transportation", 0, Priced(sent, <<"details">>))
CreateDining(r) == \E sent \in Sent : Create(r, "dining", 0, Priced(sent, <<"details">>))
CreateOptions(r) ==
    \E sent \in Sent, details \in {<<"details">>, <<"badDetails">>} :
        Create(r, "options", 0, Priced(sent, details))
CreateCustomCruise(r) ==
    \E sent \in Sent : Create(r, "custom_cruise", 0, Priced(sent, <<"details">>))
CreateCustomTour(r) ==
    \E sent \in Sent : Create(r, "custom_tour", 0, Priced(sent, <<"details">>))
CreatePortInfo(r) ==
    \E sent \in {"details", "nothing"} : Create(r, "port_info", 0, Priced(sent, <<"details">>))
CreateTourDay(r) ==
    \E sent \in {"details", "nothing"} : Create(r, "tour_day", 0, Priced(sent, <<"details">>))

-----------------------------------------------------------------------------
(* Updates: the base row is found and written, then details and price.       *)

\* v: whether the client sends a position, the first one.
Update(r, kind, steps) ==
    /\ Expected("updateComponent")
    /\ \E a \in Acts, v \in {"none", "position"} :
        /\ db.act[a].kind = kind
        /\ v = "position" => "place" \in env.operations
        /\ Arrive(r, [Idle EXCEPT !.op = "updateComponent", !.a = a, !.v = v, !.seen = {left},
                                  !.pc = <<"find", "base">> \o steps])

FindDetails == <<"findDetails", "writeDetails">>
FindPrice == <<"findPrice", "writePrice">>
Repriced(sent, details) ==
    CASE sent = "all" -> details \o FindPrice
      [] sent = "details" -> details
      [] sent = "nothing" -> <<>>

\* An empty list of segments leaves those that are there (createMany returns at once).
UpdateFlight(r) ==
    \E sent \in Sent, segments \in {<<>>, <<"clear", "segments">>} :
        Update(r, "flight", Repriced(sent, FindDetails \o segments))
UpdateLodging(r) == \E sent \in Sent : Update(r, "lodging", Repriced(sent, FindDetails))
UpdateTransportation(r) ==
    \E sent \in Sent : Update(r, "transportation", Repriced(sent, FindDetails))
UpdateDining(r) == \E sent \in Sent : Update(r, "dining", Repriced(sent, FindDetails))
UpdateOptions(r) == \E sent \in Sent : Update(r, "options", Repriced(sent, FindDetails))
UpdateCustomCruise(r) == \E sent \in Sent : Update(r, "custom_cruise", Repriced(sent, FindDetails))
UpdateCustomTour(r) == \E sent \in Sent : Update(r, "custom_tour", Repriced(sent, FindDetails))
UpdatePortInfo(r) ==
    \E sent \in {"details", "nothing"} : Update(r, "port_info", Repriced(sent, FindDetails))
\* upsert: one statement.
UpdateTourDay(r) ==
    \E sent \in {"details", "nothing"} : Update(r, "tour_day", Repriced(sent, <<"upsertDetails">>))

\* The files in storage go first, then the row, with all that hangs on it.
Delete(r, kind) ==
    \E a \in Acts : /\ db.act[a].kind = kind
                    /\ Arrive(r, [Idle EXCEPT !.op = "deleteComponent", !.a = a,
                                              !.pc = <<"find", "delete">>])
DeleteFlight(r) == Delete(r, "flight")
DeleteLodging(r) == Delete(r, "lodging")
DeleteTransportation(r) == Delete(r, "transportation")
DeleteDining(r) == Delete(r, "dining")
DeleteOptions(r) == Delete(r, "options")
DeleteCustomCruise(r) == Delete(r, "custom_cruise")
DeleteCustomTour(r) == Delete(r, "custom_tour")
DeletePortInfo(r) == Delete(r, "port_info")
DeleteTourDay(r) == Delete(r, "tour_day")

-----------------------------------------------------------------------------
(* The steps                                                                 *)

Of(r, step) ==
    /\ req[r].op \in {"createComponent", "updateComponent", "generateTour", "generatePorts"}
    /\ Due(r, req[r].op, step)

WriteBase(r) ==
    /\ Of(r, "base")
    /\ IF Exists(req[r].a)
       THEN /\ db' = IF req[r].op = "updateComponent" /\ req[r].v = "position"
                     THEN [db EXCEPT !.act[req[r].a].seq = 0] ELSE db
            /\ Finish(r)
       ELSE Refuse(r)

\* The details have a foreign key on the activity, and are unique for it.
InsertDetails(r) ==
    /\ Of(r, "details")
    /\ IF Exists(req[r].a) /\ req[r].a \notin db.details
       THEN db' = [db EXCEPT !.details = @ \cup {req[r].a}] /\ Finish(r)
       ELSE Refuse(r)

\* The database refuses the values; the activity is there already.
InsertBadDetails(r) == Of(r, "badDetails") /\ Refuse(r)

FindDetailsRow(r) ==
    /\ Of(r, "findDetails")
    /\ Go(r, [Next1(r) EXCEPT !.flag = req[r].a \in db.details])
    /\ UNCHANGED db

\* Fault: details that are missing are not inserted.
WriteDetailsOnlyFound(r) == Of(r, "writeDetails") /\ Finish(r) /\ UNCHANGED db

\* Updated when found before, inserted otherwise.
WriteDetails(r) ==
    /\ Of(r, "writeDetails")
    /\ CASE req[r].flag -> Finish(r) /\ UNCHANGED db
         [] ~req[r].flag /\ Exists(req[r].a) /\ req[r].a \notin db.details ->
                db' = [db EXCEPT !.details = @ \cup {req[r].a}] /\ Finish(r)
         [] OTHER -> Refuse(r)

UpsertDetails(r) ==
    /\ Of(r, "upsertDetails")
    /\ IF Exists(req[r].a) THEN db' = [db EXCEPT !.details = @ \cup {req[r].a}] /\ Finish(r)
       ELSE Refuse(r)

\* The segments of one save are unique for activity and number; the service takes the numbers of
\* the client, and the one client there is numbers them 0, 1, ... (flight-validation.ts:364-366).
SegmentsOf(save) == {<<0, save>>, <<1, save>>}

ClearSegments(r) ==
    /\ Of(r, "clear")
    /\ db' = [db EXCEPT !.segments[req[r].a] = {}]
    /\ Go(r, Next1(r))

\* Fault: the unique constraint of the segments is missing.
InsertSegmentsTwice(r) ==
    /\ Of(r, "segments")
    /\ db' = [db EXCEPT !.segments[req[r].a] = @ \cup UNION {SegmentsOf(s) : s \in req[r].seen}]
    /\ Finish(r)

InsertSegments(r) ==
    /\ Of(r, "segments")
    /\ IF Exists(req[r].a) /\ db.segments[req[r].a] = {}
       THEN /\ db' = [db EXCEPT !.segments[req[r].a] = UNION {SegmentsOf(s) : s \in req[r].seen}]
            /\ Finish(r)
       ELSE Refuse(r)

\* The price row of the new activity, where there is one.
SetPrice(r) ==
    /\ Of(r, "setPrice")
    /\ db' = [db EXCEPT !.price[req[r].a] = IF @ = 0 THEN 0 ELSE 2]
    /\ Finish(r)

FindPriceRow(r) ==
    /\ Of(r, "findPrice")
    /\ Go(r, [Next1(r) EXCEPT !.flag = db.price[req[r].a] # 0])
    /\ UNCHANGED db

\* The row found is written by its id; without one, a row is inserted, once per activity.
WritePrice(r) ==
    /\ Of(r, "writePrice")
    /\ CASE req[r].flag -> db' = [db EXCEPT !.price[req[r].a] = IF @ = 0 THEN 0 ELSE 2] /\ Finish(r)
         [] ~req[r].flag /\ Exists(req[r].a) /\ db.price[req[r].a] = 0 ->
                db' = [db EXCEPT !.price[req[r].a] = 2] /\ Finish(r)
         [] OTHER -> Refuse(r)
=============================================================================
