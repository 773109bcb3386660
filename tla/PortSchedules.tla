------------------------------ MODULE PortSchedules ------------------------------
(* The port entries of a cruise and the day entries of a tour, one per date,   *)
(* generated as children of the activity (component-orchestration.service.ts).  *)
(* A cruise or a tour lasts from date 1 to MaxDate.                             *)
EXTENDS ItineraryDays, Components

\* Sea days left out, two port calls, entries on the day of the cruise, without a parent.
CreatePortEntriesFromCruise(r) ==
    LET entry == BaseCreate \o <<"details">>
    IN  \E a \in Acts :
            /\ db.act[a].kind = "custom_cruise"
            /\ "portEntries" \in env.operations
            /\ Arrive(r, [Idle EXCEPT !.op = "createComponent", !.v = "port_info",
                                      !.d = db.act[a].day, !.pc = entry \o entry])

-----------------------------------------------------------------------------
(* generateCruisePortSchedule                                                *)

\* flag: the client asks to skip the deletion; "backwards": arrival before departure.
GeneratePorts(r) ==
    \E a \in Acts, skip \in BOOLEAN, dates \in {"dates", "backwards"} :
        /\ db.act[a].kind = "custom_cruise"
        /\ Arrive(r, [Idle EXCEPT !.op = "generatePorts", !.a = a, !.flag = skip, !.v = dates,
              !.pc = <<"validate">> \o (IF skip THEN <<"hasChildren">> ELSE <<>>)
                     \o <<"bounds", "delete", "dates", "maxDays", "insertDays", "readDays",
                          "insertPorts", "portDetails">>])

\* The activity is there, on a day; the two generators read its itinerary.
GenerateValidate(r) ==
    LET a == req[r].a
    IN  /\ req[r].op \in {"generatePorts", "generateTour"} /\ Due(r, req[r].op, "validate")
        /\ IF Exists(a) /\ db.act[a].day # 0
           THEN Go(r, [Next1(r) EXCEPT !.i = db.day[db.act[a].day].itin]) /\ UNCHANGED db
           ELSE Refuse(r)

\* Fault: skipDelete is taken at its word.
GenerateSkips(r) ==
    /\ Due(r, "generatePorts", "hasChildren") /\ Go(r, Next1(r)) /\ UNCHANGED db

\* skipDelete holds only for an activity without children.
GenerateHasChildren(r) ==
    /\ Due(r, "generatePorts", "hasChildren")
    /\ Go(r, [Next1(r) EXCEPT !.flag = ChildrenOf(db, req[r].a) = {}])
    /\ UNCHANGED db

\* Outside the dates of the itinerary: refused, or the itinerary is extended.
GenerateBounds(r) ==
    /\ Due(r, "generatePorts", "bounds")
    /\ \/ Go(r, Next1(r)) /\ UNCHANGED db
       \/ Refuse(r)

GenerateDelete(r) ==
    /\ Due(r, "generatePorts", "delete")
    /\ db' = IF req[r].flag THEN db ELSE DropActs(db, ChildrenOf(db, req[r].a))
    /\ Go(r, Next1(r))

\* The order of the dates is checked after the deletion.
GenerateDates(r) ==
    /\ Due(r, "generatePorts", "dates")
    /\ IF req[r].v = "backwards" THEN Refuse(r)
       ELSE Go(r, [Next1(r) EXCEPT !.seen = Dates]) /\ UNCHANGED db

\* findOrCreateByDateRange for the dates in seen: highest number and position, INSERT ... ON
\* CONFLICT DO NOTHING, SELECT.
MaxOfDays(r) ==
    LET i == req[r].i
    IN  /\ req[r].op \in {"generatePorts", "generateTour"} /\ Due(r, req[r].op, "maxDays")
        /\ IF i \in ItinsOf(db)
           THEN /\ Go(r, [Next1(r) EXCEPT !.n = HighestNumber(db, i), !.d = HighestDaySeq(db, i)])
                /\ UNCHANGED db
           ELSE Refuse(r)

InsertDateRange(r) ==
    /\ req[r].op \in {"generatePorts", "generateTour"} /\ Due(r, req[r].op, "insertDays")
    /\ IF req[r].i \in ItinsOf(db)
       THEN db' = AddDates(db, req[r].i, req[r].seen, req[r].n, req[r].d) /\ Go(r, Next1(r))
       ELSE Refuse(r)

\* The days are read; a date without a day is left out.
ReadDateRange(r) ==
    LET found == {date \in Dates : \E d \in DaysOf(db, req[r].i) : db.day[d].date = date}
    IN  /\ req[r].op \in {"generatePorts", "generateTour"} /\ Due(r, req[r].op, "readDays")
        /\ \E f \in DayOfDate(db, req[r].i, found) :
                Go(r, [Next1(r) EXCEPT !.seen = {<<date, f[date]>> : date \in found}])
        /\ UNCHANGED db

\* The days of the pairs of a date and its day, by date.
DaysInOrder(pairs) ==
    LET before(w) == {v \in pairs : v[1] < w[1]}
    IN  [k \in 1 .. Cardinality(pairs) |->
            (CHOOSE w \in pairs : Cardinality(before(w)) = k - 1)[2]]

\* One INSERT for all the entries.
InsertPorts(r) ==
    LET a == req[r].a
        days == DaysInOrder(req[r].seen)
        rows == [k \in DOMAIN days |-> ActRow("port_info", days[k], a, k - 1)]
    IN  /\ Due(r, "generatePorts", "insertPorts")
        /\ \A w \in req[r].seen : ~Locked(w[2])
        /\ IF Exists(a) /\ \A w \in req[r].seen : MayInsert(w[2], a)
           THEN /\ db' = AddActs(db, rows)
                /\ Go(r, [Next1(r) EXCEPT
                            !.seen = db.made.act + 1 .. db.made.act + Len(days)])
           ELSE Refuse(r)

InsertPortDetails(r) ==
    /\ Due(r, "generatePorts", "portDetails")
    /\ IF \A a \in req[r].seen : Exists(a)
       THEN db' = [db EXCEPT !.details = @ \cup req[r].seen] /\ Finish(r)
       ELSE Refuse(r)

-----------------------------------------------------------------------------
(* generateTourDaySchedule: the entries go, and come, one by one             *)

\* flag: days that are missing are created, else the tour is refused; after the deletion.
GenerateTour(r) ==
    \E a \in Acts, extend \in BOOLEAN, delete \in {<<>>, <<"children", "deleteEach">>} :
        /\ db.act[a].kind = "custom_tour"
        /\ delete = <<>> => "skipDelete" \in env.operations
        /\ Arrive(r, [Idle EXCEPT !.op = "generateTour", !.a = a, !.s = a, !.v = "tour_day",
              !.flag = extend,
              !.pc = <<"validate">> \o delete \o
                     <<"missing", "maxDays", "insertDays", "readDays", "tourNext">>])

TourChildren(r) ==
    /\ Due(r, "generateTour", "children")
    /\ Go(r, [Next1(r) EXCEPT !.seen = ChildrenOf(db, req[r].a)])
    /\ UNCHANGED db

\* deleteTourDay fails on an entry that is gone.
TourDeleteEach(r) ==
    /\ Due(r, "generateTour", "deleteEach")
    /\ \/ req[r].seen = {} /\ Go(r, Next1(r)) /\ UNCHANGED db
       \/ \E a \in req[r].seen :
            IF Exists(a)
            THEN db' = DropActs(db, {a}) /\ Go(r, [req[r] EXCEPT !.seen = @ \ {a}])
            ELSE Refuse(r)

TourMissing(r) ==
    LET missing == {date \in Dates : \A d \in DaysOf(db, req[r].i) : db.day[d].date # date}
    IN  /\ Due(r, "generateTour", "missing")
        /\ CASE missing = {} ->
                    Go(r, [req[r] EXCEPT !.pc = <<"readDays", "tourNext">>]) /\ UNCHANGED db
             [] missing # {} /\ req[r].flag ->
                    Go(r, [Next1(r) EXCEPT !.seen = missing]) /\ UNCHANGED db
             [] OTHER -> Refuse(r)

\* createTourDay for the next date.
TourNext(r) ==
    /\ Due(r, "generateTour", "tourNext") /\ UNCHANGED db
    /\ \/ req[r].seen = {} /\ Finish(r)
       \/ \E w \in req[r].seen :
            /\ \A v \in req[r].seen : w[1] <= v[1]
            /\ Go(r, [req[r] EXCEPT !.seen = @ \ {w}, !.d = w[2],
                                    !.pc = BaseCreate \o <<"details", "tourNext">>])
=============================================================================
