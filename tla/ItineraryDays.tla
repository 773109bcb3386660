----------------------------- MODULE ItineraryDays -----------------------------
(* The days of an itinerary (trips/itinerary-days.service.ts).  Titles, notes *)
(* and locations are left out; the trip is dated 1 .. MaxDate, or not at all. *)
EXTENDS TripTree

DayRow(i, number, seq, date) == [itin |-> i, number |-> number, seq |-> seq, date |-> date]

\* The rows the request inserts, one statement: it fails as a whole when the itinerary
\* is gone or a date is taken.
InsertDays(r, rows) ==
    IF /\ req[r].i \in ItinsOf(db)
       /\ \A k \in DOMAIN rows : ~DateTaken(db, req[r].i, rows[k].date)
    THEN db' = AddDays(db, rows) /\ Finish(r)
    ELSE Refuse(r)

-----------------------------------------------------------------------------
(* create, update                                                            *)

\* flag: the client gives the position, the first one; nothing is read for it then.
CreateDay(r) ==
    \E i \in ItinsOf(db), n \in 1 .. 2, date \in {0, 1}, given \in BOOLEAN :
        Arrive(r, [Idle EXCEPT !.op = "createDay", !.i = i, !.n = n, !.d = date, !.flag = given,
                               !.pc = <<"duplicate", "maxSeq", "insert">>])

CreateDayDuplicate(r) ==
    /\ Due(r, "createDay", "duplicate")
    /\ IF req[r].i \in ItinsOf(db) /\ \A d \in DaysOf(db, req[r].i) : db.day[d].number # req[r].n
       THEN Go(r, Next1(r)) /\ UNCHANGED db
       ELSE Refuse(r)

CreateDayMaxSeq(r) ==
    /\ Due(r, "createDay", "maxSeq")
    /\ Go(r, [Next1(r) EXCEPT !.s = IF req[r].flag THEN -1 ELSE HighestDaySeq(db, req[r].i)])
    /\ UNCHANGED db

CreateDayInsert(r) ==
    /\ Due(r, "createDay", "insert")
    /\ InsertDays(r, <<DayRow(req[r].i, req[r].n, req[r].s + 1, req[r].d)>>)

\* A number, a date (0: null) or a position; 0 stands for no number.
UpdateDay(r) ==
    /\ Expected("updateDay")
    /\ \E d \in Days, n \in 0 .. 3, column \in {"number", "date", "seq"}, value \in {0, 1} :
        /\ n = 0 <=> column # "number"
        /\ column # "number" => "redate" \in env.operations
        /\ Arrive(r, [Idle EXCEPT !.op = "updateDay", !.d = d, !.n = n,
                        !.seen = IF column = "number" THEN {} ELSE {<<column, value>>},
                        !.pc = <<"find", "conflict", "write">>])

\* The number is checked when it changes; the row is then written by its id.
UpdateDayFind(r) ==
    /\ Due(r, "updateDay", "find")
    /\ IF db.day[req[r].d] = NoDay THEN Refuse(r)
       ELSE /\ Go(r, [Next1(r) EXCEPT !.i = db.day[req[r].d].itin,
                         !.pc = IF req[r].n \in {0, db.day[req[r].d].number} THEN <<"write">> ELSE @])
            /\ UNCHANGED db

UpdateDayConflict(r) ==
    /\ Due(r, "updateDay", "conflict")
    /\ IF \A d \in DaysOf(db, req[r].i) \ {req[r].d} : db.day[d].number # req[r].n
       THEN Go(r, Next1(r)) /\ UNCHANGED db
       ELSE Refuse(r)

UpdateDayWrite(r) ==
    LET d == req[r].d
        old == db.day[d]
        row == [old EXCEPT !.number = IF req[r].n = 0 THEN @ ELSE req[r].n,
                           !.date = Column(req[r], "date", @), !.seq = Column(req[r], "seq", @)]
    IN  /\ Due(r, "updateDay", "write")
        /\ ~Locked(d)
        /\ IF old # NoDay /\ (row.date # old.date => ~DateTaken(db, old.itin, row.date))
           THEN db' = [db EXCEPT !.day[d] = row] /\ Finish(r)
           ELSE Refuse(r)

-----------------------------------------------------------------------------
(* remove and reorder: the rows are written in parallel, in any order         *)

RemoveDay(r) ==
    \E d \in Days :
        Arrive(r, [Idle EXCEPT !.op = "removeDay", !.d = d, !.pc = <<"find", "delete", "select", "rows">>])

RemoveDayFind(r) ==
    /\ Due(r, "removeDay", "find")
    /\ IF db.day[req[r].d] = NoDay THEN Refuse(r)
       ELSE /\ Go(r, [Next1(r) EXCEPT !.i = db.day[req[r].d].itin, !.n = db.day[req[r].d].number])
            /\ UNCHANGED db

RemoveDayDelete(r) ==
    /\ Due(r, "removeDay", "delete") /\ ~Locked(req[r].d)
    /\ db' = DropDays(db, {req[r].d})
    /\ Go(r, Next1(r))

\* The numbers above the deleted one are to go down by one.
RemoveDaySelect(r) ==
    /\ Due(r, "removeDay", "select")
    /\ Go(r, [Next1(r) EXCEPT !.seen =
                {<<d, db.day[d].number - 1>> :
                    d \in {e \in DaysOf(db, req[r].i) : db.day[e].number > req[r].n}}])
    /\ UNCHANGED db

RemoveDayRow(r) ==
    /\ Due(r, "removeDay", "rows")
    /\ \/ /\ req[r].seen = {} /\ Finish(r) /\ UNCHANGED db
       \/ \E w \in req[r].seen :
            /\ ~Locked(w[1])
            /\ db' = IF db.day[w[1]] = NoDay THEN db
                     ELSE [db EXCEPT !.day[w[1]].number = w[2]]
            /\ Go(r, [req[r] EXCEPT !.seen = @ \ {w}])

\* Two days are exchanged by drag and drop.
ReorderDays(r) ==
    \E i \in ItinsOf(db) : \E d, e \in DaysOf(db, i) :
        /\ d # e
        /\ Arrive(r, [Idle EXCEPT !.op = "reorderDays", !.i = i, !.pc = <<"verify", "rows">>,
                        !.seen = {<<d, db.day[e].seq>>, <<e, db.day[d].seq>>}])

ReorderDaysVerify(r) ==
    /\ Due(r, "reorderDays", "verify")
    /\ IF \A w \in req[r].seen : db.day[w[1]].itin = req[r].i
       THEN Go(r, Next1(r)) /\ UNCHANGED db
       ELSE Refuse(r)

ReorderDaysRow(r) ==
    /\ Due(r, "reorderDays", "rows")
    /\ \/ /\ req[r].seen = {} /\ Finish(r) /\ UNCHANGED db
       \/ \E w \in req[r].seen :
            /\ ~Locked(w[1])
            /\ db' = IF db.day[w[1]] = NoDay THEN db
                     ELSE [db EXCEPT !.day[w[1]].seq = w[2]]
            /\ Go(r, [req[r] EXCEPT !.seen = @ \ {w}])

-----------------------------------------------------------------------------
(* autoGenerate: every day goes, and the days of the trip come, in two       *)
(* statements; itineraries.create calls it and ignores its failure.          *)

AutoGenerate(r) ==
    \E i \in ItinsOf(db), pre \in BOOLEAN :
        /\ pre => "preTravel" \in env.operations
        /\ Arrive(r, [Idle EXCEPT !.op = "autoGenerate", !.i = i, !.flag = pre,
                                  !.pc = <<"clearDays", "fillDays">>])

AutoGenerateClear(r) ==
    /\ req[r].op \in {"autoGenerate", "createItinerary"} /\ Due(r, req[r].op, "clearDays")
    /\ \A d \in DaysOf(db, req[r].i) : ~Locked(d)
    /\ IF req[r].i \in ItinsOf(db)
       THEN db' = DropDays(db, DaysOf(db, req[r].i)) /\ Go(r, Next1(r))
       ELSE Refuse(r)

AutoGenerateFill(r) ==
    LET dated == [k \in Dates |-> DayRow(req[r].i, k, IF req[r].flag THEN k ELSE k - 1, k)]
    IN  /\ req[r].op \in {"autoGenerate", "createItinerary"} /\ Due(r, req[r].op, "fillDays")
        /\ InsertDays(r, IF req[r].flag THEN <<DayRow(req[r].i, 0, 0, 0)>> \o dated ELSE dated)

-----------------------------------------------------------------------------
(* batchCreate and batchCreateAtStart                                        *)

DatesOf(t, i) == {t.day[d].date : d \in DaysOf(t, i)} \ {0}

\* Count mode, or a date range (n = 0) of one day after the last one.
BatchCreate(r) ==
    \E i \in ItinsOf(db), start \in BOOLEAN, n \in 0 .. 1 :
        /\ start => n = 1 /\ "batchStart" \in env.operations
        /\ Arrive(r, [Idle EXCEPT !.op = "batchCreate", !.i = i, !.flag = start, !.n = n,
                                  !.pc = <<"findAll", IF start THEN "insertStart" ELSE "insertEnd">>])

\* What is read decides the rows: their number, order and date (d; 0 past the trip's end).
BatchCreateRead(r) ==
    LET i == req[r].i
        last == MaxOr(DatesOf(db, i), 0)
        first == IF DatesOf(db, i) = {} THEN 0 ELSE Min(DatesOf(db, i))
    IN  /\ Due(r, "batchCreate", "findAll")
        /\ UNCHANGED db
        /\ \/ /\ req[r].flag /\ first # 1
              /\ Go(r, [Next1(r) EXCEPT !.d = IF first = 0 THEN 0 ELSE first - 1])
           \/ /\ ~req[r].flag /\ req[r].n = 1
              /\ Go(r, [Next1(r) EXCEPT !.n = HighestNumber(db, i), !.s = HighestDaySeq(db, i),
                             !.d = IF last \in {0, MaxDate} THEN 0 ELSE last + 1])
           \/ /\ ~req[r].flag /\ req[r].n = 0
              /\ \E date \in last + 1 .. MaxDate :
                    Go(r, [Next1(r) EXCEPT !.n = HighestNumber(db, i), !.s = HighestDaySeq(db, i),
                                           !.d = date])
           \/ /\ IF req[r].flag THEN first = 1 ELSE req[r].n = 0
              /\ Reply(r, "failed")

BatchCreateEnd(r) ==
    /\ Due(r, "batchCreate", "insertEnd")
    /\ InsertDays(r, <<DayRow(req[r].i, req[r].n + 1, req[r].s + 1, req[r].d)>>)

\* Fault: the days that are there keep their numbers.
BatchCreateInFront(r) ==
    /\ Due(r, "batchCreate", "insertStart")
    /\ InsertDays(r, <<DayRow(req[r].i, 1, 0, req[r].d)>>)

\* One transaction: the days that are there are shifted, then the new one inserted.
BatchCreateStart(r) ==
    LET shifted == [d \in Days |-> IF d \in DaysOf(db, req[r].i)
                                     THEN [db.day[d] EXCEPT !.number = @ + 1, !.seq = @ + 1]
                                     ELSE db.day[d]]
    IN  /\ Due(r, "batchCreate", "insertStart") /\ \A d \in DaysOf(db, req[r].i) : ~Locked(d)
        /\ IF req[r].i \in ItinsOf(db) /\ ~DateTaken(db, req[r].i, req[r].d)
           THEN /\ db' = AddDays([db EXCEPT !.day = shifted],
                                 <<DayRow(req[r].i, 1, 0, req[r].d)>>)
                /\ Finish(r)
           ELSE Refuse(r)

-----------------------------------------------------------------------------
(* findOrCreateByDate and findOrCreateByDateRange                            *)

FindOrCreateByDate(r) ==
    \E i \in ItinsOf(db), date \in Dates :
        Arrive(r, [Idle EXCEPT !.op = "dayByDate", !.i = i, !.d = date,
                               !.pc = <<"find", "position", "insert">>])

DayByDateFind(r) ==
    /\ Due(r, "dayByDate", "find")
    /\ IF \E d \in DaysOf(db, req[r].i) : db.day[d].date = req[r].d
       THEN Reply(r, "ok") ELSE Go(r, Next1(r))
    /\ UNCHANGED db

\* Before the first dated day, and when no day is dated, the new one is number 1, whatever
\* number 1 is; otherwise it comes last.
DayByDatePosition(r) ==
    LET i == req[r].i
        dated == {d \in DaysOf(db, i) : db.day[d].date # 0}
        first == {d \in dated : \A e \in dated : db.day[d].number <= db.day[e].number}
        fronts == IF first = {} THEN {TRUE} ELSE {req[r].d < db.day[d].date : d \in first}
    IN  /\ Due(r, "dayByDate", "position") /\ UNCHANGED db
        /\ \E front \in fronts : Go(r, [Next1(r) EXCEPT !.n = IF front THEN 1 ELSE HighestNumber(db, i) + 1,
                                  !.s = IF front THEN 0 ELSE HighestDaySeq(db, i) + 1])

DayByDateInsert(r) ==
    /\ Due(r, "dayByDate", "insert")
    /\ InsertDays(r, <<DayRow(req[r].i, req[r].n, req[r].s, req[r].d)>>)

DatesInOrder(dates) == SetToSortSeq(dates, <)

\* The dates of a range get the numbers after the highest, those that conflict on the index
\* are left out, and their numbers with them.
AddDates(t, i, dates, number, seq) ==
    LET rank(date) == Cardinality({e \in dates : e <= date})
        new == DatesInOrder({e \in dates : ~DateTaken(t, i, e)})
    IN  AddDays(t, [k \in DOMAIN new |->
                        DayRow(i, number + rank(new[k]), seq + rank(new[k]), new[k])])

\* The day of each date that the caller goes on with; the last one read, where there are two.
DayOfDate(t, i, dates) ==
    {f \in [dates -> DaysOf(t, i)] : \A date \in dates : t.day[f[date]].date = date}
=============================================================================
