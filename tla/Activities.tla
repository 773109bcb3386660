------------------------------- MODULE Activities -------------------------------
(* Activities of the days, copies, moves, and packages with linked children  *)
(* (trips/activities.service.ts and activity-bookings.service.ts).  A price is *)
(* 1 when a row was made with the activity, 2 once a client has set it.       *)
EXTENDS TripTree

ActRow(kind, day, parent, seq) ==
    [kind |-> kind, day |-> day, parent |-> parent, seq |-> seq, booked |-> FALSE]

Exists(a) == db.act[a].kind # "none"
IsPackage(a) == a # 0 /\ db.act[a].kind = "package"

\* The foreign keys on the day and the parent of a new row, and the lock on the day.
MayInsert(day, parent) ==
    /\ day = 0 \/ db.day[day] # NoDay
    /\ parent = 0 \/ Exists(parent)

-----------------------------------------------------------------------------
(* create: an activity of a day, or a package that floats (d = 0)            *)

\* flag: the client gives the position, the first one; nothing is read for it then.
CreateActivity(r) ==
    /\ Expected("createActivity")
    /\ \E kind \in {"tour", "package"}, d \in {0} \cup Days, parent \in {0} \cup AllActs(db),
          given \in BOOLEAN :
        /\ d = 0 => kind = "package" /\ ~given
        /\ given => "place" \in env.operations
        /\ d # 0 => db.day[d] # NoDay
        /\ parent # 0 => "nest" \in env.operations
        /\ Arrive(r, [Idle EXCEPT !.op = "createActivity", !.v = kind, !.d = d, !.s = parent,
             !.flag = given,
             !.pc = (IF d = 0 THEN <<>> ELSE <<"day", "maxSeq">>) \o <<"insert", "price">>
                    \o (IF kind = "package" THEN <<"package", "plan">> ELSE <<>>)])

\* verifyDayExists and the trip of the day; activities and components alike.
VerifyDayExists(r) ==
    /\ Due(r, req[r].op, "day")
    /\ IF db.day[req[r].d] = NoDay THEN Refuse(r) ELSE Go(r, Next1(r)) /\ UNCHANGED db

GivenPlace(r) == req[r].op \in {"createActivity", "createComponent", "move"} /\ req[r].flag

CreateMaxSeq(r) ==
    /\ req[r].op # "createDay" /\ Due(r, req[r].op, "maxSeq")
    /\ Go(r, [Next1(r) EXCEPT !.n = IF GivenPlace(r) THEN 0 ELSE HighestSeq(db, req[r].d) + 1])
    /\ UNCHANGED db

\* The row, its parent in s; from here on the request knows its id.
CreateInsert(r) ==
    /\ req[r].op \in {"createActivity", "createComponent", "generateTour"}
    /\ Due(r, req[r].op, "insert")
    /\ ~Locked(req[r].d)
    /\ IF MayInsert(req[r].d, req[r].s)
       THEN /\ db' = AddActs(db, <<ActRow(req[r].v, req[r].d, req[r].s, req[r].n)>>)
            /\ Go(r, [Next1(r) EXCEPT !.a = db.made.act + 1])
       ELSE Refuse(r)

\* The price row is made in a try block: the activity may have gone meanwhile.
CreatePrice(r) ==
    /\ req[r].op \in {"createActivity", "createComponent", "generateTour"}
    /\ Due(r, req[r].op, "price")
    /\ db' = IF Exists(req[r].a) THEN [db EXCEPT !.price[req[r].a] = 1] ELSE db
    /\ Finish(r)

\* createPackageDetails finds the trip through the day: a floating package gets no details,
\* and its error keeps createPaymentScheduleConfig from running.
CreatePackageDetails(r) ==
    LET a == req[r].a
    IN  /\ Due(r, "createActivity", "package")
        /\ IF Exists(a) /\ db.act[a].day # 0
           THEN db' = [db EXCEPT !.package = @ \cup {a}] /\ Go(r, Next1(r))
           ELSE db' = db /\ Reply(r, "ok")

CreateScheduleConfig(r) ==
    /\ Due(r, "createActivity", "plan")
    /\ db' = IF db.price[req[r].a] # 0 THEN [db EXCEPT !.plan = @ \cup {req[r].a}] ELSE db
    /\ Finish(r)

-----------------------------------------------------------------------------
(* update: v names what the client changes                                   *)

UpdateActivity(r) ==
    \E a \in Acts, what \in {"name", "kind", "booked", "price", "position"} :
        /\ what = "kind" => "retype" \in env.operations
        /\ what = "position" => "place" \in env.operations
        /\ Arrive(r, [Idle EXCEPT !.op = "updateActivity", !.a = a, !.v = what,
             !.pc = <<"find">> \o (IF what = "booked" THEN <<"guard">> ELSE <<>>) \o <<"write">>
                    \o (IF what = "price" THEN <<"guard", "price">> ELSE <<>>)])

\* s is the parent the row had when it was read; the guards look at that one.
UpdateActivityFind(r) ==
    /\ req[r].op \in {"updateActivity", "book"} /\ Due(r, req[r].op, "find")
    /\ IF Exists(req[r].a)
       THEN Go(r, [Next1(r) EXCEPT !.s = db.act[req[r].a].parent]) /\ UNCHANGED db
       ELSE Refuse(r)

\* Neither the booking nor the price of a package's child is its own.
PackageGuard(r) ==
    /\ req[r].op \in {"updateActivity", "book"} /\ Due(r, req[r].op, "guard")
    /\ IF IsPackage(req[r].s) THEN Refuse(r) ELSE Go(r, Next1(r)) /\ UNCHANGED db

\* The row is written by its id; for a new price, before the guard.
UpdateActivityWrite(r) ==
    LET a == req[r].a
    IN  /\ req[r].op \in {"updateActivity", "book"} /\ Due(r, req[r].op, "write")
        /\ IF Exists(a)
           THEN /\ db' = CASE req[r].v = "booked" -> [db EXCEPT !.act[a].booked = TRUE]
                           [] req[r].v = "unbooked" -> [db EXCEPT !.act[a].booked = FALSE]
                           [] req[r].op = "updateActivity" /\ req[r].v = "position" ->
                                  [db EXCEPT !.act[a].seq = 0]
                           [] req[r].v = "kind" -> [db EXCEPT !.act[a].kind =
                                                        IF @ = "package" THEN "tour" ELSE "package"]
                           [] OTHER -> db
                /\ Finish(r)
           ELSE Refuse(r)

UpdateActivityPrice(r) ==
    /\ Due(r, "updateActivity", "price")
    /\ db' = [db EXCEPT !.price[req[r].a] = IF @ = 0 THEN 0 ELSE 2]
    /\ Finish(r)

\* markAsBooked and unmarkAsBooked check the parent, then go through update.
BookActivity(r) ==
    \E a \in Acts, v \in {"booked", "unbooked"} :
        Arrive(r, [Idle EXCEPT !.op = "book", !.a = a, !.v = v,
                     !.pc = <<"find", "guard", "find", "guard", "write">>])

-----------------------------------------------------------------------------
(* remove, reorder, move                                                     *)

\* The clean-up of splits and files is best effort; the children go with the row.
RemoveActivity(r) ==
    \E a \in Acts : Arrive(r, [Idle EXCEPT !.op = "removeActivity", !.a = a,
                                           !.pc = <<"find", "delete">>])

RemoveActivityDelete(r) ==
    /\ req[r].op \in {"removeActivity", "deleteComponent"} /\ Due(r, req[r].op, "delete")
    /\ db' = DropActs(db, {req[r].a})
    /\ Finish(r)

\* The first read of remove and of the deletion of a component.
ActivityFind(r) ==
    /\ req[r].op \in {"removeActivity", "deleteComponent", "updateComponent"}
    /\ Due(r, req[r].op, "find")
    /\ IF Exists(req[r].a) THEN Go(r, Next1(r)) /\ UNCHANGED db ELSE Refuse(r)

\* Two activities of a day are exchanged.
ReorderActivities(r) ==
    \E d \in Days : \E a, b \in ActsOf(db, d) :
        /\ a # b
        /\ Arrive(r, [Idle EXCEPT !.op = "reorderActivities", !.d = d, !.pc = <<"verify", "rows">>,
                        !.seen = {<<a, db.act[b].seq>>, <<b, db.act[a].seq>>}])

ReorderActivitiesVerify(r) ==
    /\ Due(r, "reorderActivities", "verify")
    /\ IF \A w \in req[r].seen : w[1] \in ActsOf(db, req[r].d)
       THEN Go(r, Next1(r)) /\ UNCHANGED db
       ELSE Refuse(r)

ReorderActivitiesRow(r) ==
    /\ Due(r, "reorderActivities", "rows")
    /\ \/ /\ req[r].seen = {} /\ Finish(r) /\ UNCHANGED db
       \/ \E w \in req[r].seen :
            /\ db' = IF Exists(w[1]) THEN [db EXCEPT !.act[w[1]].seq = w[2]] ELSE db
            /\ Go(r, [req[r] EXCEPT !.seen = @ \ {w}])

\* Every day belongs to the one trip here, so the splits stay.
MoveActivity(r) ==
    /\ Expected("move")
    /\ \E a \in Acts, d \in Days, given \in BOOLEAN :
        /\ given => "place" \in env.operations
        /\ Arrive(r, [Idle EXCEPT !.op = "move", !.a = a, !.d = d, !.flag = given,
                                  !.pc = <<"source", "day", "maxSeq", "write">>])

MoveActivityFind(r) ==
    /\ Due(r, "move", "source")
    /\ IF Exists(req[r].a) THEN Go(r, Next1(r)) /\ UNCHANGED db ELSE Refuse(r)

MoveActivityWrite(r) ==
    /\ Due(r, "move", "write") /\ ~Locked(req[r].d)
    /\ IF Exists(req[r].a) /\ MayInsert(req[r].d, 0)
       THEN db' = [db EXCEPT !.act[req[r].a].day = req[r].d, !.act[req[r].a].seq = req[r].n]
            /\ Finish(r)
       ELSE Refuse(r)

-----------------------------------------------------------------------------
(* duplicate: a transaction under a lock on the row of the day               *)

CopiedKinds == {"flight", "lodging", "transportation", "dining", "options", "custom_cruise", "port_info"}

DuplicateActivity(r) ==
    \E a \in Acts, d \in Days :
        Arrive(r, [Idle EXCEPT !.op = "duplicate", !.a = a, !.d = d,
                               !.pc = <<"source", "lock", "maxSeq", "copy">>])

DuplicateFind(r) ==
    /\ Due(r, "duplicate", "source")
    /\ IF Exists(req[r].a) /\ db.act[req[r].a].day = req[r].d
       THEN Go(r, [Next1(r) EXCEPT !.v = db.act[req[r].a].kind]) /\ UNCHANGED db
       ELSE Refuse(r)

\* Fault: the day is not locked.
DuplicateUnlocked(r) ==
    /\ Due(r, "duplicate", "lock") /\ Go(r, Next1(r)) /\ UNCHANGED db

DuplicateLock(r) ==
    /\ Due(r, "duplicate", "lock")
    /\ ~Locked(req[r].d)
    /\ Go(r, Next1(r)) /\ UNCHANGED db

\* The row, its details and its price are copied and committed; not the parent, the booking,
\* the segments of a flight or the details of a tour.
DuplicateCopy(r) ==
    LET a == req[r].a
        new == db.made.act + 1
    IN  /\ Due(r, "duplicate", "copy")
        /\ IF MayInsert(req[r].d, 0)
           THEN /\ db' = [AddActs(db, <<ActRow(req[r].v, req[r].d, 0, req[r].n)>>) EXCEPT
                        !.details = IF a \in @ /\ req[r].v \in CopiedKinds THEN @ \cup {new} ELSE @,
                        !.price[new] = db.price[a]]
                /\ Finish(r)
           ELSE Refuse(r)

-----------------------------------------------------------------------------
(* Packages: linking children, with a walk up the parents against cycles     *)

LinkChildren(r) ==
    \E p \in Acts, a \in Acts :
        /\ a # p
        /\ Arrive(r, [Idle EXCEPT !.op = "link", !.d = p, !.a = a, !.s = p,
                                  !.pc = <<"package", "children", "walk", "write">>])

LinkChildrenPackage(r) ==
    /\ Due(r, "link", "package")
    /\ IF IsPackage(req[r].d) THEN Go(r, Next1(r)) /\ UNCHANGED db ELSE Refuse(r)

LinkChildrenRead(r) ==
    /\ Due(r, "link", "children")
    /\ IF Exists(req[r].a) /\ ~IsPackage(req[r].a) THEN Go(r, Next1(r)) /\ UNCHANGED db
       ELSE Refuse(r)

\* Fault: validateNoParentCycle looks at the package alone.
ValidateNoParentCycleShort(r) ==
    /\ Due(r, "link", "walk") /\ UNCHANGED db
    /\ IF req[r].s = req[r].a THEN Reply(r, "failed") ELSE Go(r, Next1(r))

\* validateNoParentCycle: s walks from the package to its ancestors, one read at a time; after
\* 10 of them the link is refused, also when the chain ends there.
ValidateNoParentCycle(r) ==
    LET s == req[r].s
    IN  /\ Due(r, "link", "walk") /\ UNCHANGED db
        /\ CASE s = req[r].a \/ req[r].n = 10 -> Reply(r, "failed")
             [] s = 0 /\ req[r].n # 10 -> Go(r, Next1(r))
             [] OTHER -> Go(r, [req[r] EXCEPT !.s = db.act[s].parent, !.n = @ + 1])

\* One UPDATE; the package may have gone, and the foreign key refuses.
LinkChildrenWrite(r) ==
    /\ Due(r, "link", "write")
    /\ IF Exists(req[r].d)
       THEN db' = (IF Exists(req[r].a) THEN [db EXCEPT !.act[req[r].a].parent = req[r].d] ELSE db)
            /\ Finish(r)
       ELSE Refuse(r)

UnlinkChildren(r) ==
    \E p \in Acts, a \in Acts :
        Arrive(r, [Idle EXCEPT !.op = "unlink", !.d = p, !.a = a, !.pc = <<"write">>])

UnlinkChildrenWrite(r) ==
    /\ Due(r, "unlink", "write")
    /\ db' = IF db.act[req[r].a].parent = req[r].d
             THEN [db EXCEPT !.act[req[r].a].parent = 0] ELSE db
    /\ Finish(r)

=============================================================================
