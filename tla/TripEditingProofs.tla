---------------------------- MODULE TripEditingProofs ----------------------------
(***************************************************************************)
(* Theorems about TripEditing, for any number of requests and rows, in every *)
(* environment and however requests overlap and die: the status of a trip    *)
(* follows its workflow, bookings and orders are what their records say, and *)
(* the segments of a flight are those of one save; links never close a       *)
(* cycle of packages, copies keep the positions of a day distinct, a form    *)
(* makes one activity, and a trip keeps an itinerary and approves one only.  *)
(***************************************************************************)
EXTENDS TripEditing, FiniteSetTheorems, SequenceTheorems, TLAPS

-----------------------------------------------------------------------------
(* The tables                                                                *)

Fields == {"trip", "first", "log", "order", "mail", "itin", "day", "act", "details", "price",
           "segments", "package", "plan", "made"}
Counters == {"trip", "order", "token", "itin", "day", "act"}

Tabled(t) == DOMAIN t = Fields /\ DOMAIN t.made = Counters /\ DOMAIN t.segments = Acts

\* Nothing of the trips, their orders and mails differs, and no activity has other segments
\* than it had, or none.
SameTrips(t, u) ==
    /\ u.trip = t.trip /\ u.first = t.first /\ u.log = t.log /\ u.order = t.order /\ u.mail = t.mail
    /\ u.made.trip = t.made.trip /\ u.made.order = t.made.order /\ u.made.token = t.made.token
FewerSegments(t, u) == \A a \in Acts : u.segments[a] \in {{}, t.segments[a]}
SameItins(t, u) == u.itin = t.itin /\ u.made.itin = t.made.itin

\* A statement about the plan of the trip.
PlanWrite(t, u) == Tabled(u) /\ SameTrips(t, u) /\ FewerSegments(t, u)

LEMMA NoWrite == ASSUME NEW t, Tabled(t) PROVE PlanWrite(t, t)
BY DEF PlanWrite, Tabled, SameTrips, FewerSegments

LEMMA DropActsWrite ==
    ASSUME NEW t, Tabled(t), NEW A
    PROVE  PlanWrite(t, DropActs(t, A)) /\ SameItins(t, DropActs(t, A))
BY DEF PlanWrite, Tabled, SameTrips, SameItins, FewerSegments, DropActs, Fields

LEMMA DropDaysWrite ==
    ASSUME NEW t, Tabled(t), NEW D
    PROVE  PlanWrite(t, DropDays(t, D)) /\ SameItins(t, DropDays(t, D))
<1> DEFINE u == DropActs(t, UNION {ActsOf(t, d) : d \in D})
<1>1. PlanWrite(t, u) /\ SameItins(t, u) BY DropActsWrite
<1>2. DropDays(t, D) = [u EXCEPT !.day = [d \in Days |-> IF d \in D THEN NoDay ELSE @[d]]]
  BY DEF DropDays
<1> HIDE DEF u
<1> QED BY <1>1, <1>2 DEF PlanWrite, Tabled, SameTrips, SameItins, FewerSegments, Fields

\* These itineraries go.
ItinsGo(t, u, I) ==
    /\ u.itin = [i \in Itins |-> IF i \in I THEN NoItin ELSE t.itin[i]]
    /\ u.made.itin = t.made.itin

LEMMA DropItinsWrite ==
    ASSUME NEW t, Tabled(t), NEW I
    PROVE  PlanWrite(t, DropItins(t, I)) /\ ItinsGo(t, DropItins(t, I), I)
<1> DEFINE u == DropDays(t, UNION {DaysOf(t, i) : i \in I})
<1>1. PlanWrite(t, u) /\ SameItins(t, u) BY DropDaysWrite
<1>2. DropItins(t, I) = [u EXCEPT !.itin = [i \in Itins |-> IF i \in I THEN NoItin ELSE @[i]]]
  BY DEF DropItins
<1> HIDE DEF u
<1> QED
  BY <1>1, <1>2 DEF PlanWrite, Tabled, SameTrips, SameItins, ItinsGo, FewerSegments, Fields

LEMMA AddsWrite ==
    ASSUME NEW t, Tabled(t), NEW rows
    PROVE  /\ PlanWrite(t, AddItin(t, rows)) /\ PlanWrite(t, AddDays(t, rows))
           /\ PlanWrite(t, AddActs(t, rows))
           /\ SameItins(t, AddDays(t, rows)) /\ SameItins(t, AddActs(t, rows))
<1>1. PlanWrite(t, AddItin(t, rows))
  BY DEF PlanWrite, Tabled, SameTrips, FewerSegments, AddItin, Fields, Counters
<1>2. PlanWrite(t, AddDays(t, rows)) /\ SameItins(t, AddDays(t, rows))
  BY DEF PlanWrite, Tabled, SameTrips, SameItins, FewerSegments, AddDays, Fields, Counters
<1>3. PlanWrite(t, AddActs(t, rows)) /\ SameItins(t, AddActs(t, rows))
  BY DEF PlanWrite, Tabled, SameTrips, SameItins, FewerSegments, AddActs, Fields, Counters
<1> QED BY <1>1, <1>2, <1>3

-----------------------------------------------------------------------------
(* The requests                                                              *)

TripOps == {"createTrip", "updateTrip", "removeTrip", "bulkDelete", "bulkArchive", "bulkStatus",
            "publishTrip", "unpublishTrip"}
OrderOps == {"generateOrder", "finalizeOrder", "sendOrder"}

\* A request about trips and orders.
Tripping(q) == q.op \in TripOps \cup OrderOps

\* The steps such a request may have before it.
SendSteps == <<"prepare", "log", "provider", "markLog", "markFind", "markWrite">>
AfterPrepare == <<"log", "provider", "markLog", "markFind", "markWrite">>
Sending ==
    {<<"get", "prepare", "log", "provider", "markLog", "markFind", "markWrite">>,
     <<"finalizeFind", "finalizeWrite", "prepare", "log", "provider", "markLog", "markFind",
       "markWrite">>,
     <<"finalizeWrite", "prepare", "log", "provider", "markLog", "markFind", "markWrite">>,
     SendSteps, AfterPrepare, <<"filtered">>,
     <<"provider", "markLog", "markFind", "markWrite">>, <<"markLog", "markFind", "markWrite">>,
     <<"markFind", "markWrite">>, <<"markWrite">>}

Course(q) ==
    /\ Tripping(q) => q.by = "none"
    /\ q.op = "createTrip" => q.pc = <<"insert">>
    /\ q.op = "updateTrip" => q.pc \in {<<"find", "write">>, <<"write">>, <<"group">>}
    /\ q.op = "removeTrip" => q.pc \in {<<"find", "delete">>, <<"delete">>}
    /\ q.op \in {"bulkDelete", "bulkArchive", "bulkStatus"} => q.pc \in {<<"read", "each">>, <<"each">>}
    /\ q.op = "publishTrip" => q.pc \in {<<"find", "write">>, <<"write">>}
    /\ q.op = "unpublishTrip" => q.pc = <<"write">>
    /\ q.op = "generateOrder" =>
            q.pc \in {<<"trip", "version", "insert">>, <<"version", "insert">>, <<"insert">>}
    /\ q.op = "finalizeOrder" => q.pc \in {FinalizeSteps, <<"finalizeWrite">>}
    /\ q.op = "sendOrder" => q.pc \in Sending

\* A save writes the segments of one, and a generator writes none.
GeneratorSteps ==
    {"validate", "hasChildren", "bounds", "delete", "dates", "maxDays", "insertDays", "readDays",
     "insertPorts", "portDetails", "children", "deleteEach", "missing", "tourNext", "day",
     "maxSeq", "insert", "price", "details"}
NoSegments(s) == s \in Seq(GeneratorSteps)
SavesOnce(q) ==
    /\ q.op \in {"createComponent", "updateComponent"} => \E n : q.seen \subseteq {n}
    /\ q.op \in {"generateTour", "generatePorts"} => NoSegments(q.pc)

Slotted(s) == DOMAIN s = Requests /\ \A r \in Requests : DOMAIN s[r] = DOMAIN Idle
Framed == /\ Tabled(db) /\ Slotted(req)
          /\ \A r \in Requests : Course(req[r]) /\ SavesOnce(req[r])

\* A request about the plan has done a step, or has come.
PlanMove(r) ==
    /\ Slotted(req') /\ \A q \in Requests \ {r} : req'[q] = req[q]
    /\ ~Tripping(req[r]) /\ ~Tripping(req'[r]) /\ SavesOnce(req'[r])
    /\ faults' = faults

LEMMA IdleFacts ==
    /\ DOMAIN Idle = {"op", "pc", "t", "o", "i", "d", "a", "n", "s", "v", "flag", "seen", "by"}
    /\ Idle.op = "idle" /\ Idle.seen = {} /\ Idle.pc = <<>> /\ Idle.by = "none"
BY DEF Idle

LEMMA MoveTo ==
    ASSUME Framed, NEW r \in Requests, NEW row, req' = [req EXCEPT ![r] = row],
           DOMAIN row = DOMAIN Idle, ~Tripping(req[r]), ~Tripping(row), SavesOnce(row),
           faults' = faults
    PROVE  PlanMove(r)
BY DEF PlanMove, Framed, Slotted

\* A request comes.

LEMMA TailSegments ==
    ASSUME NEW s, NoSegments(s), s # <<>> PROVE NoSegments(Tail(s))
BY DEF NoSegments

LEMMA JoinedSegments ==
    ASSUME NEW s, NEW t, NoSegments(s), NoSegments(t) PROVE NoSegments(s \o t)
BY ConcatProperties DEF NoSegments

LEMMA NextSlot ==
    ASSUME Framed, NEW r \in Requests
    PROVE  /\ DOMAIN Next1(r) = DOMAIN Idle /\ Next1(r).op = req[r].op /\ Next1(r).by = req[r].by
           /\ Next1(r).pc = Tail(req[r].pc) /\ Next1(r).t = req[r].t /\ Next1(r).o = req[r].o
           /\ Next1(r).i = req[r].i /\ Next1(r).d = req[r].d /\ Next1(r).a = req[r].a
           /\ Next1(r).n = req[r].n /\ Next1(r).s = req[r].s /\ Next1(r).v = req[r].v
           /\ Next1(r).flag = req[r].flag /\ Next1(r).seen = req[r].seen
           /\ DOMAIN req[r] = DOMAIN Idle
BY IdleFacts DEF Framed, Slotted, Next1

\* A request of these operations comes, or goes on with the same operation, or ends.
Others(r) == \A q \in Requests \ {r} : req'[q] = req[q]
Comes(r, ops) ==
    /\ req[r] = Idle /\ req'[r].op \in env.operations \cap ops /\ req'[r].by = "none"
    /\ Slotted(req') /\ Others(r) /\ form' = form /\ faults' = faults /\ db' = db
Works(r) ==
    /\ Slotted(req') /\ Others(r) /\ form' = form /\ req'[r].by = req[r].by
    /\ req[r].op # "sendOrder" => faults' = faults
    /\ \/ req'[r].op = req[r].op
       \/ req'[r].op \in {"idle", "ok", "failed"} /\ (req[r].by = "none" => req'[r] = Idle)
Serves(r, ops) == Comes(r, ops) \/ (Works(r) /\ req[r].op \in ops /\ req[r].pc # <<>>)

\* It does not change its plan, or not what it saves either.
Sees(r) ==
    /\ Works(r)
    /\ req'[r].op = req[r].op => req'[r].pc \in {<<>>, req[r].pc, Tail(req[r].pc)}
Notes(r) == Sees(r) /\ (req'[r].op = req[r].op => req'[r].seen \in {{}, req[r].seen})

LEMMA ComesAs ==
    ASSUME Framed, NEW r \in Requests, NEW row, NEW ops, Arrive(r, row), row.op \in ops,
           row.by = "none", DOMAIN row = DOMAIN Idle
    PROVE  Comes(r, ops) /\ req'[r] = row
BY DEF Framed, Slotted, Arrive, Comes, Others

LEMMA WorksWith ==
    ASSUME Framed, NEW r \in Requests, NEW row, Go(r, row), DOMAIN row = DOMAIN Idle,
           row.op = req[r].op, row.by = req[r].by
    PROVE  Works(r) /\ req'[r] = row
BY DEF Framed, Slotted, Go, Works, Others

LEMMA WorksOn ==
    ASSUME Framed, NEW r \in Requests
    PROVE  /\ Notes(r) => Sees(r)
           /\ Sees(r) => Works(r)
           /\ Go(r, Next1(r)) => Notes(r)
           /\ \A answer \in {"ok", "failed"} : Reply(r, answer) => Notes(r)
           /\ Finish(r) \/ Refuse(r) => Notes(r)
           /\ \A x : Go(r, [Next1(r) EXCEPT !.n = x]) => Notes(r)
           /\ \A x : Go(r, [Next1(r) EXCEPT !.s = x]) => Notes(r)
           /\ \A x : Go(r, [Next1(r) EXCEPT !.i = x]) => Notes(r)
           /\ \A x : Go(r, [Next1(r) EXCEPT !.d = x]) => Notes(r)
           /\ \A x : Go(r, [Next1(r) EXCEPT !.a = x]) => Notes(r)
           /\ \A x : Go(r, [Next1(r) EXCEPT !.v = x]) => Notes(r)
           /\ \A x : Go(r, [Next1(r) EXCEPT !.flag = x]) => Notes(r)
           /\ \A x : Go(r, [Next1(r) EXCEPT !.seen = x]) => Sees(r)
           /\ \A x : Go(r, [req[r] EXCEPT !.seen = x]) => Sees(r)
           /\ \A x : Go(r, [req[r] EXCEPT !.pc = x]) => Works(r)
           /\ \A x, y : Go(r, [Next1(r) EXCEPT !.n = x, !.d = y]) => Notes(r)
           /\ \A x, y : Go(r, [Next1(r) EXCEPT !.n = x, !.s = y]) => Notes(r)
           /\ \A x, y : Go(r, [Next1(r) EXCEPT !.i = x, !.n = y]) => Notes(r)
           /\ \A x, y : Go(r, [Next1(r) EXCEPT !.i = x, !.pc = y]) => Works(r)
           /\ \A x, y : Go(r, [req[r] EXCEPT !.s = x, !.n = y]) => Notes(r)
           /\ \A x, y, z : Go(r, [Next1(r) EXCEPT !.n = x, !.s = y, !.d = z]) => Notes(r)
           /\ \A x, y, z : Go(r, [req[r] EXCEPT !.seen = x, !.d = y, !.pc = z]) => Works(r)
           /\ \A x, y : Go(r, [req[r] EXCEPT !.t = x, !.pc = y]) => Works(r)
           /\ \A x, y : Go(r, [req[r] EXCEPT !.s = x, !.pc = y]) => Works(r)
           /\ \A x, y, z : Go(r, [Next1(r) EXCEPT !.n = x, !.a = y, !.flag = z]) => Works(r)
           /\ \A x, y, z : Go(r, [req[r] EXCEPT !.pc = x, !.d = y, !.a = z]) => Works(r)
<1>1. /\ Next1(r).op = req[r].op /\ Next1(r).by = req[r].by
      /\ Next1(r).pc = Tail(req[r].pc) /\ Next1(r).seen = req[r].seen
      /\ DOMAIN Next1(r) = DOMAIN Idle /\ DOMAIN req[r] = DOMAIN Idle
  BY NextSlot
<1>2. ASSUME NEW answer \in {"ok", "failed"}, Reply(r, answer) PROVE Notes(r)
  <2> DEFINE row == IF req[r].by = "none" THEN Idle
                    ELSE [Idle EXCEPT !.op = answer, !.by = req[r].by, !.a = req[r].a]
  <2>1. /\ row.by = req[r].by /\ row.op \in {"idle", "ok", "failed"} /\ Go(r, row)
        /\ req[r].by = "none" => row = Idle
        /\ DOMAIN row = DOMAIN Idle
        /\ row.op = req[r].op => row.pc = <<>> /\ row.seen = {}
    BY <1>2, IdleFacts DEF Reply
  <2> HIDE DEF row
  <2> QED BY <2>1 DEF Framed, Slotted, Go, Works, Others, Notes, Sees
<1>3. ASSUME NEW row, Go(r, row), DOMAIN row = DOMAIN Idle, row.op = req[r].op,
             row.by = req[r].by, row.pc \in {req[r].pc, Tail(req[r].pc)}
      PROVE  Sees(r) /\ (row.seen = req[r].seen => Notes(r))
  BY <1>3, WorksWith DEF Sees, Notes
<1>4. ASSUME NEW q, DOMAIN q = DOMAIN Idle, q.op = req[r].op, q.by = req[r].by,
             q.pc \in {req[r].pc, Tail(req[r].pc)}, q.seen = req[r].seen
      PROVE  /\ \A x : Go(r, [q EXCEPT !.n = x]) => Notes(r)
             /\ \A x : Go(r, [q EXCEPT !.s = x]) => Notes(r)
             /\ \A x : Go(r, [q EXCEPT !.i = x]) => Notes(r)
             /\ \A x : Go(r, [q EXCEPT !.d = x]) => Notes(r)
             /\ \A x : Go(r, [q EXCEPT !.a = x]) => Notes(r)
             /\ \A x : Go(r, [q EXCEPT !.v = x]) => Notes(r)
             /\ \A x : Go(r, [q EXCEPT !.flag = x]) => Notes(r)
             /\ \A x : Go(r, [q EXCEPT !.seen = x]) => Sees(r)
             /\ \A x, y : Go(r, [q EXCEPT !.n = x, !.d = y]) => Notes(r)
             /\ \A x, y : Go(r, [q EXCEPT !.n = x, !.s = y]) => Notes(r)
             /\ \A x, y : Go(r, [q EXCEPT !.i = x, !.n = y]) => Notes(r)
             /\ \A x, y : Go(r, [q EXCEPT !.s = x, !.n = y]) => Notes(r)
             /\ \A x, y, z : Go(r, [q EXCEPT !.n = x, !.s = y, !.d = z]) => Notes(r)
             /\ \A x : Go(r, [q EXCEPT !.pc = x]) => Works(r)
             /\ \A x, y : Go(r, [q EXCEPT !.i = x, !.pc = y]) => Works(r)
             /\ \A x, y, z : Go(r, [q EXCEPT !.seen = x, !.d = y, !.pc = z]) => Works(r)
             /\ \A x, y : Go(r, [q EXCEPT !.t = x, !.pc = y]) => Works(r)
             /\ \A x, y : Go(r, [q EXCEPT !.s = x, !.pc = y]) => Works(r)
             /\ \A x, y, z : Go(r, [q EXCEPT !.n = x, !.a = y, !.flag = z]) => Works(r)
             /\ \A x, y, z : Go(r, [q EXCEPT !.pc = x, !.d = y, !.a = z]) => Works(r)
  BY <1>3, <1>4, WorksWith, IdleFacts
<1>5. Go(r, Next1(r)) => Notes(r) BY <1>1, <1>3
<1>6. Finish(r) \/ Refuse(r) => Notes(r) BY <1>2, <1>5 DEF Finish, Refuse
<1>7. (Notes(r) => Sees(r)) /\ (Sees(r) => Works(r)) BY DEF Notes, Sees
<1> QED BY <1>1, <1>2, <1>4, <1>5, <1>6, <1>7, Zenon

\* What a request saves, it saves once.
LEMMA SavesStill ==
    ASSUME Framed, NEW r \in Requests, req[r].pc # <<>>, Sees(r),
           Notes(r) \/ req[r].op \notin {"createComponent", "updateComponent"}
    PROVE  SavesOnce(req'[r])
<1>1. NoSegments(<<>>) BY DEF NoSegments
<1> QED BY <1>1, TailSegments DEF Framed, SavesOnce, Sees, Notes, Works

\* The requests whose rows SavesOnce looks at.
SavingOps == {"createComponent", "updateComponent", "generateTour", "generatePorts"}

LEMMA PlanWorks ==
    ASSUME Framed, NEW r \in Requests, Works(r), ~Tripping(req[r]),
           req[r].op \in SavingOps => SavesOnce(req'[r])
    PROVE  PlanMove(r)
<1>1. SavesOnce(req'[r]) BY DEF SavesOnce, Works, SavingOps
<1> QED BY <1>1 DEF PlanMove, Works, Others, Tripping, TripOps, OrderOps

LEMMA PlanComes ==
    ASSUME Framed, NEW r \in Requests, NEW ops, Comes(r, ops), ops \cap (TripOps \cup OrderOps) = {},
           req'[r].op \in SavingOps => SavesOnce(req'[r])
    PROVE  PlanMove(r)
<1>1. SavesOnce(req'[r]) BY DEF SavesOnce, SavingOps
<1> QED BY <1>1, IdleFacts DEF PlanMove, Comes, Others, Tripping, TripOps, OrderOps

ItineraryOps == {"createItinerary", "listItineraries", "updateItinerary", "selectItinerary",
                 "removeItinerary"}
DayOps == {"createDay", "updateDay", "removeDay", "reorderDays", "autoGenerate", "batchCreate",
           "dayByDate"}
ActivityOps == {"createActivity", "updateActivity", "book", "removeActivity", "reorderActivities",
                "move", "duplicate", "link", "unlink"}
ComponentOps == {"createComponent", "updateComponent", "deleteComponent"}
GenerateOps == {"generatePorts", "generateTour"}

LEMMA ItineraryServes ==
    ASSUME Framed, NEW r \in Requests, ItineraryStep(r) PROVE Serves(r, ItineraryOps)
<1> DEFINE arrives == CreateItinerary(r) \/ ListSelected(r) \/ UpdateItinerary(r)
                      \/ SelectItinerary(r) \/ RemoveItinerary(r)
<1>1. CASE arrives
  BY <1>1, ComesAs, IdleFacts
     DEF CreateItinerary, ListSelected, UpdateItinerary, SelectItinerary, RemoveItinerary,
         ItineraryOps, Serves
<1>2. CASE ~arrives
  <2>1. req[r].op \in ItineraryOps /\ req[r].pc # <<>> /\ Works(r)
    BY <1>2, WorksOn, Zenon
       DEF ItineraryStep, CreateItineraryCount, CreateItineraryArchive, CreateItineraryInsert,
           ListSelectedRead, ListAllRead, UpdateItineraryFind, UpdateItineraryArchive,
           UpdateItineraryApprove, UpdateItineraryWrite, SelectItineraryDeselect,
           SelectItineraryWrite, ItineraryFind, RemoveItineraryCount, RemoveItineraryDelete, Due,
           ItineraryOps
  <2> QED BY <2>1 DEF Serves
<1> QED BY <1>1, <1>2

LEMMA DayServes ==
    ASSUME Framed, NEW r \in Requests, DayStep(r)
    PROVE  Serves(r, DayOps \cup {"createItinerary"}) /\ (req'[r].op \in DayOps \/ req[r] # Idle)
<1> DEFINE arrives == CreateDay(r) \/ UpdateDay(r) \/ RemoveDay(r) \/ ReorderDays(r)
                      \/ AutoGenerate(r) \/ BatchCreate(r) \/ FindOrCreateByDate(r)
<1>1. CASE arrives
  <2>1. Comes(r, DayOps)
    BY <1>1, ComesAs, IdleFacts
       DEF CreateDay, UpdateDay, RemoveDay, ReorderDays, AutoGenerate, BatchCreate,
           FindOrCreateByDate, DayOps
  <2> QED BY <2>1 DEF Serves, Comes
<1>2. CASE ~arrives
  <2>1. req[r].op \in DayOps \cup {"createItinerary"} /\ req[r].pc # <<>> /\ Works(r)
    BY <1>2, WorksOn, Zenon
       DEF DayStep, CreateDayDuplicate, CreateDayMaxSeq, CreateDayInsert, UpdateDayFind,
           UpdateDayConflict, UpdateDayWrite, RemoveDayFind, RemoveDayDelete, RemoveDaySelect,
           RemoveDayRow, ReorderDaysVerify, ReorderDaysRow, AutoGenerateClear, AutoGenerateFill,
           BatchCreateRead, BatchCreateEnd, BatchCreateStart, DayByDateFind, DayByDatePosition,
           DayByDateInsert, InsertDays, Due, DayOps
  <2> QED BY <2>1, IdleFacts DEF Serves, DayOps
<1> QED BY <1>1, <1>2

\* Two steps are those of every request with a day.
ActivityArrives(r) ==
    \/ CreateActivity(r) \/ UpdateActivity(r) \/ BookActivity(r) \/ RemoveActivity(r)
    \/ ReorderActivities(r) \/ MoveActivity(r) \/ DuplicateActivity(r) \/ LinkChildren(r)
    \/ UnlinkChildren(r)
LEMMA ActivityServes ==
    ASSUME Framed, NEW r \in Requests, ActivityStep(r)
    PROVE  \/ Comes(r, ActivityOps) /\ ActivityArrives(r)
           \/ /\ Works(r) /\ req[r] # Idle /\ req[r].pc # <<>>
              /\ \/ Notes(r) /\ (VerifyDayExists(r) \/ CreateMaxSeq(r))
                 \/ Notes(r) /\ req[r].op \in ComponentOps \cup GenerateOps
                 \/ req[r].op \in ActivityOps
<1>1. CASE ActivityArrives(r)
  BY <1>1, ComesAs, IdleFacts
     DEF CreateActivity, UpdateActivity, BookActivity, RemoveActivity, ReorderActivities,
         MoveActivity, DuplicateActivity, LinkChildren, UnlinkChildren, ActivityOps, ActivityArrives
<1>2. CASE ~ActivityArrives(r)
  <2>1. /\ Works(r) /\ req[r].pc # <<>>
        /\ Notes(r) \/ req[r].op \in ActivityOps
        /\ VerifyDayExists(r) \/ CreateMaxSeq(r)
           \/ req[r].op \in ActivityOps \cup ComponentOps \cup GenerateOps
    BY <1>2, WorksOn, Zenon
       DEF ActivityArrives, ActivityStep, VerifyDayExists, CreateMaxSeq, CreateInsert, CreatePrice,
           CreatePackageDetails, CreateScheduleConfig, UpdateActivityFind, PackageGuard,
           UpdateActivityWrite, UpdateActivityPrice, ActivityFind, RemoveActivityDelete,
           ReorderActivitiesVerify, ReorderActivitiesRow, MoveActivityFind, MoveActivityWrite,
           DuplicateFind, DuplicateLock, DuplicateCopy, LinkChildrenPackage, LinkChildrenRead,
           ValidateNoParentCycle, LinkChildrenWrite, UnlinkChildrenWrite, Due, ActivityOps,
           ComponentOps, GenerateOps
  <2> QED BY <2>1, IdleFacts
<1> QED BY <1>1, <1>2

LEMMA ComponentRequestServes ==
    ASSUME Framed, NEW r \in Requests, ComponentRequest(r)
    PROVE  Comes(r, ComponentOps) /\ req'[r].seen \subseteq {left}
<1>1. \A kind, parent, steps : Create(r, kind, parent, steps)
          => Comes(r, ComponentOps) /\ req'[r].seen \subseteq {left}
  BY ComesAs, IdleFacts DEF Create, ComponentOps
<1>2. \A kind, steps : Update(r, kind, steps) => Comes(r, ComponentOps) /\ req'[r].seen \subseteq {left}
  BY ComesAs, IdleFacts DEF Update, ComponentOps
<1>3. \A kind : Delete(r, kind) => Comes(r, ComponentOps) /\ req'[r].seen \subseteq {left}
  BY ComesAs, IdleFacts DEF Delete, ComponentOps
<1>4. CreatePortEntriesFromCruise(r) => Comes(r, ComponentOps) /\ req'[r].seen \subseteq {left}
  BY ComesAs, IdleFacts DEF CreatePortEntriesFromCruise, ComponentOps
<1> QED
  BY <1>1, <1>2, <1>3, <1>4, Zenon
     DEF ComponentRequest, CreateFlight, UpdateFlight, DeleteFlight, CreateLodging, UpdateLodging,
       DeleteLodging, CreateTransportation, UpdateTransportation, DeleteTransportation,
       CreateDining, UpdateDining, DeleteDining, CreateOptions, UpdateOptions, DeleteOptions,
       CreateCustomCruise, UpdateCustomCruise, DeleteCustomCruise, CreateCustomTour,
       UpdateCustomTour, DeleteCustomTour, CreatePortInfo, UpdatePortInfo, DeletePortInfo,
       CreateTourDay, UpdateTourDay, DeleteTourDay

LEMMA ComponentServes ==
    ASSUME Framed, NEW r \in Requests, ComponentStep(r)
    PROVE  /\ Works(r) /\ Notes(r) /\ req[r].pc # <<>>
           /\ req[r].op \in {"createComponent", "updateComponent"} \cup GenerateOps
<1>1. Works(r) /\ Notes(r) /\ \E step : Of(r, step)
  BY WorksOn, Zenon
     DEF ComponentStep, WriteBase, InsertDetails, InsertBadDetails, FindDetailsRow, WriteDetails,
         UpsertDetails, ClearSegments, InsertSegments, SetPrice, FindPriceRow, WritePrice
<1> QED BY <1>1 DEF Of, Due, GenerateOps

LEMMA ScheduleServes ==
    ASSUME Framed, NEW r \in Requests, ScheduleStep(r)
    PROVE  /\ Serves(r, GenerateOps)
           /\ GeneratePorts(r) \/ GenerateTour(r) \/ TourMissing(r) \/ TourNext(r)
              \/ (Sees(r) /\ req[r].pc # <<>> /\ req[r].op \in GenerateOps)
<1> DEFINE arrives == GeneratePorts(r) \/ GenerateTour(r)
<1>1. CASE arrives
  <2>1. Comes(r, GenerateOps)
    BY <1>1, ComesAs, IdleFacts DEF GeneratePorts, GenerateTour, GenerateOps
  <2> QED BY <1>1, <2>1 DEF Serves
<1>2. CASE ~arrives
  <2>1. /\ req[r].op \in GenerateOps /\ req[r].pc # <<>> /\ Works(r)
        /\ TourMissing(r) \/ TourNext(r) \/ Sees(r)
    BY <1>2, WorksOn, Zenon
       DEF ScheduleStep, GenerateValidate, GenerateHasChildren, GenerateBounds, GenerateDelete,
           GenerateDates, MaxOfDays, InsertDateRange, ReadDateRange, InsertPorts,
           InsertPortDetails, TourChildren, TourDeleteEach, TourMissing, TourNext, Due, GenerateOps
  <2> QED BY <2>1 DEF Serves
<1> QED BY <1>1, <1>2

SameActs(t, u) ==
    u.act = t.act /\ u.details = t.details /\ u.price = t.price /\ u.made.act = t.made.act

LEMMA Reads ==
    ASSUME NEW r \in Requests
    PROVE  (\A row : Arrive(r, row) => db' = db) /\ (Refuse(r) => db' = db)
BY DEF Arrive, Refuse

LEMMA ItineraryWrites ==
    ASSUME Tabled(db), NEW r \in Requests, ItineraryStep(r)
    PROVE  PlanWrite(db, db') /\ (SameActs(db, db') \/ \E I : db' = DropItins(db, I))
<1>1. \/ db' = db
      \/ \E i : db' = ArchiveApproved(db, i)
      \/ \E row : db' = AddItin(db, row)
      \/ \E i, x, y : db' = [db EXCEPT !.itin[i].status = x, !.itin[i].selected = y]
      \/ \E i, row : db' = [db EXCEPT !.itin[i] = row]
      \/ SelectItineraryDeselect(r) \/ SelectItineraryWrite(r)
      \/ \E i : db' = DropItin(db, i)
  BY Reads, Zenon
     DEF ItineraryStep, CreateItinerary, CreateItineraryCount, CreateItineraryArchive,
       CreateItineraryInsert, ListSelected, ListSelectedRead, ListAllRead, UpdateItinerary,
       UpdateItineraryFind, UpdateItineraryArchive, UpdateItineraryApprove, UpdateItineraryWrite,
       SelectItinerary, RemoveItinerary, ItineraryFind, RemoveItineraryCount, RemoveItineraryDelete
<1>2. CASE \E row : db' = AddItin(db, row)
  <2>1. \A row : SameActs(db, AddItin(db, row))
    BY DEF AddItin, SameActs, Tabled, Fields, Counters
  <2> QED BY <1>2, <2>1, AddsWrite, Zenon
<1>3. CASE \/ db' = db \/ \E i : db' = ArchiveApproved(db, i)
           \/ \E i, x, y : db' = [db EXCEPT !.itin[i].status = x, !.itin[i].selected = y]
           \/ \E i, row : db' = [db EXCEPT !.itin[i] = row]
           \/ SelectItineraryDeselect(r) \/ SelectItineraryWrite(r)
  BY <1>3, Reads
     DEF ArchiveApproved, SelectItineraryDeselect, SelectItineraryWrite, SameActs, PlanWrite,
         SameTrips, FewerSegments, Tabled, Fields
<1>4. CASE \E i : db' = DropItin(db, i) BY <1>4, DropItinsWrite, Zenon DEF DropItin
<1> QED BY <1>1, <1>2, <1>3, <1>4

LEMMA ItineraryMoves ==
    ASSUME Framed, NEW r \in Requests, ItineraryStep(r)
    PROVE  PlanMove(r) /\ PlanWrite(db, db')
BY ItineraryServes, ItineraryWrites, PlanWorks, PlanComes
   DEF Framed, Serves, Comes, ItineraryOps, Tripping, TripOps, OrderOps, SavingOps

LEMMA DayWrites ==
    ASSUME Tabled(db), NEW r \in Requests, DayStep(r)
    PROVE  /\ PlanWrite(db, db') /\ SameItins(db, db')
           /\ SameActs(db, db') \/ \E D : db' = DropDays(db, D)
<1>1. \/ db' = db
      \/ \E rows : db' = AddDays(db, rows)
      \/ UpdateDayWrite(r) \/ RemoveDayRow(r) \/ ReorderDaysRow(r)
      \/ \E x, rows : db' = AddDays([db EXCEPT !.day = x], rows)
      \/ \E D : db' = DropDays(db, D)
  BY Reads, Zenon
     DEF DayStep, CreateDay, CreateDayDuplicate, CreateDayMaxSeq, CreateDayInsert, UpdateDay,
       UpdateDayFind, UpdateDayConflict, RemoveDay, RemoveDayFind,
       RemoveDayDelete, RemoveDaySelect, ReorderDays, ReorderDaysVerify,
       AutoGenerate, AutoGenerateClear, AutoGenerateFill, BatchCreate,
       BatchCreateRead, BatchCreateEnd, BatchCreateStart, FindOrCreateByDate, DayByDateFind,
       DayByDatePosition, DayByDateInsert, InsertDays
<1>2. ASSUME NEW t, Tabled(t), NEW rows
      PROVE  /\ PlanWrite(t, AddDays(t, rows)) /\ SameActs(t, AddDays(t, rows))
             /\ SameItins(t, AddDays(t, rows))
  BY <1>2, AddsWrite DEF AddDays, SameActs, Tabled, Fields, Counters
<1>3. CASE db' = db \/ UpdateDayWrite(r) \/ RemoveDayRow(r) \/ ReorderDaysRow(r)
  BY <1>3, Reads
     DEF UpdateDayWrite, RemoveDayRow, ReorderDaysRow, SameActs, PlanWrite, SameTrips,
         SameItins, FewerSegments, Tabled, Fields
<1>4. ASSUME NEW x, NEW rows
      PROVE  LET u == AddDays([db EXCEPT !.day = x], rows)
             IN  PlanWrite(db, u) /\ SameActs(db, u) /\ SameItins(db, u)
  <2> DEFINE t == [db EXCEPT !.day = x]
  <2>1. PlanWrite(db, t) /\ SameActs(db, t) /\ SameItins(db, t)
    BY DEF PlanWrite, SameTrips, FewerSegments, Tabled, Fields, SameActs, SameItins
  <2> HIDE DEF t
  <2>2. /\ PlanWrite(t, AddDays(t, rows)) /\ SameActs(t, AddDays(t, rows))
        /\ SameItins(t, AddDays(t, rows))
    BY <1>2, <2>1 DEF PlanWrite
  <2>3. /\ PlanWrite(db, AddDays(t, rows)) /\ SameActs(db, AddDays(t, rows))
        /\ SameItins(db, AddDays(t, rows))
    BY <2>1, <2>2 DEF PlanWrite, SameTrips, FewerSegments, SameActs, SameItins
  <2> QED BY <2>3 DEF t
<1> QED BY <1>1, <1>2, <1>3, <1>4, DropDaysWrite

LEMMA DayMoves ==
    ASSUME Framed, NEW r \in Requests, DayStep(r)
    PROVE  PlanMove(r) /\ PlanWrite(db, db')
BY DayServes, DayWrites, PlanWorks, PlanComes
   DEF Framed, Serves, Comes, DayOps, Tripping, TripOps, OrderOps, SavingOps

LEMMA ActivityWrites ==
    ASSUME Tabled(db), NEW r \in Requests, ActivityStep(r)
    PROVE  /\ PlanWrite(db, db') /\ SameItins(db, db')
           /\ \/ db' = db
              \/ \E a, n : n # 0 /\ db' = [db EXCEPT !.price[a] = n]
              \/ \E a : db' = [db EXCEPT !.price[a] = IF @ = 0 THEN 0 ELSE 2]
              \/ \E D : db' = [db EXCEPT !.package = D]
              \/ \E D : db' = [db EXCEPT !.plan = D]
              \/ \E A : db' = DropActs(db, A)
              \/ UpdateActivityWrite(r)
              \/ CreateInsert(r) \/ DuplicateCopy(r) \/ MoveActivityWrite(r)
              \/ ReorderActivitiesRow(r) \/ LinkChildrenWrite(r) \/ UnlinkChildrenWrite(r)
<1>1. \/ db' = db
      \/ \E a, n : n # 0 /\ db' = [db EXCEPT !.price[a] = n]
      \/ \E a : db' = [db EXCEPT !.price[a] = IF @ = 0 THEN 0 ELSE 2]
      \/ \E D : db' = [db EXCEPT !.package = D]
      \/ \E D : db' = [db EXCEPT !.plan = D]
      \/ \E A : db' = DropActs(db, A)
      \/ UpdateActivityWrite(r)
      \/ CreateInsert(r) \/ DuplicateCopy(r) \/ MoveActivityWrite(r)
      \/ ReorderActivitiesRow(r) \/ LinkChildrenWrite(r) \/ UnlinkChildrenWrite(r)
  <2>1. 1 # 0 OBVIOUS
  <2> QED
    BY <2>1, Reads, Zenon
       DEF ActivityStep, CreateActivity, VerifyDayExists, CreateMaxSeq, CreatePrice,
           CreatePackageDetails, CreateScheduleConfig, UpdateActivity, UpdateActivityFind,
           PackageGuard, UpdateActivityPrice, BookActivity, RemoveActivity,
           ActivityFind, RemoveActivityDelete, ReorderActivities, ReorderActivitiesVerify,
           MoveActivity, MoveActivityFind, DuplicateActivity, DuplicateFind, DuplicateLock,
           LinkChildren, LinkChildrenPackage, LinkChildrenRead, ValidateNoParentCycle,
           UnlinkChildren
<1>2. ASSUME CreateInsert(r) \/ DuplicateCopy(r) PROVE PlanWrite(db, db') /\ SameItins(db, db')
  <2>1. \/ db' = db \/ \E rows : db' = AddActs(db, rows)
        \/ \E rows, D, a, n : db' = [AddActs(db, rows) EXCEPT !.details = D, !.price[a] = n]
    BY <1>2, Reads, Zenon DEF CreateInsert, DuplicateCopy
  <2>2. ASSUME NEW u, NEW D, NEW a, NEW n, PlanWrite(db, u), SameItins(db, u)
        PROVE  LET w == [u EXCEPT !.details = D, !.price[a] = n]
               IN  PlanWrite(db, w) /\ SameItins(db, w)
    BY <2>2 DEF PlanWrite, SameTrips, SameItins, FewerSegments, Tabled, Fields
  <2>3. ASSUME NEW rows, NEW D, NEW a, NEW n
        PROVE  LET w == [AddActs(db, rows) EXCEPT !.details = D, !.price[a] = n]
               IN  PlanWrite(db, w) /\ SameItins(db, w)
    <3> DEFINE u == AddActs(db, rows)
               w == [u EXCEPT !.details = D, !.price[a] = n]
    <3>1. PlanWrite(db, u) /\ SameItins(db, u) BY AddsWrite
    <3> HIDE DEF u
    <3>2. PlanWrite(db, w) /\ SameItins(db, w) BY <2>2, <3>1
    <3> QED BY <3>2 DEF u
  <2>4. CASE \E rows, D, a, n : db' = [AddActs(db, rows) EXCEPT !.details = D, !.price[a] = n]
    <3>1. PICK rows, D, a, n : db' = [AddActs(db, rows) EXCEPT !.details = D, !.price[a] = n]
      BY <2>4
    <3> QED BY <2>3, <3>1
  <2>5. CASE \E rows : db' = AddActs(db, rows) BY <2>5, AddsWrite
  <2>6. CASE db' = db BY <2>6, NoWrite DEF SameItins
  <2> QED BY <2>1, <2>4, <2>5, <2>6, Zenon
<1>3. ASSUME \/ MoveActivityWrite(r) \/ ReorderActivitiesRow(r) \/ LinkChildrenWrite(r)
             \/ UnlinkChildrenWrite(r) \/ UpdateActivityWrite(r)
      PROVE  PlanWrite(db, db') /\ SameItins(db, db')
  <2>1. db' = db \/ \E x : db' = [db EXCEPT !.act = x]
    BY <1>3, Reads
       DEF MoveActivityWrite, ReorderActivitiesRow, LinkChildrenWrite, UnlinkChildrenWrite,
           UpdateActivityWrite
  <2> QED BY <2>1 DEF PlanWrite, SameTrips, SameItins, FewerSegments, Tabled, Fields
<1>4. ASSUME \/ db' = db
             \/ \E a, n : n # 0 /\ db' = [db EXCEPT !.price[a] = n]
             \/ \E a : db' = [db EXCEPT !.price[a] = IF @ = 0 THEN 0 ELSE 2]
             \/ \E D : db' = [db EXCEPT !.package = D]
             \/ \E D : db' = [db EXCEPT !.plan = D]
             \/ \E A : db' = DropActs(db, A)
      PROVE  PlanWrite(db, db') /\ SameItins(db, db')
  BY <1>4, DropActsWrite DEF PlanWrite, SameTrips, SameItins, FewerSegments, Tabled, Fields
<1> QED BY <1>1, <1>2, <1>3, <1>4

LEMMA NotTripping ==
    ASSUME Framed, NEW r \in Requests, NEW step \in {"day", "maxSeq"}, Due(r, req[r].op, step)
    PROVE  ~Tripping(req[r])
BY DEF Framed, Course, Due, Tripping, TripOps, OrderOps, FinalizeSteps, Sending, SendSteps,
       AfterPrepare

LEMMA ActivityMoves ==
    ASSUME Framed, NEW r \in Requests, ActivityStep(r)
    PROVE  PlanMove(r) /\ PlanWrite(db, db')
<1>1. Comes(r, ActivityOps) => PlanMove(r)
  BY PlanComes DEF Comes, ActivityOps, TripOps, OrderOps, SavingOps
<1>2. ~Comes(r, ActivityOps) => ~Tripping(req[r])
  BY ActivityServes, NotTripping
     DEF VerifyDayExists, CreateMaxSeq, Tripping, TripOps, OrderOps, ActivityOps, ComponentOps,
         GenerateOps
<1>3. ~Comes(r, ActivityOps) => (req[r].op \in SavingOps => SavesOnce(req'[r]))
  BY ActivityServes, SavesStill DEF Notes, ActivityOps, SavingOps
<1> QED BY <1>1, <1>2, <1>3, ActivityServes, PlanWorks, ActivityWrites DEF Framed

LEMMA ComponentRequestMoves ==
    ASSUME Framed, NEW r \in Requests, ComponentRequest(r)
    PROVE  PlanMove(r) /\ PlanWrite(db, db')
<1>1. Comes(r, ComponentOps) /\ SavesOnce(req'[r])
  BY ComponentRequestServes DEF Comes, ComponentOps, SavesOnce
<1> QED BY <1>1, PlanComes, NoWrite DEF Comes, ComponentOps, TripOps, OrderOps, Framed

\* A client gives an activity the first position.
Positions(r) ==
    /\ req[r].op \in {"updateActivity", "updateComponent"} /\ req[r].v = "position"
    /\ \E a : db' = [db EXCEPT !.act[a].seq = 0]

LEMMA ComponentWrites ==
    ASSUME Tabled(db), NEW r \in Requests, ComponentStep(r)
    PROVE  /\ \/ db' = db \/ \E D : db' = [db EXCEPT !.details = @ \cup D]
              \/ Positions(r)
              \/ \E a, n : n # 0 /\ db' = [db EXCEPT !.price[a] = n]
              \/ \E a : db' = [db EXCEPT !.price[a] = IF @ = 0 THEN 0 ELSE 2]
              \/ \E a, S : db' = [db EXCEPT !.segments[a] = S]
           /\ PlanWrite(db, db') \/ InsertSegments(r)
           /\ SameItins(db, db')
<1>1. 2 # 0 OBVIOUS
<1>2. \/ db' = db \/ \E D : db' = [db EXCEPT !.details = @ \cup D]
      \/ Positions(r)
      \/ \E a, n : n # 0 /\ db' = [db EXCEPT !.price[a] = n]
      \/ \E a : db' = [db EXCEPT !.price[a] = IF @ = 0 THEN 0 ELSE 2]
      \/ \E a, S : db' = [db EXCEPT !.segments[a] = S] /\ (S = {} \/ InsertSegments(r))
  BY <1>1, Reads, Zenon
     DEF ComponentStep, WriteBase, InsertDetails, InsertBadDetails, FindDetailsRow, WriteDetails,
         UpsertDetails, ClearSegments, InsertSegments, SetPrice, FindPriceRow, WritePrice,
         Positions
<1> QED BY <1>2 DEF PlanWrite, SameTrips, SameItins, FewerSegments, Tabled, Fields, Positions

LEMMA ComponentMoves ==
    ASSUME Framed, NEW r \in Requests, ComponentStep(r)
    PROVE  PlanMove(r) /\ (PlanWrite(db, db') \/ InsertSegments(r))
<1>1. ~Tripping(req[r]) BY ComponentServes DEF Tripping, TripOps, OrderOps, GenerateOps
<1> QED BY <1>1, ComponentServes, SavesStill, PlanWorks, ComponentWrites DEF Notes, Framed

LEMMA ScheduleWrites ==
    ASSUME Tabled(db), NEW r \in Requests, ScheduleStep(r)
    PROVE  /\ PlanWrite(db, db') /\ SameItins(db, db')
           /\ \/ SameActs(db, db')
              \/ \E D : db' = [db EXCEPT !.details = @ \cup D]
              \/ \E A : db' = DropActs(db, A)
              \/ InsertPorts(r)
<1>1. \/ db' = db
      \/ \E D : db' = [db EXCEPT !.details = @ \cup D]
      \/ \E A : db' = DropActs(db, A)
      \/ \E i, dates, n, s : db' = AddDates(db, i, dates, n, s)
      \/ InsertPorts(r) /\ \E rows : db' = AddActs(db, rows)
  BY Reads, Zenon
     DEF ScheduleStep, GeneratePorts, GenerateValidate, GenerateHasChildren, GenerateBounds,
         GenerateDelete, GenerateDates, MaxOfDays, InsertDateRange, ReadDateRange, InsertPorts,
         InsertPortDetails, GenerateTour, TourChildren, TourDeleteEach, TourMissing, TourNext
<1>2. ASSUME NEW i, NEW dates, NEW n, NEW s
      PROVE  LET u == AddDates(db, i, dates, n, s)
             IN  SameActs(db, u) /\ PlanWrite(db, u) /\ SameItins(db, u)
  BY AddsWrite DEF AddDates, AddDays, SameActs, Tabled, Fields, Counters
<1>3. CASE db' = db \/ \E D : db' = [db EXCEPT !.details = @ \cup D]
  BY <1>3 DEF SameActs, PlanWrite, SameTrips, SameItins, FewerSegments, Tabled, Fields
<1> QED BY <1>1, <1>2, <1>3, AddsWrite, DropActsWrite

LEMMA ScheduleMoves ==
    ASSUME Framed, NEW r \in Requests, ScheduleStep(r)
    PROVE  PlanMove(r) /\ PlanWrite(db, db')
<1>1. ASSUME NEW row, Arrive(r, row) \/ Go(r, row), DOMAIN row = DOMAIN Idle,
             row.op \in GenerateOps, NoSegments(row.pc)
      PROVE  SavesOnce(req'[r])
  BY <1>1 DEF Arrive, Go, Framed, Slotted, SavesOnce, GenerateOps
<1>2. /\ NoSegments(<<"validate">>) /\ NoSegments(<<"hasChildren">>) /\ NoSegments(<<>>)
      /\ NoSegments(<<"children", "deleteEach">>) /\ NoSegments(<<"readDays", "tourNext">>)
      /\ NoSegments(BaseCreate) /\ NoSegments(<<"details", "tourNext">>)
      /\ NoSegments(<<"missing", "maxDays", "insertDays", "readDays", "tourNext">>)
  BY DEF NoSegments, GeneratorSteps, BaseCreate
<1>3. NoSegments(<<"bounds", "delete", "dates", "maxDays", "insertDays", "readDays",
                   "insertPorts", "portDetails">>)
  BY DEF NoSegments, GeneratorSteps
<1>4. GeneratePorts(r) => SavesOnce(req'[r])
  <2> SUFFICES ASSUME GeneratePorts(r) PROVE SavesOnce(req'[r]) OBVIOUS
  <2>1. PICK a \in Acts, skip \in BOOLEAN, dates \in {"dates", "backwards"} :
            Arrive(r, [Idle EXCEPT !.op = "generatePorts", !.a = a, !.flag = skip, !.v = dates,
              !.pc = <<"validate">> \o (IF skip THEN <<"hasChildren">> ELSE <<>>)
                     \o <<"bounds", "delete", "dates", "maxDays", "insertDays", "readDays",
                          "insertPorts", "portDetails">>])
    BY Zenon DEF GeneratePorts
  <2> DEFINE pc == <<"validate">> \o (IF skip THEN <<"hasChildren">> ELSE <<>>)
                     \o <<"bounds", "delete", "dates", "maxDays", "insertDays", "readDays",
                          "insertPorts", "portDetails">>
             row == [Idle EXCEPT !.op = "generatePorts", !.a = a, !.flag = skip, !.v = dates,
                                 !.pc = pc]
  <2>2. Arrive(r, row) /\ NoSegments(pc) BY <2>1, <1>2, <1>3, JoinedSegments
  <2> HIDE DEF pc
  <2>3. DOMAIN row = DOMAIN Idle /\ row.op = "generatePorts" /\ row.pc = pc BY IdleFacts
  <2> HIDE DEF row
  <2> QED BY <1>1, <2>2, <2>3 DEF GenerateOps
<1>5. GenerateTour(r) => SavesOnce(req'[r])
  <2> SUFFICES ASSUME GenerateTour(r) PROVE SavesOnce(req'[r]) OBVIOUS
  <2>1. PICK a \in Acts, extend \in BOOLEAN, delete \in {<<>>, <<"children", "deleteEach">>} :
            Arrive(r, [Idle EXCEPT !.op = "generateTour", !.a = a, !.s = a, !.v = "tour_day",
              !.flag = extend,
              !.pc = <<"validate">> \o delete \o
                     <<"missing", "maxDays", "insertDays", "readDays", "tourNext">>])
    BY Zenon DEF GenerateTour
  <2> DEFINE pc == <<"validate">> \o delete \o
                     <<"missing", "maxDays", "insertDays", "readDays", "tourNext">>
             row == [Idle EXCEPT !.op = "generateTour", !.a = a, !.s = a, !.v = "tour_day",
                                 !.flag = extend, !.pc = pc]
  <2>2. Arrive(r, row) /\ NoSegments(pc)
    BY <2>1, <1>2, JoinedSegments
  <2> HIDE DEF pc
  <2>3. DOMAIN row = DOMAIN Idle /\ row.op = "generateTour" /\ row.pc = pc BY IdleFacts
  <2> HIDE DEF row
  <2> QED BY <1>1, <2>2, <2>3 DEF GenerateOps
<1>6. TourMissing(r) \/ TourNext(r) => SavesOnce(req'[r])
  <2> DEFINE pc == BaseCreate \o <<"details", "tourNext">>
             more == <<"readDays", "tourNext">>
  <2>1. NoSegments(pc) /\ NoSegments(more) BY <1>2, JoinedSegments
  <2>2. TourMissing(r) \/ TourNext(r) =>
            /\ Due(r, "generateTour", "missing") \/ Due(r, "generateTour", "tourNext")
            /\ \/ Notes(r) \/ Sees(r) \/ Go(r, [req[r] EXCEPT !.pc = more])
               \/ \E x, y : Go(r, [req[r] EXCEPT !.seen = x, !.d = y, !.pc = pc])
    BY WorksOn, Zenon DEF TourMissing, TourNext
  <2> HIDE DEF pc, more
  <2>3. Due(r, "generateTour", "missing") \/ Due(r, "generateTour", "tourNext") =>
            req[r].op = "generateTour" /\ req[r].pc # <<>>
    BY DEF Due
  <2>4. ASSUME NEW row, Go(r, row), req[r].op = "generateTour",
               \/ row = [req[r] EXCEPT !.pc = more]
               \/ \E x, y : row = [req[r] EXCEPT !.seen = x, !.d = y, !.pc = pc]
        PROVE  SavesOnce(req'[r])
    <3>1. DOMAIN row = DOMAIN Idle /\ row.op = "generateTour" /\ row.pc \in {pc, more}
      BY <2>4, IdleFacts DEF Framed, Slotted
    <3>2. NoSegments(row.pc) /\ row.op \in GenerateOps BY <2>1, <3>1 DEF GenerateOps
    <3> QED BY <1>1, <2>4, <3>1, <3>2
  <2>5. req[r].op = "generateTour" /\ req[r].pc # <<>> /\ (Notes(r) \/ Sees(r))
            => SavesOnce(req'[r])
    BY SavesStill DEF Notes
  <2> QED BY <2>2, <2>3, <2>4, <2>5, Zenon
<1>7. Serves(r, GenerateOps) /\ SavesOnce(req'[r])
  BY <1>4, <1>5, <1>6, ScheduleServes, SavesStill DEF Serves, GenerateOps
<1> QED
  BY <1>7, ScheduleWrites, PlanWorks, PlanComes
     DEF Serves, Framed, Tripping, TripOps, OrderOps, GenerateOps

\* A form sends a save.
LEMMA PlanSends ==
    ASSUME Framed, NEW r \in Requests, NEW by, Send(r, by)
    PROVE  PlanMove(r) /\ PlanWrite(db, db')
<1> DEFINE row == SaveRow(by)
<1>1. /\ DOMAIN row = DOMAIN Idle /\ row.seen = {left}
      /\ row.op \in {"createActivity", "createComponent", "updateActivity", "updateComponent"}
  BY IdleFacts DEF SaveRow
<1>2. req' = [req EXCEPT ![r] = row] /\ req[r] = Idle /\ faults' = faults /\ db' = db
  BY DEF Send
<1> HIDE DEF row
<1>3. ~Tripping(row) /\ ~Tripping(req[r]) /\ SavesOnce(row)
  BY <1>1, <1>2, IdleFacts DEF Tripping, TripOps, OrderOps, SavesOnce
<1> QED BY <1>1, <1>2, <1>3, MoveTo, NoWrite DEF Framed

LEMMA FormMoves ==
    ASSUME Framed, NEW r \in Requests, FormStep(r)
    PROVE  PlanMove(r) /\ PlanWrite(db, db')
<1>1. CASE Send(r, "auto") \/ Send(r, "manual") \/ Send(r, "generate") BY <1>1, PlanSends
<1>2. CASE SaveAnswered(r)
  <2>1. /\ req' = [req EXCEPT ![r] = Idle] /\ req[r].op \in {"ok", "failed"}
        /\ faults' = faults /\ db' = db
    BY <1>2 DEF SaveAnswered
  <2> QED BY <2>1, MoveTo, IdleFacts, NoWrite DEF Framed, Tripping, TripOps, OrderOps, SavesOnce
<1>3. CASE PortsAfterSave(r)
  <2> DEFINE pc == <<"validate", "bounds", "delete", "dates", "maxDays", "insertDays", "readDays",
                     "insertPorts", "portDetails">>
             row == [Idle EXCEPT !.op = "generatePorts", !.a = req[r].a, !.v = "dates",
                                 !.by = "ports", !.pc = pc]
  <2>1. req' = [req EXCEPT ![r] = row] /\ req[r].op = "ok" /\ faults' = faults /\ db' = db
    BY <1>3 DEF PortsAfterSave
  <2>2. NoSegments(pc) BY DEF NoSegments, GeneratorSteps
  <2> HIDE DEF pc
  <2>3. DOMAIN row = DOMAIN Idle /\ row.op = "generatePorts" /\ row.pc = pc BY IdleFacts
  <2> HIDE DEF row
  <2> QED
    BY <2>1, <2>2, <2>3, MoveTo, NoWrite DEF Framed, Tripping, TripOps, OrderOps, SavesOnce
<1> QED
  BY <1>1, <1>2, <1>3
     DEF FormStep, Autosave, Save, SaveAndGeneratePorts, FlightAutosave, DiningAutosave,
          OptionsAutosave, TourAutosave, PortInfoAutosave,
         PackageAutosave, CustomCruiseAutosave, LodgingAutosave, TransportationAutosave,
         FlightSave, DiningSave, OptionsSave, TourSave, PortInfoSave, PackageSave,
         CustomCruiseSave, LodgingSave, TransportationSave, PortsAfterSave

-----------------------------------------------------------------------------
(* The steps of the requests about trips and orders                          *)

\* A request of these operations has come, done a step, or ended.
Moved(r, ops) ==
    /\ Slotted(req') /\ \A q \in Requests \ {r} : req'[q] = req[q]
    /\ req[r].op \in ops \cup {"idle"} /\ req'[r].op \in ops \cup {"idle"}
    /\ Course(req'[r])

LEMMA ArrivesAs ==
    ASSUME Framed, NEW r \in Requests, NEW row, NEW ops, Arrive(r, row),
           DOMAIN row = DOMAIN Idle, row.op \in ops, Course(row)
    PROVE  Moved(r, ops) /\ db' = db /\ faults' = faults
BY IdleFacts DEF Moved, Arrive, Framed, Slotted

LEMMA GoesAs ==
    ASSUME Framed, NEW r \in Requests, NEW row, NEW ops, Go(r, row), req[r].op \in ops,
           DOMAIN row = DOMAIN Idle, row.op = req[r].op, Course(row)
    PROVE  Moved(r, ops) /\ faults' = faults
BY DEF Moved, Go, Framed, Slotted

\* Nobody waits for the answer of such a request.
LEMMA Ends ==
    ASSUME Framed, NEW r \in Requests, NEW answer, Tripping(req[r]), Reply(r, answer)
    PROVE  req' = [req EXCEPT ![r] = Idle] /\ faults' = faults
BY DEF Framed, Course, Reply, Go

LEMMA RepliesAs ==
    ASSUME Framed, NEW r \in Requests, NEW answer, NEW ops \in {TripOps, OrderOps},
           req[r].op \in ops, Reply(r, answer)
    PROVE  Moved(r, ops) /\ req'[r] = Idle /\ faults' = faults
<1>1. req' = [req EXCEPT ![r] = Idle] /\ faults' = faults BY Ends DEF Tripping
<1>2. Course(Idle) BY IdleFacts DEF Course, Tripping, TripOps, OrderOps
<1> QED BY <1>1, <1>2, IdleFacts DEF Moved, Framed, Slotted

LEMMA RefusesAs ==
    ASSUME Framed, NEW r \in Requests, NEW ops \in {TripOps, OrderOps}, req[r].op \in ops,
           Refuse(r)
    PROVE  Moved(r, ops) /\ req'[r] = Idle /\ faults' = faults /\ db' = db
BY RepliesAs DEF Refuse

LEMMA FinishesLast ==
    ASSUME Framed, NEW r \in Requests, NEW ops \in {TripOps, OrderOps}, req[r].op \in ops,
           Len(req[r].pc) = 1, Finish(r)
    PROVE  Moved(r, ops) /\ req'[r] = Idle /\ faults' = faults
<1>1. Reply(r, "ok") BY DEF Finish
<1> QED BY <1>1, RepliesAs

\* A statement about the orders and their mails.
OrderWrite(t, u) ==
    /\ Tabled(u) /\ u.segments = t.segments /\ u.trip = t.trip /\ u.first = t.first
    /\ u.log = t.log /\ u.made.trip = t.made.trip /\ u.made.token = t.made.token
    /\ u.itin = t.itin /\ u.made.itin = t.made.itin

LEMMA NoOrderWrite == ASSUME NEW t, Tabled(t) PROVE OrderWrite(t, t)
BY DEF OrderWrite

LEMMA Concatenated ==
    ASSUME NEW S, NEW s \in Seq(S), NEW t \in Seq(S)
    PROVE  /\ s \o t \in Seq(S) /\ Len(s \o t) = Len(s) + Len(t)
           /\ \A k \in 1 .. Len(s) + Len(t) :
                (s \o t)[k] = IF k <= Len(s) THEN s[k] ELSE t[k - Len(s)]
OBVIOUS

Joins(s, t, u) ==
    /\ Len(u) = Len(s) + Len(t) /\ \A k \in 1 .. Len(s) : u[k] = s[k]
    /\ \A k \in 1 .. Len(t) : u[Len(s) + k] = t[k]
LEMMA Joined ==
    ASSUME NEW S, NEW s \in Seq(S), NEW t \in Seq(S), NEW u \in Seq(S), Joins(s, t, u)
    PROVE  s \o t = u
<1> DEFINE c == s \o t
<1>1. /\ c \in Seq(S) /\ Len(c) = Len(s) + Len(t) /\ Len(s) \in Nat /\ Len(t) \in Nat
      /\ \A k \in 1 .. Len(s) + Len(t) : c[k] = IF k <= Len(s) THEN s[k] ELSE t[k - Len(s)]
  BY Concatenated
<1> HIDE DEF c
<1>2. ASSUME NEW k \in 1 .. Len(c) PROVE c[k] = u[k]
  <2>1. CASE k <= Len(s) BY <1>1, <2>1 DEF Joins
  <2>2. CASE k > Len(s)
    BY <1>1, <2>2 DEF Joins
  <2> QED BY <1>1, <2>1, <2>2
<1> QED BY <1>1, <1>2, SeqEqual DEF Joins, c

\* The steps of a mail once its order is known, with and without those that finalize it.
LEMMA SendingSteps ==
    /\ FinalizeSteps \o SendSteps =
         <<"finalizeFind", "finalizeWrite", "prepare", "log", "provider", "markLog", "markFind",
           "markWrite">>
    /\ <<>> \o SendSteps = SendSteps
    /\ {SendSteps, FinalizeSteps \o SendSteps} \subseteq Sending
<1> DEFINE S == {"finalizeFind", "finalizeWrite", "prepare", "log", "provider", "markLog",
                 "markFind", "markWrite"}
           u == <<"finalizeFind", "finalizeWrite", "prepare", "log", "provider", "markLog",
                  "markFind", "markWrite">>
<1>1. FinalizeSteps \in Seq(S) /\ SendSteps \in Seq(S) /\ u \in Seq(S)
  BY DEF FinalizeSteps, SendSteps
<1>2. Joins(FinalizeSteps, SendSteps, u) BY DEF Joins, FinalizeSteps, SendSteps
<1>3. FinalizeSteps \o SendSteps = u BY <1>1, <1>2, Joined, Zenon
<1>4. <<>> \o SendSteps = SendSteps BY <1>1, ConcatEmptySeq
<1>5. SendSteps \in Sending /\ u \in Sending BY DEF Sending
<1> QED BY <1>3, <1>4, <1>5

\* The last step but one leads to the last one.
\* The heads and the tails of the lists of steps of an order's e-mail.
HeadTail(s, step, rest) == Head(s) = step /\ Tail(s) = rest /\ s # <<>> /\ (Len(s) = 1 <=> rest = <<>>)
LEMMA SendPcs ==
    /\ HeadTail(<<"get", "prepare", "log", "provider", "markLog", "markFind", "markWrite">>, "get",
                SendSteps)
    /\ HeadTail(<<"finalizeFind", "finalizeWrite", "prepare", "log", "provider", "markLog", "markFind",
                  "markWrite">>, "finalizeFind",
                <<"finalizeWrite", "prepare", "log", "provider", "markLog", "markFind", "markWrite">>)
    /\ HeadTail(<<"finalizeWrite", "prepare", "log", "provider", "markLog", "markFind", "markWrite">>,
                "finalizeWrite", SendSteps)
    /\ HeadTail(SendSteps, "prepare", AfterPrepare)
    /\ HeadTail(AfterPrepare, "log", <<"provider", "markLog", "markFind", "markWrite">>)
    /\ HeadTail(<<"filtered">>, "filtered", <<>>)
    /\ HeadTail(<<"provider", "markLog", "markFind", "markWrite">>, "provider",
                <<"markLog", "markFind", "markWrite">>)
    /\ HeadTail(<<"markLog", "markFind", "markWrite">>, "markLog", <<"markFind", "markWrite">>)
    /\ HeadTail(<<"markFind", "markWrite">>, "markFind", <<"markWrite">>)
    /\ HeadTail(<<"markWrite">>, "markWrite", <<>>)
BY DEF HeadTail, SendSteps, AfterPrepare

LEMMA SendTail ==
    ASSUME NEW s \in Sending PROVE s # <<>> /\ (Len(s) # 1 => Tail(s) \in Sending)
BY SendPcs, Zenon DEF HeadTail, Sending

LEMMA GenerateTail ==
    ASSUME NEW s \in {<<"trip", "version", "insert">>, <<"version", "insert">>, <<"insert">>}
    PROVE  /\ s # <<>>
           /\ Len(s) # 1 => Tail(s) \in {<<"trip", "version", "insert">>, <<"version", "insert">>,
                                        <<"insert">>}
<1>1. CASE s = <<"trip", "version", "insert">>
  BY <1>1
<1>2. CASE s = <<"version", "insert">>
  BY <1>2
<1>3. CASE s = <<"insert">> BY <1>3
<1> QED BY <1>1, <1>2, <1>3

LEMMA FinalizeTail ==
    ASSUME NEW s \in {FinalizeSteps, <<"finalizeWrite">>}
    PROVE  s # <<>> /\ (Len(s) # 1 => Tail(s) = <<"finalizeWrite">>)
<1>1. CASE s = FinalizeSteps BY <1>1 DEF FinalizeSteps
<1>2. CASE s = <<"finalizeWrite">> BY <1>2
<1> QED BY <1>1, <1>2

LEMMA OrderTail ==
    ASSUME Framed, NEW r \in Requests, req[r].op \in OrderOps
    PROVE  /\ req[r].pc # <<>>
           /\ \A row : /\ row.op = req[r].op /\ row.by = req[r].by
                        /\ row.pc = Tail(req[r].pc) /\ Len(req[r].pc) # 1
                       => Course(row)
<1>0. Course(req[r]) /\ req[r].by = "none" BY DEF Framed, Course, Tripping
<1>1. CASE req[r].op = "generateOrder"
  BY <1>0, <1>1, GenerateTail DEF Course
<1>2. CASE req[r].op = "finalizeOrder"
  BY <1>0, <1>2, FinalizeTail DEF Course
<1>3. CASE req[r].op = "sendOrder"
  BY <1>0, <1>3, SendTail DEF Course
<1> QED BY <1>1, <1>2, <1>3 DEF OrderOps

LEMMA OrderGoes ==
    ASSUME Framed, NEW r \in Requests, NEW row, req[r].op \in OrderOps, Len(req[r].pc) # 1,
           Go(r, row), DOMAIN row = DOMAIN Idle, row.op = req[r].op, row.by = req[r].by,
           row.pc = Tail(req[r].pc)
    PROVE  Moved(r, OrderOps) /\ faults' = faults
BY OrderTail, GoesAs

LEMMA OrderFinishes ==
    ASSUME Framed, NEW r \in Requests, req[r].op \in OrderOps, Finish(r)
    PROVE  Moved(r, OrderOps) /\ faults' = faults
<1>1. CASE Len(req[r].pc) = 1 BY <1>1, OrderTail, FinishesLast
<1>2. CASE Len(req[r].pc) # 1 BY <1>2, OrderGoes, NextSlot DEF Finish
<1> QED BY <1>1, <1>2

\* The step after a step.
SendNext == [get |-> "prepare", finalizeFind |-> "finalizeWrite", finalizeWrite |-> "prepare",
             prepare |-> "log", log |-> "provider", provider |-> "markLog",
             markLog |-> "markFind", markFind |-> "markWrite"]

LEMMA SendNexts ==
    /\ DOMAIN SendNext = {"get", "finalizeFind", "finalizeWrite", "prepare", "log", "provider", "markLog",
                          "markFind"}
    /\ SendNext["get"] = "prepare" /\ SendNext["finalizeFind"] = "finalizeWrite"
    /\ SendNext["finalizeWrite"] = "prepare" /\ SendNext["prepare"] = "log"
    /\ SendNext["log"] = "provider" /\ SendNext["provider"] = "markLog"
    /\ SendNext["markLog"] = "markFind" /\ SendNext["markFind"] = "markWrite"
BY DEF SendNext

LEMMA SendHeads ==
    ASSUME NEW s \in Sending
    PROVE  \/ Head(s) \in {"filtered", "markWrite"} /\ Len(s) = 1
           \/ /\ Head(s) \in DOMAIN SendNext /\ Len(s) # 1
              /\ Head(Tail(s)) = SendNext[Head(s)] /\ Tail(s) # <<>>
              /\ Head(s) = "get" => Tail(s) = SendSteps
BY SendPcs, SendNexts, Zenon DEF HeadTail, Sending
\* The steps of orders that are not the last.
LEMMA OrderDue ==
    ASSUME Framed, NEW r \in Requests, NEW op \in OrderOps, NEW step, Due(r, op, step),
           step \in {"trip", "version", "finalizeFind"} \cup DOMAIN SendNext,
           op = "finalizeOrder" => step # "finalizeWrite"
    PROVE  Len(req[r].pc) # 1
<1>0. Course(req[r]) /\ req[r].op = op /\ Head(req[r].pc) = step BY DEF Framed, Due
<1>1. CASE op = "sendOrder"
  BY <1>0, <1>1, SendHeads DEF Course, SendNext
<1>2. CASE op = "generateOrder"
  BY <1>0, <1>2 DEF Course, SendNext
<1>3. CASE op = "finalizeOrder"
  BY <1>0, <1>3 DEF Course, FinalizeSteps, SendNext
<1> QED BY <1>1, <1>2, <1>3 DEF OrderOps

LEMMA OrderStepMoves ==
    ASSUME Framed, NEW r \in Requests, OrderStep(r)
    PROVE  Moved(r, OrderOps) /\ OrderWrite(db, db')
<1> USE DEF OrderOps
<1>0. OrderWrite(db, db) /\ DOMAIN req[r] = DOMAIN Idle BY NoOrderWrite DEF Framed, Slotted
<1>1. CASE GenerateTripOrderSnapshot(r)
  BY <1>1, <1>0, ArrivesAs, IdleFacts DEF GenerateTripOrderSnapshot, Course, Tripping, TripOps
<1>2. CASE GenerateReadTrip(r)
  BY <1>2, <1>0, OrderDue, OrderGoes, RefusesAs, NextSlot DEF GenerateReadTrip, Due
<1>3. CASE GenerateNextVersion(r)
  <2>1. Due(r, "generateOrder", "version") /\ UNCHANGED db BY <1>3 DEF GenerateNextVersion
  <2>2. PICK n : Go(r, [Next1(r) EXCEPT !.n = n]) BY <1>3 DEF GenerateNextVersion
  <2> DEFINE row == [Next1(r) EXCEPT !.n = n]
  <2>3. /\ DOMAIN row = DOMAIN Idle /\ row.op = req[r].op /\ row.by = req[r].by
        /\ row.pc = Tail(req[r].pc)
    BY NextSlot, IdleFacts
  <2>4. Go(r, row) BY <2>2
  <2> HIDE DEF row
  <2> QED BY <2>1, <2>3, <2>4, <1>0, OrderDue, OrderGoes DEF Due
<1>4. CASE GenerateInsert(r)
  <2>1. req[r].op \in OrderOps BY <1>4 DEF GenerateInsert, Due
  <2>2. CASE Refuse(r) BY <2>1, <2>2, <1>0, RefusesAs
  <2>3. CASE ~Refuse(r)
    <3>1. Finish(r) BY <1>4, <2>3 DEF GenerateInsert
    <3>2. \E row : db' = [db EXCEPT !.made.order = db.made.order + 1,
                                    !.order[db.made.order + 1] = row]
      BY <1>4, <2>3, Zenon DEF GenerateInsert
    <3>3. OrderWrite(db, db') BY <3>2 DEF Framed, OrderWrite, Tabled, Fields, Counters
    <3> QED BY <2>1, <3>1, <3>3, OrderFinishes
  <2> QED BY <2>2, <2>3
<1>5. CASE FinalizeTripOrder(r)
  BY <1>5, <1>0, ArrivesAs, IdleFacts DEF FinalizeTripOrder, Course, Tripping, TripOps
<1>6. CASE FinalizeFind(r)
  BY <1>6, <1>0, OrderDue, OrderGoes, RefusesAs, NextSlot DEF FinalizeFind, OfOrder, Due
<1>7. CASE FinalizeWrite(r)
  <2>1. req[r].op \in OrderOps BY <1>7 DEF FinalizeWrite, OfOrder
  <2>2. CASE Refuse(r) BY <2>1, <2>2, <1>0, RefusesAs
  <2>3. CASE ~Refuse(r)
    <3>1. Finish(r) /\ db' = [db EXCEPT !.order[req[r].o].status = "finalized"]
      BY <1>7, <2>3 DEF FinalizeWrite
    <3>2. OrderWrite(db, db') BY <3>1 DEF Framed, OrderWrite, Tabled, Fields, Counters
    <3> QED BY <2>1, <3>1, <3>2, OrderFinishes
  <2> QED BY <2>2, <2>3
<1>8. CASE SendTripOrder(r)
  BY <1>8, <1>0, ArrivesAs, IdleFacts DEF SendTripOrder, Course, Tripping, TripOps, Sending
<1>9. CASE SendGet(r)
  <2>1. Due(r, "sendOrder", "get") BY <1>9 DEF SendGet
  <2>2. CASE Refuse(r) BY <2>1, <2>2, <1>0, RefusesAs DEF Due
  <2>3. CASE ~Refuse(r)
    <3>1. req[r].pc \in Sending /\ req[r].by = "none" BY <2>1 DEF Due, Framed, Course, Tripping
    <3>2. Tail(req[r].pc) = SendSteps BY <2>1, <3>1, SendHeads DEF Due
    <3>3. PICK t, pc :
              /\ pc \in {SendSteps, FinalizeSteps \o SendSteps}
              /\ Go(r, [req[r] EXCEPT !.t = t, !.pc = pc]) /\ db' = db
      BY <1>9, <2>3, <3>2, SendingSteps, Zenon DEF SendGet
    <3> DEFINE row == [req[r] EXCEPT !.t = t, !.pc = pc]
    <3>4. DOMAIN row = DOMAIN Idle /\ row.op = req[r].op /\ row.by = req[r].by /\ row.pc = pc
      BY <1>0, IdleFacts
    <3>5. Go(r, row) BY <3>3
    <3> HIDE DEF row
    <3>6. row.pc \in Sending BY <3>3, <3>4, SendingSteps
    <3>7. Course(row) BY <2>1, <3>1, <3>4, <3>6 DEF Course, Due
    <3> QED BY <2>1, <3>3, <3>4, <3>5, <3>7, <1>0, GoesAs DEF Due
  <2> QED BY <2>2, <2>3
<1>10. CASE SendPrepare(r)
  BY <1>10, <1>0, OrderDue, OrderGoes, RepliesAs, RefusesAs, NextSlot DEF SendPrepare, Due, SendNext
<1>11. CASE SendEmailLog(r)
  <2>1. Due(r, "sendOrder", "log") BY <1>11, Zenon DEF SendEmailLog
  <2>2. CASE Refuse(r) BY <2>1, <2>2, <1>0, RefusesAs DEF Due
  <2>3. CASE ~Refuse(r)
    <3>1. PICK mail, s, pc :
              /\ pc \in {<<"filtered">>, Tail(req[r].pc)}
              /\ db' = [db EXCEPT !.mail = mail] /\ Go(r, [req[r] EXCEPT !.s = s, !.pc = pc])
      BY <1>11, <2>3, Zenon DEF SendEmailLog
    <3>2. OrderWrite(db, db') BY <3>1 DEF Framed, OrderWrite, Tabled, Fields
    <3> DEFINE row == [req[r] EXCEPT !.s = s, !.pc = pc]
    <3>3. DOMAIN row = DOMAIN Idle /\ row.op = req[r].op /\ row.by = req[r].by /\ row.pc = pc
      BY <1>0, IdleFacts
    <3>4. Go(r, row) BY <3>1
    <3> HIDE DEF row
    <3>5. req[r].pc \in Sending /\ Len(req[r].pc) # 1 /\ req[r].by = "none"
      BY <2>1, OrderDue DEF Due, Framed, Course, SendNext, Tripping
    <3>6. row.pc \in Sending BY <3>1, <3>3, <3>5, SendTail DEF Sending
    <3>7. Course(row) BY <2>1, <3>3, <3>5, <3>6 DEF Course, Due
    <3> QED BY <2>1, <3>2, <3>3, <3>4, <3>7, GoesAs DEF Due
  <2> QED BY <2>2, <2>3
<1>12. CASE SendEmailFiltered(r)
  BY <1>12, RepliesAs DEF SendEmailFiltered, Due, Framed, OrderWrite, Tabled, Fields
<1>13. CASE ProviderSend(r)
  <2>1. Due(r, "sendOrder", "provider") BY <1>13 DEF ProviderSend
  <2>2. PICK accepted, told : /\ db' = [db EXCEPT !.mail[req[r].s].accepted = accepted]
                              /\ req' = [req EXCEPT ![r] = [Next1(r) EXCEPT !.flag = told]]
    BY <1>13 DEF ProviderSend
  <2>3. OrderWrite(db, db') BY <2>2 DEF Framed, OrderWrite, Tabled, Fields
  <2> DEFINE row == [Next1(r) EXCEPT !.flag = told]
  <2>4. /\ DOMAIN row = DOMAIN Idle /\ row.op = req[r].op /\ row.by = req[r].by
        /\ row.pc = Tail(req[r].pc)
    BY NextSlot, IdleFacts
  <2>5. req' = [req EXCEPT ![r] = row] BY <2>2
  <2> HIDE DEF row
  <2>6. Course(row) BY <2>1, <2>4, OrderDue, OrderTail DEF Due, SendNext
  <2> QED BY <2>1, <2>3, <2>4, <2>5, <2>6 DEF Moved, Framed, Slotted, Due
<1>14. CASE SendEmailMark(r)
  <2>1. Due(r, "sendOrder", "markLog") BY <1>14 DEF SendEmailMark
  <2>2. PICK log \in {"sent", "failed"} :
            \/ /\ db' = [db EXCEPT !.mail[req[r].s].log = log]
               /\ Go(r, Next1(r)) \/ Reply(r, "ok")
            \/ db' = db /\ req' = [req EXCEPT ![r].flag = FALSE]
    BY <1>14 DEF SendEmailMark
  <2>3. OrderWrite(db, db') BY <2>2, <1>0 DEF Framed, OrderWrite, Tabled, Fields
  <2>4. CASE Go(r, Next1(r)) \/ Reply(r, "ok")
    BY <2>1, <2>3, <2>4, OrderDue, OrderGoes, RepliesAs, NextSlot DEF Due, SendNext
  <2>5. CASE req' = [req EXCEPT ![r].flag = FALSE]
    <3> DEFINE row == [req[r] EXCEPT !.flag = FALSE]
    <3>1. req' = [req EXCEPT ![r] = row] BY <2>5 DEF Framed, Slotted
    <3>2. DOMAIN row = DOMAIN Idle /\ row.op = req[r].op /\ row.by = req[r].by /\ row.pc = req[r].pc
      BY <1>0, IdleFacts
    <3> HIDE DEF row
    <3>3. Course(row) BY <2>1, <3>2 DEF Course, Due, Framed, Tripping
    <3> QED BY <2>1, <2>3, <3>1, <3>2, <3>3 DEF Moved, Framed, Slotted, Due
  <2> QED BY <2>2, <2>4, <2>5
<1>15. CASE MarkSentFind(r)
  BY <1>15, <1>0, OrderDue, OrderGoes, RefusesAs, NextSlot DEF MarkSentFind, Due, SendNext
<1>16. CASE MarkSentWrite(r)
  <2>1. req[r].op \in OrderOps BY <1>16 DEF MarkSentWrite, Due
  <2>2. CASE Refuse(r) BY <2>1, <2>2, <1>0, RefusesAs
  <2>3. CASE ~Refuse(r)
    <3>1. Finish(r) /\ db' = [db EXCEPT !.order[req[r].o].status = "sent"]
      BY <1>16, <2>3 DEF MarkSentWrite
    <3>2. OrderWrite(db, db') BY <3>1 DEF Framed, OrderWrite, Tabled, Fields, Counters
    <3> QED BY <2>1, <3>1, <3>2, OrderFinishes
  <2> QED BY <2>2, <2>3
<1> QED
  BY <1>1, <1>2, <1>3, <1>4, <1>5, <1>6, <1>7, <1>8, <1>9, <1>10, <1>11, <1>12, <1>13, <1>14,
     <1>15, <1>16 DEF OrderStep

\* A statement about trips: it may take orders with it, and the itineraries.
PlanGoes(t, u) ==
    \E x, I : ItinsGo(t, u, I) /\ u.trip = [t.trip EXCEPT ![x] = NoTrip] /\ (I = {} \/ x = TheTrip)
TripWrite(t, u) ==
    /\ Tabled(u) /\ FewerSegments(t, u) /\ u.mail = t.mail /\ u.made.order = t.made.order
    /\ u.itin = t.itin \/ PlanGoes(t, u)
    /\ u.made.itin = t.made.itin
    /\ \/ u.order = t.order
       \/ \E x : u.order = [o \in Orders |-> IF t.order[o].trip = x THEN NoOrder
                                                       ELSE t.order[o]]

LEMMA NoTripWrite == ASSUME NEW t, Tabled(t) PROVE TripWrite(t, t)
BY DEF TripWrite, Tabled, FewerSegments

\* The log without the entries of a trip.
Unlogged(log, x) == {entry \in log : entry[2] # x}

LEMMA DropTripWrite ==
    ASSUME NEW t, Tabled(t), NEW x
    PROVE  /\ TripWrite(t, DropTrip(t, x))
           /\ DropTrip(t, x).trip = [t.trip EXCEPT ![x] = NoTrip]
           /\ DropTrip(t, x).log = Unlogged(t.log, x)
           /\ DropTrip(t, x).first = t.first
           /\ DropTrip(t, x).made.trip = t.made.trip /\ DropTrip(t, x).made.token = t.made.token
<1> DEFINE I == IF x = TheTrip THEN ItinsOf(t) ELSE {}
           u == DropItins(t, I)
<1>1. PlanWrite(t, u) /\ ItinsGo(t, u, I) /\ (I = {} \/ x = TheTrip) BY DropItinsWrite
<1>2. DropTrip(t, x) = [u EXCEPT
        !.trip[x] = NoTrip,
        !.order = [o \in Orders |-> IF @[o].trip = x THEN NoOrder ELSE @[o]],
        !.log = {entry \in @ : entry[2] # x}]
  BY DEF DropTrip
<1> HIDE DEF u, I
<1> DEFINE order == [o \in Orders |-> IF t.order[o].trip = x THEN NoOrder ELSE t.order[o]]
           log == {entry \in t.log : entry[2] # x}
<1>3. DropTrip(t, x) = [u EXCEPT !.trip[x] = NoTrip, !.order = order, !.log = log]
  BY <1>1, <1>2 DEF PlanWrite, SameTrips
<1>4. \E y : order = [o \in Orders |-> IF t.order[o].trip = y THEN NoOrder ELSE t.order[o]]
  OBVIOUS
<1> HIDE DEF order, log
<1>5. /\ Tabled(u) /\ FewerSegments(t, u) /\ u.trip = t.trip /\ u.first = t.first
      /\ u.mail = t.mail /\ u.made.trip = t.made.trip /\ u.made.order = t.made.order
      /\ u.made.token = t.made.token /\ ItinsGo(t, u, I)
  BY <1>1 DEF PlanWrite, SameTrips
<1> DEFINE w == [u EXCEPT !.trip[x] = NoTrip, !.order = order, !.log = log]
<1>6. /\ Tabled(w) /\ w.segments = u.segments /\ w.trip = [u.trip EXCEPT ![x] = NoTrip]
      /\ w.order = order /\ w.log = log /\ w.first = u.first /\ w.mail = u.mail
      /\ w.made = u.made /\ w.itin = u.itin
  BY <1>5 DEF Tabled, Fields
<1> HIDE DEF w
<1>7. FewerSegments(t, w) BY <1>5, <1>6 DEF FewerSegments
<1>8. DropTrip(t, x) = w BY <1>3 DEF w
<1>9. PlanGoes(t, w)
  <2>1. ItinsGo(t, w, I) /\ w.trip = [t.trip EXCEPT ![x] = NoTrip] BY <1>5, <1>6 DEF ItinsGo
  <2> QED BY <1>1, <2>1, Zenon DEF PlanGoes
<1>10. w.made.itin = t.made.itin BY <1>5, <1>6 DEF ItinsGo
<1> QED BY <1>4, <1>5, <1>6, <1>7, <1>8, <1>9, <1>10 DEF TripWrite, log, Unlogged

TripPcs == {<<"insert">>, <<"find", "write">>, <<"write">>, <<"group">>, <<"find", "delete">>,
            <<"delete">>, <<"read", "each">>, <<"each">>}

LEMMA TripDue ==
    ASSUME Framed, NEW r \in Requests, NEW op \in TripOps, NEW step, Due(r, op, step)
    PROVE  /\ req[r].by = "none" /\ req[r].op = op
           /\ step = "find" /\ op # "removeTrip" => req[r].pc = <<"find", "write">>
           /\ step = "find" /\ op = "removeTrip" => req[r].pc = <<"find", "delete">>
           /\ step = "read" => req[r].pc = <<"read", "each">>
           /\ step \notin {"find", "read"} => req[r].pc = <<step>>
<1>0. Course(req[r]) /\ req[r].op = op /\ Head(req[r].pc) = step /\ req[r].by = "none"
  BY DEF Framed, Due, Course, Tripping
<1> DEFINE s == req[r].pc
<1>a. /\ s \in TripPcs
      /\ s = <<"find", "write">> => op # "removeTrip"
      /\ s = <<"find", "delete">> => op = "removeTrip"
  BY <1>0 DEF Course, TripPcs, TripOps
<1>1. CASE s = <<"insert">>
  BY <1>0, <1>1, <1>a
<1>2. CASE s = <<"find", "write">>
  BY <1>0, <1>2, <1>a
<1>3. CASE s = <<"write">>
  BY <1>0, <1>3, <1>a
<1>4. CASE s = <<"group">>
  BY <1>0, <1>4, <1>a
<1>5. CASE s = <<"find", "delete">>
  BY <1>0, <1>5, <1>a
<1>6. CASE s = <<"delete">>
  BY <1>0, <1>6, <1>a
<1>7. CASE s = <<"read", "each">>
  BY <1>0, <1>7, <1>a
<1>8. CASE s = <<"each">>
  BY <1>0, <1>8, <1>a
<1> QED BY <1>a, <1>1, <1>2, <1>3, <1>4, <1>5, <1>6, <1>7, <1>8 DEF TripPcs

LEMMA TripFinishes ==
    ASSUME Framed, NEW r \in Requests, req[r].op \in TripOps, Len(req[r].pc) = 1, Finish(r)
    PROVE  Moved(r, TripOps) /\ req'[r] = Idle /\ faults' = faults
BY FinishesLast

LEMMA TripTail ==
    /\ Tail(<<"find", "write">>) = <<"write">> /\ Tail(<<"find", "delete">>) = <<"delete">>
    /\ Tail(<<"read", "each">>) = <<"each">> /\ Len(<<"find", "write">>) # 1
    /\ Len(<<"insert">>) = 1 /\ Len(<<"write">>) = 1 /\ Len(<<"group">>) = 1
    /\ Len(<<"delete">>) = 1 /\ Len(<<"each">>) = 1
OBVIOUS

\* A trip has been read, and the request goes on with what it found.
LEMMA TripGoes ==
    ASSUME Framed, NEW r \in Requests, NEW op \in TripOps, NEW step \in {"find", "read"},
           Due(r, op, step), NEW row, Go(r, row),
           DOMAIN row = DOMAIN Idle, row.op = op, row.by = req[r].by, row.pc = Tail(req[r].pc)
    PROVE  Moved(r, TripOps) /\ faults' = faults
<1>1. /\ req[r].by = "none" /\ req[r].op = op /\ Course(req[r])
      /\ row.pc \in {<<"write">>, <<"delete">>, <<"each">>}
      /\ step = "find" /\ op # "removeTrip" => row.pc = <<"write">>
      /\ step = "find" /\ op = "removeTrip" => row.pc = <<"delete">>
      /\ step = "read" => row.pc = <<"each">>
  BY TripDue, TripTail DEF Framed
<1>2. step = "read" => op \in {"bulkDelete", "bulkArchive", "bulkStatus"}
  BY <1>1, TripDue DEF Course, TripOps
<1>3. step = "find" => op \in {"updateTrip", "publishTrip", "removeTrip"}
  BY <1>1, TripDue DEF Course, TripOps
<1>4. Course(row)
  BY <1>1, <1>2, <1>3 DEF Course, TripOps
<1> QED BY <1>1, <1>4, GoesAs

LEMMA BulkArrives ==
    ASSUME Framed, NEW r \in Requests, NEW op \in {"bulkDelete", "bulkArchive", "bulkStatus"},
           BulkRequest(r, op)
    PROVE  Moved(r, TripOps) /\ db' = db /\ faults' = faults
<1>1. PICK T, status, archive :
          Arrive(r, [Idle EXCEPT !.op = op, !.pc = <<"read", "each">>, !.seen = T,
                                 !.v = status, !.flag = archive])
  BY Zenon DEF BulkRequest
<1> DEFINE row == [Idle EXCEPT !.op = op, !.pc = <<"read", "each">>, !.seen = T,
                               !.v = status, !.flag = archive]
<1>2. DOMAIN row = DOMAIN Idle /\ row.op = op /\ row.by = "none" /\ row.pc = <<"read", "each">>
  BY IdleFacts
<1>3. Arrive(r, row) BY <1>1
<1> HIDE DEF row
<1>4. Course(row) /\ op \in TripOps BY <1>2 DEF Course, TripOps
<1> QED BY <1>2, <1>3, <1>4, ArrivesAs

LEMMA BulkGoes ==
    ASSUME Framed, NEW r \in Requests, NEW w,
           req[r].op \in {"bulkDelete", "bulkArchive", "bulkStatus"}, BulkEach(r, w)
    PROVE  Moved(r, TripOps) /\ faults' = faults
<1> DEFINE row == [req[r] EXCEPT !.seen = @ \ {w}]
<1>1. Go(r, row) /\ req[r].pc = <<"each">> BY DEF BulkEach
<1>2. /\ DOMAIN row = DOMAIN Idle /\ row.op = req[r].op /\ row.by = req[r].by
      /\ row.pc = req[r].pc
  BY IdleFacts DEF Framed, Slotted
<1> HIDE DEF row
<1>3. Course(row) BY <1>2 DEF Framed, Course, Tripping
<1> QED BY <1>1, <1>2, <1>3, GoesAs DEF TripOps

\* The row of a trip that is published, or no more.
LEMMA Published ==
    ASSUME NEW t
    PROVE  \E row : [db EXCEPT !.made.token = @ + 1,
                        !.trip[t] = [@ EXCEPT !.published = TRUE, !.token = db.made.token + 1]]
                    = [db EXCEPT !.made.token = @ + 1, !.trip[t] = row]
OBVIOUS
LEMMA Unpublished ==
    ASSUME NEW t
    PROVE  \E row : [db EXCEPT !.trip[t] = [@ EXCEPT !.published = FALSE, !.token = 0]]
                    = [db EXCEPT !.trip[t] = row]
OBVIOUS

LEMMA TripStepMoves ==
    ASSUME Framed, NEW r \in Requests, TripStep(r)
    PROVE  Moved(r, TripOps) /\ TripWrite(db, db') /\ faults' = faults
<1> USE DEF TripOps
<1>0. TripWrite(db, db) /\ DOMAIN req[r] = DOMAIN Idle BY NoTripWrite DEF Framed, Slotted
<1>1. CASE CreateTrip(r)
  BY <1>1, <1>0, ArrivesAs, IdleFacts DEF CreateTrip, Course, Tripping, OrderOps
<1>2. CASE CreateTripInsert(r)
  <2>1. Due(r, "createTrip", "insert") /\ Finish(r) BY <1>2 DEF CreateTripInsert
  <2>2. PICK t, row : db' = [db EXCEPT !.made.trip = t, !.trip[t] = row]
    BY <1>2, Zenon DEF CreateTripInsert
  <2>3. TripWrite(db, db')
    BY <2>2 DEF Framed, TripWrite, Tabled, FewerSegments, Fields, Counters
  <2> QED BY <2>1, <2>3, TripDue, TripTail, TripFinishes DEF Due
<1>3. CASE UpdateTrip(r)
  <2>1. PICK t, status, date, seen :
            Arrive(r, [Idle EXCEPT !.op = "updateTrip", !.pc = <<"find", "write">>, !.t = t,
                                   !.v = status, !.d = date, !.seen = seen])
    BY <1>3, Zenon DEF UpdateTrip
  <2> DEFINE row == [Idle EXCEPT !.op = "updateTrip", !.pc = <<"find", "write">>, !.t = t,
                                 !.v = status, !.d = date, !.seen = seen]
  <2>2. /\ row.op = "updateTrip" /\ row.by = "none" /\ row.pc = <<"find", "write">>
        /\ DOMAIN row = DOMAIN Idle
    BY IdleFacts
  <2>3. Arrive(r, row) BY <2>1
  <2> HIDE DEF row
  <2>4. row.op \in TripOps /\ Course(row) BY <2>2 DEF Course, Tripping, TripOps, OrderOps
  <2> QED BY <2>2, <2>3, <2>4, <1>0, ArrivesAs
<1>4. CASE UpdateTripFind(r)
  <2>1. Due(r, "updateTrip", "find") BY <1>4 DEF UpdateTripFind
  <2>2. CASE Refuse(r) BY <2>1, <2>2, <1>0, RefusesAs DEF Due
  <2>3. CASE ~Refuse(r)
    <3>1. PICK n, a, flag : Go(r, [Next1(r) EXCEPT !.n = n, !.a = a, !.flag = flag]) /\ db' = db
      BY <1>4, <2>3, Zenon DEF UpdateTripFind
    <3> DEFINE row == [Next1(r) EXCEPT !.n = n, !.a = a, !.flag = flag]
    <3>2. /\ DOMAIN row = DOMAIN Idle /\ row.op = req[r].op /\ row.by = req[r].by
          /\ row.pc = Tail(req[r].pc)
      BY NextSlot, IdleFacts
    <3>3. Go(r, row) BY <3>1
    <3> HIDE DEF row
    <3> QED BY <2>1, <3>1, <3>2, <3>3, <1>0, TripGoes DEF Due
  <2> QED BY <2>2, <2>3
<1>5. CASE UpdateTripWrite(r)
  <2>1. Due(r, "updateTrip", "write") BY <1>5 DEF UpdateTripWrite
  <2>2. CASE Refuse(r) BY <2>1, <2>2, <1>0, RefusesAs DEF Due
  <2>3. CASE ~Refuse(r)
    <3>1. PICK new : db' = [db EXCEPT !.trip[req[r].t] = new]
      BY <1>5, <2>3, Zenon DEF UpdateTripWrite
    <3>2. TripWrite(db, db') BY <3>1 DEF Framed, TripWrite, Tabled, FewerSegments, Fields
    <3>3. Finish(r) \/ \E d, a : Go(r, [req[r] EXCEPT !.pc = <<"group">>, !.d = d, !.a = a])
      BY <1>5, <2>3, Zenon DEF UpdateTripWrite
    <3>4. CASE Finish(r) BY <2>1, <3>2, <3>4, TripDue, TripTail, TripFinishes DEF Due
    <3>5. CASE \E d, a : Go(r, [req[r] EXCEPT !.pc = <<"group">>, !.d = d, !.a = a])
      <4>1. PICK d, a : Go(r, [req[r] EXCEPT !.pc = <<"group">>, !.d = d, !.a = a])
        BY <3>5, Zenon
      <4> DEFINE row == [req[r] EXCEPT !.pc = <<"group">>, !.d = d, !.a = a]
      <4>2. /\ DOMAIN row = DOMAIN Idle /\ row.op = "updateTrip" /\ row.by = req[r].by
            /\ row.pc = <<"group">>
        BY <1>0, <2>1, IdleFacts DEF Due
      <4>3. Go(r, row) BY <4>1
      <4> HIDE DEF row
      <4>4. Course(row) BY <4>2, <2>1, TripDue DEF Course
      <4> QED BY <2>1, <3>2, <4>2, <4>3, <4>4, GoesAs DEF Due
    <3> QED BY <3>3, <3>4, <3>5, Zenon
  <2> QED BY <2>2, <2>3
<1>6. CASE UpdateTripGroup(r)
  BY <1>6, <1>0, TripDue, TripTail, TripFinishes DEF UpdateTripGroup, Due
<1>7. CASE RemoveTrip(r)
  BY <1>7, <1>0, ArrivesAs, IdleFacts DEF RemoveTrip, Course, Tripping, OrderOps
<1>8. CASE RemoveTripFind(r)
  BY <1>8, <1>0, TripGoes, NextSlot, RefusesAs DEF RemoveTripFind, Due
<1>9. CASE RemoveTripDelete(r)
  <2>1. Due(r, "removeTrip", "delete") /\ Finish(r) /\ db' = DropTrip(db, req[r].t)
    BY <1>9 DEF RemoveTripDelete, DeleteTripRow
  <2>2. TripWrite(db, db') BY <2>1, DropTripWrite DEF Framed
  <2> QED BY <2>1, <2>2, TripDue, TripTail, TripFinishes DEF Due
<1>10. CASE BulkDelete(r) BY <1>10, <1>0, BulkArrives DEF BulkDelete
<1>11. CASE BulkArchive(r) BY <1>11, <1>0, BulkArrives DEF BulkArchive
<1>12. CASE BulkChangeStatus(r) BY <1>12, <1>0, BulkArrives DEF BulkChangeStatus
<1>13. CASE BulkRead(r)
  <2>1. /\ req[r].op \in {"bulkDelete", "bulkArchive", "bulkStatus"}
        /\ Due(r, req[r].op, "read")
        /\ db' = db
    BY <1>13 DEF BulkRead
  <2>2. PICK seen : Go(r, [Next1(r) EXCEPT !.seen = seen]) BY <1>13 DEF BulkRead
  <2> DEFINE row == [Next1(r) EXCEPT !.seen = seen]
  <2>3. /\ DOMAIN row = DOMAIN Idle /\ row.op = req[r].op /\ row.by = req[r].by
        /\ row.pc = Tail(req[r].pc)
    BY NextSlot, IdleFacts
  <2>4. Go(r, row) BY <2>2
  <2> HIDE DEF row
  <2> QED BY <2>1, <2>3, <2>4, <1>0, TripGoes
<1>14. CASE BulkDeleteEach(r)
  <2>1. PICK w \in req[r].seen : req[r].op = "bulkDelete" /\ BulkEach(r, w) /\ db' = DropTrip(db, w[1])
    BY <1>14 DEF BulkDeleteEach, DeleteTripRow
  <2>2. TripWrite(db, db') BY <2>1, DropTripWrite DEF Framed
  <2> QED BY <2>1, <2>2, BulkGoes
<1>15. CASE BulkArchiveEach(r)
  BY <1>15, <1>0, BulkGoes DEF BulkArchiveEach, Framed, TripWrite, Tabled, FewerSegments, Fields
<1>16. CASE BulkChangeStatusEach(r)
  <2> DEFINE date == BookingDate(0, req[r].v = "booked")
  <2>1. PICK w \in req[r].seen :
            /\ req[r].op = "bulkStatus"
            /\ \/ Refuse(r)
               \/ /\ BulkEach(r, w)
                  /\ db' = IF Existing(w[1])
                           THEN [db EXCEPT !.trip[w[1]].status = req[r].v,
                                           !.trip[w[1]].date = IF date = 0 THEN @ ELSE date]
                           ELSE db
    BY <1>16, Zenon DEF BulkChangeStatusEach
  <2> HIDE DEF date
  <2>2. CASE Refuse(r) BY <2>1, <2>2, <1>0, RefusesAs
  <2>3. CASE ~Refuse(r)
    <3>1. CASE Existing(w[1])
      <4>1. TripWrite(db, db')
        BY <2>1, <2>3, <3>1 DEF Framed, TripWrite, Tabled, FewerSegments, Fields
      <4> QED BY <2>1, <2>3, <4>1, BulkGoes
    <3>2. CASE ~Existing(w[1]) BY <2>1, <2>3, <3>2, <1>0, BulkGoes
    <3> QED BY <3>1, <3>2
  <2> QED BY <2>2, <2>3
<1>17. CASE BulkEnd(r) BY <1>17, <1>0, RepliesAs DEF BulkEnd
<1>18. CASE PublishTrip(r)
  BY <1>18, <1>0, ArrivesAs, IdleFacts DEF PublishTrip, Course, Tripping, OrderOps
<1>19. CASE PublishTripFind(r)
  BY <1>19, <1>0, TripGoes, NextSlot, RefusesAs, RepliesAs DEF PublishTripFind, Due
<1>20. CASE PublishTripWrite(r)
  <2>1. /\ Due(r, "publishTrip", "write")
        /\ \/ Refuse(r)
           \/ /\ Finish(r)
              /\ \E row : db' = [db EXCEPT !.made.token = @ + 1, !.trip[req[r].t] = row]
    BY <1>20, Published, Zenon DEF PublishTripWrite
  <2>2. TripWrite(db, db')
    <3>1. db' = db \/ \E row : db' = [db EXCEPT !.made.token = @ + 1, !.trip[req[r].t] = row]
      BY <2>1, Zenon DEF Refuse
    <3>2. ASSUME NEW row, db' = [db EXCEPT !.made.token = @ + 1, !.trip[req[r].t] = row]
          PROVE  TripWrite(db, db')
      BY <3>2 DEF Framed, TripWrite, Tabled, FewerSegments, Fields, Counters
    <3> QED BY <3>1, <3>2, <1>0
  <2>3. req[r].op \in TripOps /\ Len(req[r].pc) = 1 BY <2>1, TripDue, TripTail DEF TripOps, Due
  <2>4. CASE Refuse(r) BY <2>2, <2>3, <2>4, RefusesAs
  <2>5. CASE Finish(r) BY <2>2, <2>3, <2>5, TripFinishes
  <2> QED BY <2>1, <2>4, <2>5
<1>21. CASE UnpublishTrip(r)
  BY <1>21, <1>0, ArrivesAs, IdleFacts DEF UnpublishTrip, Course, Tripping, OrderOps
<1>22. CASE UnpublishTripWrite(r)
  <2>1. /\ Due(r, "unpublishTrip", "write")
        /\ Refuse(r) \/ (Finish(r) /\ \E row : db' = [db EXCEPT !.trip[req[r].t] = row])
    BY <1>22, Unpublished, Zenon DEF UnpublishTripWrite
  <2>2. TripWrite(db, db')
    BY <2>1, <1>0 DEF Framed, TripWrite, Tabled, FewerSegments, Fields, Refuse
  <2> QED BY <2>1, <2>2, TripDue, TripTail, TripFinishes, RefusesAs DEF Due
<1> QED
  BY <1>1, <1>2, <1>3, <1>4, <1>5, <1>6, <1>7, <1>8, <1>9, <1>10, <1>11, <1>12, <1>13, <1>14,
     <1>15, <1>16, <1>17, <1>18, <1>19, <1>20, <1>21, <1>22 DEF TripStep

-----------------------------------------------------------------------------
(* Every step keeps the frame                                                *)

\* The segments of one save, or of none.
LEMMA InsertSegmentsMoves ==
    ASSUME Framed, NEW r \in Requests, InsertSegments(r)
    PROVE  /\ PlanMove(r) /\ Tabled(db') /\ SameTrips(db, db')
           /\ \A a \in Acts : \/ db'.segments[a] = db.segments[a]
                              \/ \E n : \A w \in db'.segments[a] : w[2] = n
<1>1. Of(r, "segments") BY DEF InsertSegments
<1>2. ~Tripping(req[r]) /\ req[r].pc # <<>> BY <1>1 DEF Of, Due, Tripping, TripOps, OrderOps
<1>5. PlanMove(r) BY ComponentMoves DEF ComponentStep
<1>3. CASE Refuse(r) BY <1>3, <1>5 DEF PlanWrite, Refuse, Framed, SameTrips, Tabled
<1>4. CASE ~Refuse(r)
  <2> DEFINE rows == UNION {SegmentsOf(s) : s \in req[r].seen}
  <2>1. Finish(r) /\ db' = [db EXCEPT !.segments[req[r].a] = rows] BY <1>4 DEF InsertSegments
  <2>2. \E n : \A w \in rows : w[2] = n
    <3>1. req[r].op \in {"createComponent", "updateComponent"}
      <4>1. ASSUME req[r].op \in {"generateTour", "generatePorts"} PROVE FALSE
        BY <1>1, <4>1 DEF Of, Due, Framed, SavesOnce, NoSegments, GeneratorSteps
      <4> QED BY <1>1, <4>1 DEF Of
    <3>2. PICK n : req[r].seen \subseteq {n} BY <3>1 DEF Framed, SavesOnce
    <3>3. \A w \in rows : w \in {<<0, n>>, <<1, n>>} BY <3>2 DEF SegmentsOf
    <3> QED BY <3>3
  <2> HIDE DEF rows
  <2>4. Tabled(db') /\ SameTrips(db, db') BY <2>1 DEF Framed, Tabled, SameTrips, Fields
  <2>5. \A a \in Acts : db'.segments[a] = IF a = req[r].a THEN rows ELSE db.segments[a]
    BY <2>1 DEF Framed, Tabled, Fields
  <2> QED BY <1>5, <2>2, <2>4, <2>5
<1> QED BY <1>3, <1>4

LEMMA HandlerWrites ==
    ASSUME Framed, HandlerStep
    PROVE  /\ Tabled(db') /\ req' = req /\ db'.segments = db.segments /\ db'.order = db.order
           /\ db'.mail = db.mail /\ db'.made = db.made /\ db'.trip = db.trip
           /\ db'.itin = db.itin
<1>1. PICK e \in events : LogEvent(e) \/ HandleTripBooked(e) \/ SetFirstBookingDate(e) \/ HandlerDies(e)
  BY DEF HandlerStep
<1>2. CASE LogEvent(e)
  BY <1>2 DEF LogEvent, Framed, Tabled, Fields
<1>3. CASE HandleTripBooked(e) BY <1>3 DEF HandleTripBooked, Framed
<1>4. CASE SetFirstBookingDate(e) BY <1>4 DEF SetFirstBookingDate, Framed, Tabled, Fields
<1>5. CASE HandlerDies(e) BY <1>5 DEF HandlerDies, Framed
<1> QED BY <1>1, <1>2, <1>3, <1>4, <1>5

\* A request dies, of whatever kind: the slot holds nothing of it.
LEMMA DiesMoves ==
    ASSUME Framed, NEW r \in Requests, Die(r)
    PROVE  /\ Slotted(req') /\ \A q \in Requests \ {r} : req'[q] = req[q]
           /\ ~Tripping(req'[r]) /\ SavesOnce(req'[r]) /\ Course(req'[r])
           /\ db' = db /\ faults' = faults + 1 /\ faults < env.faults
           /\ req'[r].op \in {"idle", "failed"}
<1> DEFINE row == IF req[r].by = "none" THEN Idle ELSE [Idle EXCEPT !.op = "failed", !.by = req[r].by]
<1>1. req' = [req EXCEPT ![r] = row] /\ db' = db /\ faults' = faults + 1 /\ faults < env.faults
  BY DEF Die
<1>2. DOMAIN row = DOMAIN Idle /\ row.op \in {"idle", "failed"} BY IdleFacts
<1> HIDE DEF row
<1> QED BY <1>1, <1>2 DEF Framed, Slotted, Tripping, SavesOnce, Course, TripOps, OrderOps

\* The steps of the specification, by what they may touch.
PlanStep(r) == PlanMove(r) /\ PlanWrite(db, db')
LEMMA Steps ==
    ASSUME Framed, Next
    PROVE  /\ env' = env
           /\ \/ \E r \in Requests : TripStep(r)
              \/ HandlerStep
              \/ /\ events' = events
                 /\ \/ \E r \in Requests : OrderStep(r) \/ PlanStep(r) \/ InsertSegments(r) \/ Die(r)
                    \/ FormEffect
<1>1. ASSUME NEW r \in Requests,
             \/ ItineraryStep(r) \/ DayStep(r) \/ ActivityStep(r) \/ ComponentRequest(r)
             \/ ComponentStep(r) \/ ScheduleStep(r) \/ FormStep(r)
      PROVE  PlanStep(r) \/ InsertSegments(r)
  BY <1>1, ItineraryMoves, DayMoves, ActivityMoves, ComponentRequestMoves, ComponentMoves,
     ScheduleMoves, FormMoves DEF PlanStep
<1> QED BY <1>1 DEF Next

LEMMA FramedSlots ==
    ASSUME Framed, NEW r \in Requests, Slotted(req'), \A q \in Requests \ {r} : req'[q] = req[q],
           Course(req'[r]), SavesOnce(req'[r]), Tabled(db')
    PROVE  Framed'
BY DEF Framed, Slotted, Tabled, Course, SavesOnce

LEMMA FramedStep ==
    ASSUME Framed, [Next]_vars PROVE Framed'
<1>1. ASSUME NEW r \in Requests, TripStep(r) PROVE Framed'
  BY <1>1, TripStepMoves, FramedSlots DEF TripWrite, Moved, SavesOnce, TripOps
<1>2. ASSUME NEW r \in Requests, OrderStep(r) PROVE Framed'
  BY <1>2, OrderStepMoves, FramedSlots DEF OrderWrite, Moved, SavesOnce, OrderOps
<1>3. ASSUME NEW r \in Requests, PlanMove(r), Tabled(db') PROVE Framed'
  BY <1>3, FramedSlots DEF PlanMove, Tripping, Course, TripOps, OrderOps
<1>4. ASSUME NEW r \in Requests, Die(r) PROVE Framed' BY <1>4, DiesMoves, FramedSlots DEF Framed
<1>5. CASE HandlerStep BY <1>5, HandlerWrites DEF Framed, Slotted
<1>6. CASE FormEffect \/ UNCHANGED vars
  BY <1>6 DEF FormEffect, vars, Framed, Slotted, Tabled, Course, SavesOnce
<1> QED
  BY <1>1, <1>2, <1>3, <1>4, <1>5, <1>6, Steps, InsertSegmentsMoves DEF PlanStep, PlanWrite

-----------------------------------------------------------------------------
(* Orders and their mails: what the tables and the requests agree on         *)

MailRows == [order : Orders, log : {"pending", "sent", "failed", "filtered"}, accepted : BOOLEAN]

\* The provider took a mail with the order.
Took(t, o) == \E m \in DOMAIN t.mail : t.mail[m].order = o /\ t.mail[m].accepted

OrderTables(t) ==
    /\ DOMAIN t.order = Orders /\ t.made.order \in Nat /\ t.mail \in Seq(MailRows)
    /\ \A o \in Orders :
        /\ DOMAIN t.order[o] = DOMAIN NoOrder
        /\ t.order[o].status \in {"none", "draft", "finalized", "sent"}
        /\ t.order[o].trip = 0 <=> t.order[o].status = "none"
        /\ t.order[o].trip # 0 => o <= t.made.order
        /\ t.order[o].status = "sent" => Took(t, o)
        /\ Took(t, o) => t.order[o].status # "draft"
    /\ \A m \in DOMAIN t.mail : /\ t.mail[m].order <= t.made.order
                                /\ t.mail[m].log = "sent" => t.mail[m].accepted
    /\ \A o, p \in Orders : o # p /\ t.order[o].trip # 0 /\ t.order[o].trip = t.order[p].trip
            => t.order[o].version # t.order[p].version

At(q, steps) == q.op = "sendOrder" /\ Head(q.pc) \in steps

\* What a request about orders has read or written, still holds.
SendRow(t, q) ==
    /\ q.op = "generateOrder" => q.t \in Trips
    /\ q.op \in {"finalizeOrder", "sendOrder"} => q.o \in Orders
    /\ q.op = "sendOrder" /\ Head(q.pc) # "get" => q.o <= t.made.order
    /\ q.op = "sendOrder" /\ Head(q.pc) \notin {"get", "finalizeFind", "finalizeWrite"}
            => t.order[q.o].status # "draft"
    /\ At(q, {"provider", "markLog", "filtered"})
            => q.s \in DOMAIN t.mail /\ t.mail[q.s].order = q.o
    /\ At(q, {"provider"}) => ~t.mail[q.s].accepted /\ t.mail[q.s].log # "sent"
    /\ At(q, {"markLog"}) /\ q.flag => t.mail[q.s].accepted
    /\ At(q, {"markFind", "markWrite"}) => Took(t, q.o)

\* No two requests wait for the provider with one entry of the log.
SendsApart ==
    \A q, r \in Requests : q # r /\ At(req[q], {"provider"}) /\ At(req[r], {"provider"})
        => req[q].s # req[r].s

OrdersOk == OrderTables(db) /\ (\A r \in Requests : SendRow(db, req[r])) /\ SendsApart

LEMMA SameOrders ==
    ASSUME NEW t, NEW u, OrderTables(t), u.order = t.order, u.mail = t.mail,
           u.made.order = t.made.order
    PROVE  OrderTables(u) /\ \A q : SendRow(t, q) => SendRow(u, q)
<1>1. \A o : Took(u, o) <=> Took(t, o) BY DEF Took
<1> QED BY <1>1 DEF OrderTables, SendRow

\* Some orders have gone.
FewerOrders(t, u) ==
    /\ DOMAIN u.order = Orders
    /\ \A o \in Orders : u.order[o] = NoOrder \/ u.order[o] = t.order[o]

LEMMA DroppedOrders ==
    ASSUME NEW t, NEW u, OrderTables(t), u.mail = t.mail, u.made.order = t.made.order,
           FewerOrders(t, u)
    PROVE  OrderTables(u) /\ \A q : SendRow(t, q) => SendRow(u, q)
<1>1. \A o : Took(u, o) <=> Took(t, o) BY DEF Took
<1>2. NoOrder.trip = 0 /\ NoOrder.status = "none" BY DEF NoOrder
<1>3. DOMAIN u.order = Orders
      /\ \A o \in Orders : u.order[o] = NoOrder \/ u.order[o] = t.order[o]
  BY DEF FewerOrders
<1>4. OrderTables(u) BY <1>1, <1>2, <1>3 DEF OrderTables
<1>5. ASSUME NEW q, SendRow(t, q) PROVE SendRow(u, q) BY <1>1, <1>2, <1>3, <1>5 DEF SendRow
<1> QED BY <1>4, <1>5

\* An order that is there becomes finalized or sent.
LEMMA WrittenOrder ==
    ASSUME NEW t, Tabled(t), OrderTables(t), NEW o \in Orders, t.order[o].trip # 0,
           NEW status \in {"finalized", "sent"}, status = "sent" => Took(t, o),
           NEW u, u = [t EXCEPT !.order[o].status = status]
    PROVE  /\ OrderTables(u) /\ \A q : SendRow(t, q) => SendRow(u, q)
           /\ u.order[o].status = status /\ u.made.order = t.made.order /\ u.mail = t.mail
           /\ \A p \in Orders : p # o => u.order[p] = t.order[p]
<1>1. /\ u.mail = t.mail /\ u.made = t.made
      /\ u.order = [t.order EXCEPT ![o] = [@ EXCEPT !.status = status]]
  BY DEF Tabled, Fields
<1>2. \A p : Took(u, p) <=> Took(t, p) BY <1>1 DEF Took
<1>3. /\ DOMAIN u.order = Orders /\ u.order[o].status = status
      /\ u.order[o].trip = t.order[o].trip /\ u.order[o].version = t.order[o].version
      /\ DOMAIN u.order[o] = DOMAIN NoOrder
      /\ \A p \in Orders : p # o => u.order[p] = t.order[p]
  BY <1>1 DEF OrderTables, NoOrder
<1>4. OrderTables(u) BY <1>1, <1>2, <1>3 DEF OrderTables
<1>5. ASSUME NEW q, SendRow(t, q) PROVE SendRow(u, q) BY <1>1, <1>2, <1>3, <1>5 DEF SendRow
<1> QED BY <1>1, <1>3, <1>4, <1>5

\* No order of the trip has the version.
Fresh(t, x, n) == \A p \in Orders : t.order[p].trip = x => t.order[p].version # n

\* A new order is a draft that no mail knows.
LEMMA NewOrder ==
    ASSUME NEW t, OrderTables(t), NEW o \in Orders, t.made.order < o,
           NEW row, row.trip \in Trips, row.status = "draft", DOMAIN row = DOMAIN NoOrder,
           Fresh(t, row.trip, row.version),
           NEW u, u.mail = t.mail, u.made.order = o, u.order = [t.order EXCEPT ![o] = row]
    PROVE  /\ OrderTables(u) /\ \A q : SendRow(t, q) => SendRow(u, q)
           /\ u.mail = t.mail /\ ~Took(u, o) /\ \A p \in Orders : p # o => u.order[p] = t.order[p]
<1>1. u.mail = t.mail /\ u.made.order = o /\ u.order = [t.order EXCEPT ![o] = row] OBVIOUS
<1>2. \A p : Took(u, p) <=> Took(t, p) BY <1>1 DEF Took
<1>3. row.trip # 0 BY DEF Trips
<1>4. DOMAIN u.order = Orders /\ u.order[o] = row /\ \A p \in Orders : p # o => u.order[p] = t.order[p]
  BY <1>1 DEF OrderTables
<1>5. t.made.order \in Nat /\ o \in Int /\ \A m \in DOMAIN t.mail : t.mail[m].order \in Int
  <2>1. t.mail \in Seq(MailRows) /\ t.made.order \in Nat BY DEF OrderTables
  <2>2. \A m \in DOMAIN t.mail : t.mail[m] \in MailRows BY <2>1
  <2> QED BY <2>1, <2>2 DEF MailRows, Orders
<1>6. ~Took(t, o) BY <1>5 DEF OrderTables, Took
<1>7. \A p \in Orders : p <= t.made.order => p # o /\ p <= u.made.order BY <1>1, <1>5 DEF Orders
<1>8. u.made.order \in Nat /\ \A m \in DOMAIN t.mail : t.mail[m].order <= u.made.order
  BY <1>1, <1>5 DEF OrderTables, Orders
<1>9. OrderTables(u) BY <1>1, <1>2, <1>3, <1>4, <1>6, <1>7, <1>8 DEF OrderTables, Fresh
<1>10. ASSUME NEW q, SendRow(t, q) PROVE SendRow(u, q)
  BY <1>1, <1>2, <1>3, <1>4, <1>7, <1>10 DEF SendRow, At
<1> QED BY <1>1, <1>2, <1>4, <1>6, <1>9, <1>10

-----------------------------------------------------------------------------
(* The entries of the log of mails                                           *)

MailChange(t, u) ==
    /\ u.order = t.order /\ u.made.order = t.made.order /\ u.mail \in Seq(MailRows)
    /\ \A o : Took(t, o) => Took(u, o)
    /\ \A o \in Orders : Took(u, o) => Took(t, o) \/ t.order[o].status # "draft"
    /\ \A m \in DOMAIN u.mail : u.mail[m].order <= t.made.order
    /\ \A m \in DOMAIN u.mail : u.mail[m].log = "sent" => u.mail[m].accepted

LEMMA MailsChange ==
    ASSUME NEW t, NEW u, OrderTables(t), MailChange(t, u)
    PROVE  OrderTables(u)
BY DEF OrderTables, MailChange

LEMMA AppendedMail ==
    ASSUME NEW t, OrderTables(t), NEW o \in Orders, o <= t.made.order,
           NEW row \in MailRows, row.order = o, row.log = "pending", ~row.accepted,
           NEW u, u.mail = Append(t.mail, row), u.order = t.order, u.made = t.made
    PROVE  /\ OrderTables(u) /\ \A q : SendRow(t, q) => SendRow(u, q)
           /\ u.order = t.order /\ u.made = t.made /\ \A p : Took(u, p) <=> Took(t, p)
           /\ Len(t.mail) + 1 \in DOMAIN u.mail /\ Len(t.mail) + 1 \notin DOMAIN t.mail
           /\ u.mail[Len(t.mail) + 1].order = o /\ ~u.mail[Len(t.mail) + 1].accepted
           /\ u.mail[Len(t.mail) + 1].log = "pending"
<1> DEFINE s == Len(t.mail) + 1
<1>1. u.order = t.order /\ u.made = t.made /\ u.mail = Append(t.mail, row) OBVIOUS
<1>2. row \in MailRows /\ t.mail \in Seq(MailRows) BY DEF OrderTables
<1>3. row.order = o /\ row.log = "pending" /\ ~row.accepted OBVIOUS
<1>4. /\ u.mail \in Seq(MailRows) /\ DOMAIN u.mail = DOMAIN t.mail \cup {s} /\ s \notin DOMAIN t.mail
      /\ u.mail[s] = row /\ \A m \in DOMAIN t.mail : u.mail[m] = t.mail[m]
  <2>1. /\ u.mail \in Seq(MailRows) /\ Len(u.mail) = Len(t.mail) + 1 /\ Len(t.mail) \in Nat
        /\ u.mail[Len(t.mail) + 1] = row
        /\ \A m \in 1 .. Len(t.mail) : u.mail[m] = t.mail[m]
    <3>1. t.mail \in Seq(MailRows) /\ Len(t.mail) \in Nat BY <1>2
    <3>2. /\ u.mail \in Seq(MailRows) /\ Len(u.mail) = Len(t.mail) + 1
          /\ u.mail[Len(t.mail) + 1] = row
      BY <1>2, AppendProperties, <1>1
    <3>3. \A m \in 1 .. Len(t.mail) : u.mail[m] = t.mail[m] BY <1>1, <1>2, AppendProperties
    <3> QED BY <3>1, <3>2, <3>3
  <2>2. DOMAIN t.mail = 1 .. Len(t.mail) /\ DOMAIN u.mail = 1 .. Len(t.mail) + 1 BY <2>1, <1>2
  <2>3. DOMAIN u.mail = DOMAIN t.mail \cup {s} /\ s \notin DOMAIN t.mail BY <2>1, <2>2
  <2> QED BY <2>1, <2>2, <2>3
<1> HIDE DEF s
<1>5. \A p : Took(u, p) <=> Took(t, p)
  BY <1>4, <1>3 DEF Took
<1>6. OrderTables(u)
  <2>1. \A m \in DOMAIN t.mail : /\ t.mail[m].order <= t.made.order
                                 /\ t.mail[m].log = "sent" => t.mail[m].accepted
    BY DEF OrderTables
  <2>2. \A m \in DOMAIN u.mail : u.mail[m].order <= t.made.order BY <1>3, <1>4, <2>1
  <2>3. \A m \in DOMAIN u.mail : u.mail[m].log = "sent" => u.mail[m].accepted
    BY <1>3, <1>4, <2>1
  <2>4. u.order = t.order /\ u.made.order = t.made.order /\ u.mail \in Seq(MailRows)
    BY <1>1, <1>4
  <2>5. (\A p : Took(t, p) => Took(u, p)) /\ (\A p \in Orders : Took(u, p) => Took(t, p))
    BY <1>5
  <2>6. MailChange(t, u) BY <2>2, <2>3, <2>4, <2>5, Zenon DEF MailChange
  <2> QED BY <2>6, MailsChange
<1>7. ASSUME NEW q, SendRow(t, q) PROVE SendRow(u, q)
  BY <1>4, <1>1, <1>5, <1>7 DEF SendRow, At
<1> QED BY <1>1, <1>3, <1>4, <1>5, <1>6, <1>7 DEF s

\* One row of the outbox is written over.
MailWritten(t, u, s, row) ==
    /\ u.order = t.order /\ u.made = t.made
    /\ u.mail \in Seq(MailRows) /\ DOMAIN u.mail = DOMAIN t.mail /\ u.mail[s] = row
    /\ \A m \in DOMAIN t.mail : m # s => u.mail[m] = t.mail[m]
    /\ row.order = t.mail[s].order /\ (row.log = "sent" => row.accepted)
    /\ t.mail[s].accepted => row.accepted
    /\ row.accepted => t.mail[s].accepted \/ t.order[row.order].status # "draft"
LEMMA MailWriteKept ==
    ASSUME NEW t, OrderTables(t), NEW u, NEW s \in DOMAIN t.mail, NEW row, MailWritten(t, u, s, row)
    PROVE  /\ OrderTables(u)
           /\ \A p : Took(u, p) <=> Took(t, p) \/ (row.accepted /\ p = row.order)
<1>1. /\ u.order = t.order /\ u.made = t.made
      /\ u.mail \in Seq(MailRows) /\ DOMAIN u.mail = DOMAIN t.mail /\ u.mail[s] = row
      /\ \A m \in DOMAIN t.mail : m # s => u.mail[m] = t.mail[m]
  BY DEF MailWritten
<1>2. /\ row.order = t.mail[s].order /\ (row.log = "sent" => row.accepted)
      /\ t.mail[s].accepted => row.accepted
      /\ row.accepted => t.mail[s].accepted \/ t.order[row.order].status # "draft"
  BY DEF MailWritten
<1>a. \A m \in DOMAIN t.mail : /\ t.mail[m].order <= t.made.order
                               /\ t.mail[m].log = "sent" => t.mail[m].accepted
  BY DEF OrderTables
<1>3. \A p : Took(u, p) <=> Took(t, p) \/ (row.accepted /\ p = row.order)
  BY <1>1, <1>2 DEF Took
<1>4. \A m \in DOMAIN u.mail : u.mail[m].order <= t.made.order BY <1>1, <1>2, <1>a
<1>5. \A m \in DOMAIN u.mail : u.mail[m].log = "sent" => u.mail[m].accepted BY <1>1, <1>2, <1>a
<1>6. \A p \in Orders : Took(u, p) => Took(t, p) \/ t.order[p].status # "draft"
  BY <1>2, <1>3 DEF Took
<1>7. MailChange(t, u) BY <1>1, <1>3, <1>4, <1>5, <1>6, Zenon DEF MailChange
<1> QED BY <1>3, <1>7, MailsChange

LEMMA LoggedMail ==
    ASSUME NEW t, Tabled(t), OrderTables(t), NEW s \in DOMAIN t.mail,
           NEW log \in {"failed", "filtered", "sent"}, log = "sent" => t.mail[s].accepted,
           NEW u, u = [t EXCEPT !.mail[s].log = log]
    PROVE  /\ OrderTables(u) /\ \A q : SendRow(t, q) => SendRow(u, q)
           /\ u.order = t.order /\ u.made = t.made /\ \A p : Took(u, p) <=> Took(t, p)
<1> DEFINE row == [t.mail[s] EXCEPT !.log = log]
<1>1. u.order = t.order /\ u.made = t.made /\ u.mail = [t.mail EXCEPT ![s] = row]
  BY DEF Tabled, Fields
<1>2. t.mail \in Seq(MailRows) /\ t.mail[s] \in MailRows BY DEF OrderTables
<1>3. /\ row \in MailRows /\ row.log = log /\ row.order = t.mail[s].order
      /\ row.accepted = t.mail[s].accepted /\ (row.log = "sent" => row.accepted)
  BY <1>2 DEF MailRows
<1> HIDE DEF row
<1>4. MailWritten(t, u, s, row) BY <1>1, <1>2, <1>3 DEF MailWritten
<1>5. OrderTables(u) /\ \A p : Took(u, p) <=> Took(t, p) \/ (row.accepted /\ p = row.order)
  BY <1>4, MailWriteKept
<1>6. \A p : Took(u, p) <=> Took(t, p) BY <1>3, <1>5 DEF Took
<1>7. ASSUME NEW q, SendRow(t, q) PROVE SendRow(u, q)
  BY <1>3, <1>4, <1>6, <1>7 DEF SendRow, At, MailWritten
<1> QED BY <1>1, <1>5, <1>6, <1>7

LEMMA OfferedMail ==
    ASSUME NEW t, Tabled(t), OrderTables(t), NEW s \in DOMAIN t.mail, NEW accepted \in BOOLEAN,
           ~t.mail[s].accepted, t.mail[s].log # "sent",
           t.order[t.mail[s].order].status # "draft",
           NEW u, u = [t EXCEPT !.mail[s].accepted = accepted]
    PROVE  /\ OrderTables(u)
           /\ \A q : SendRow(t, q) /\ (At(q, {"provider"}) => q.s # s) => SendRow(u, q)
           /\ u.order = t.order /\ u.made = t.made /\ DOMAIN u.mail = DOMAIN t.mail
           /\ u.mail[s].accepted = accepted /\ u.mail[s].order = t.mail[s].order
           /\ \A p : Took(u, p) <=> Took(t, p) \/ (accepted /\ p = t.mail[s].order)
<1> DEFINE row == [t.mail[s] EXCEPT !.accepted = accepted]
<1>1. u.order = t.order /\ u.made = t.made /\ u.mail = [t.mail EXCEPT ![s] = row]
  BY DEF Tabled, Fields
<1>2. t.mail \in Seq(MailRows) /\ t.mail[s] \in MailRows BY DEF OrderTables
<1>3. /\ row \in MailRows /\ row.log = t.mail[s].log /\ row.order = t.mail[s].order
      /\ row.accepted = accepted /\ row.log # "sent" /\ t.order[row.order].status # "draft"
  BY <1>2 DEF MailRows
<1> HIDE DEF row
<1>4. MailWritten(t, u, s, row) BY <1>1, <1>2, <1>3 DEF MailWritten
<1>5. OrderTables(u) /\ \A p : Took(u, p) <=> Took(t, p) \/ (row.accepted /\ p = row.order)
  BY <1>4, MailWriteKept
<1>6. ASSUME NEW q, SendRow(t, q), At(q, {"provider"}) => q.s # s PROVE SendRow(u, q)
  BY <1>3, <1>4, <1>5, <1>6 DEF SendRow, At, MailWritten
<1> QED BY <1>1, <1>3, <1>4, <1>5, <1>6 DEF MailWritten

-----------------------------------------------------------------------------
(* What a request about orders does to them                                  *)

\* One that is about to finalize its order has seen a draft.
Undecided(t, q) ==
    q.op \in {"finalizeOrder", "sendOrder"} /\ Head(q.pc) = "finalizeWrite"
        => t.order[q.o].status \in {"none", "draft"}

\* The provider took a mail with the order, but the order is not marked, and this request is
\* not about to mark it.
Carries(q, o) == /\ q.o = o
                 /\ (At(q, {"markLog"}) /\ q.flag) \/ At(q, {"markFind", "markWrite"})
Unmarked(t, q, o) ==
    Took(t, o) /\ t.order[o].status \notin {"none", "sent"} /\ ~Carries(q, o)

\* Alone at its mail when it comes to the provider.
Apart(r) == At(req'[r], {"provider"}) =>
    \A q \in Requests \ {r} : At(req[q], {"provider"}) => req[q].s # req'[r].s

OrderEffect(r) ==
    /\ OrderTables(db') /\ \A q \in Requests \ {r} : SendRow(db', req[q])
    /\ SendRow(db', req'[r]) /\ Undecided(db', req'[r]) /\ Apart(r)
    /\ faults' \in Nat
    /\ faults' = 0 =>
        /\ faults = 0
        /\ Undecided(db, req[r]) =>
            \A o \in Orders : Unmarked(db', req'[r], o) => Unmarked(db, req[r], o)

\* A step that only reads.
LEMMA ReadEffect ==
    ASSUME OrdersOk, NEW r \in Requests, db' = db, faults \in Nat, faults' = faults,
           SendRow(db, req'[r]), Undecided(db, req'[r]), ~At(req'[r], {"provider"}),
           \A o \in Orders : Carries(req[r], o)
                => Carries(req'[r], o) \/ db.order[o].status \in {"none", "sent"}
    PROVE  OrderEffect(r)
BY DEF OrderEffect, OrdersOk, Apart, Unmarked

\* A request that ends holds nothing.
LEMMA IdleRow ==
    ASSUME NEW t, NEW q, q.op \notin OrderOps
    PROVE  /\ SendRow(t, q) /\ Undecided(t, q) /\ \A steps : ~At(q, steps)
           /\ \A o : ~Carries(q, o)
BY DEF SendRow, Undecided, At, Carries, OrderOps

LEMMA EndEffect ==
    ASSUME OrdersOk, NEW r \in Requests, db' = db, faults \in Nat, faults' = faults,
           req'[r].op \notin OrderOps,
           \A o \in Orders : Carries(req[r], o) => db.order[o].status \in {"none", "sent"}
    PROVE  OrderEffect(r)
BY IdleRow, ReadEffect

\* A request that comes has read nothing.
LEMMA ArriveEffect ==
    ASSUME Framed, OrdersOk, NEW r \in Requests, NEW row, Arrive(r, row), faults \in Nat,
           \/ row.op = "generateOrder" /\ row.t \in Trips
           \/ row.op = "finalizeOrder" /\ row.o \in Orders /\ Head(row.pc) = "finalizeFind"
           \/ row.op = "sendOrder" /\ row.o \in Orders /\ Head(row.pc) = "get"
    PROVE  OrderEffect(r)
<1>1. req'[r] = row /\ db' = db /\ faults' = faults /\ req[r] = Idle
  BY DEF Arrive, Framed, Slotted
<1>2. SendRow(db, row) /\ Undecided(db, row) /\ ~At(row, {"provider"})
  BY DEF SendRow, Undecided, At
<1>3. \A o : ~Carries(req[r], o) BY <1>1, IdleFacts, IdleRow DEF OrderOps
<1> QED BY <1>1, <1>2, <1>3, ReadEffect

\* The row of a request, for a step of its course.
LEMMA OrderRow ==
    ASSUME Framed, OrdersOk, NEW r \in Requests, NEW op \in OrderOps, NEW step, Due(r, op, step)
    PROVE  /\ SendRow(db, req[r]) /\ req[r].op = op /\ Head(req[r].pc) = step /\ req[r].by = "none"
           /\ req[r].op = "sendOrder" =>
                /\ req[r].pc \in Sending
                /\ step \in DOMAIN SendNext =>
                    /\ Len(req[r].pc) # 1 /\ Head(Tail(req[r].pc)) = SendNext[step]
                    /\ step = "get" => Tail(req[r].pc) = SendSteps
                /\ step \notin DOMAIN SendNext => step \in {"filtered", "markWrite"} /\ Len(req[r].pc) = 1
           /\ req[r].op = "finalizeOrder" =>
                /\ step \in {"finalizeFind", "finalizeWrite"}
                /\ step = "finalizeFind" => Len(req[r].pc) # 1 /\ Tail(req[r].pc) = <<"finalizeWrite">>
                /\ step = "finalizeWrite" => Len(req[r].pc) = 1
<1>1. /\ SendRow(db, req[r]) /\ req[r].op = op /\ Head(req[r].pc) = step /\ req[r].by = "none"
      /\ Course(req[r])
  BY DEF OrdersOk, Due, Framed, Course, Tripping
<1>2. CASE op = "sendOrder"
  BY <1>1, <1>2, SendHeads DEF Course, SendNext
<1>3. CASE op = "finalizeOrder"
  <2>1. req[r].pc \in {FinalizeSteps, <<"finalizeWrite">>} BY <1>1, <1>3 DEF Course
  <2>2. CASE req[r].pc = FinalizeSteps BY <1>1, <1>3, <2>2 DEF FinalizeSteps
  <2>3. CASE req[r].pc = <<"finalizeWrite">> BY <1>1, <1>3, <2>3
  <2> QED BY <2>1, <2>2, <2>3
<1>4. CASE op = "generateOrder" BY <1>1, <1>4
<1> QED BY <1>1, <1>2, <1>3, <1>4 DEF OrderOps

\* A request that answers, or is refused, without a mark to set.
LEMMA ReplyEffect ==
    ASSUME Framed, OrdersOk, NEW r \in Requests, req[r].op \in OrderOps, NEW answer,
           Reply(r, answer), db' = db, faults \in Nat,
           \A o \in Orders : Carries(req[r], o) => db.order[o].status \in {"none", "sent"}
    PROVE  OrderEffect(r)
<1>1. req' = [req EXCEPT ![r] = Idle] /\ faults' = faults BY Ends DEF Tripping
<1>2. req'[r].op \notin OrderOps BY <1>1, IdleFacts DEF Framed, Slotted, OrderOps
<1> QED BY <1>1, <1>2, EndEffect

\* The next step of a request that has only read.
LEMMA NextEffect ==
    ASSUME Framed, OrdersOk, NEW r \in Requests, NEW row, Go(r, row), db' = db, faults \in Nat,
           SendRow(db, row), Undecided(db, row), ~At(row, {"provider"}),
           \A o \in Orders : Carries(req[r], o)
                => Carries(row, o) \/ db.order[o].status \in {"none", "sent"}
    PROVE  OrderEffect(r)
<1>1. req'[r] = row /\ faults' = faults BY DEF Go, Framed, Slotted
<1> QED BY <1>1, ReadEffect

LEMMA GenerateEffect ==
    ASSUME Framed, OrdersOk, NEW r \in Requests, faults \in Nat,
           \/ GenerateTripOrderSnapshot(r) \/ GenerateReadTrip(r) \/ GenerateNextVersion(r)
           \/ GenerateInsert(r)
    PROVE  OrderEffect(r)
<1>1. CASE GenerateTripOrderSnapshot(r)
  <2>1. PICK t \in Trips : Arrive(r, [Idle EXCEPT !.op = "generateOrder",
                                        !.pc = <<"trip", "version", "insert">>, !.t = t])
    BY <1>1, Zenon DEF GenerateTripOrderSnapshot
  <2> DEFINE row == [Idle EXCEPT !.op = "generateOrder", !.pc = <<"trip", "version", "insert">>, !.t = t]
  <2>2. row.op = "generateOrder" /\ row.t \in Trips /\ Arrive(r, row) BY <2>1, IdleFacts
  <2> HIDE DEF row
  <2> QED BY <2>2, ArriveEffect
<1>2. ASSUME NEW step, Due(r, "generateOrder", step)
      PROVE  /\ req[r].op = "generateOrder" /\ req[r].t \in Trips /\ req[r].op \in OrderOps
             /\ \A o : ~Carries(req[r], o)
  BY <1>2 DEF Due, OrdersOk, SendRow, OrderOps, Carries, At
<1>3. ASSUME NEW row, row.op = "generateOrder", row.t \in Trips
      PROVE  SendRow(db, row) /\ Undecided(db, row) /\ ~At(row, {"provider"})
  BY <1>3 DEF SendRow, Undecided, At
<1>4. CASE GenerateReadTrip(r)
  BY <1>4, <1>2, <1>3, NextEffect, ReplyEffect, NextSlot DEF GenerateReadTrip, Refuse
<1>5. CASE GenerateNextVersion(r)
  <2>1. Due(r, "generateOrder", "version") /\ db' = db BY <1>5 DEF GenerateNextVersion
  <2>2. PICK n : Go(r, [Next1(r) EXCEPT !.n = n]) BY <1>5 DEF GenerateNextVersion
  <2> DEFINE row == [Next1(r) EXCEPT !.n = n]
  <2>3. Go(r, row) /\ row.op = req[r].op /\ row.t = req[r].t BY <2>2, NextSlot, IdleFacts
  <2> HIDE DEF row
  <2> QED BY <2>1, <2>3, <1>2, <1>3, NextEffect
<1>6. CASE GenerateInsert(r)
  <2>1. Due(r, "generateOrder", "insert") /\ req[r].op = "generateOrder"
    BY <1>6 DEF GenerateInsert, Due
  <2>2. CASE Refuse(r) BY <2>1, <2>2, <1>2, ReplyEffect DEF Refuse
  <2>3. CASE ~Refuse(r)
    <3> DEFINE o == db.made.order + 1
               n == req[r].n
    <3>1. /\ o \in Orders /\ ~VersionTaken(r) /\ Finish(r)
          /\ db' = [db EXCEPT !.made.order = o,
                        !.order[o] = [trip |-> req[r].t, version |-> n, status |-> "draft"]]
      BY <1>6, <2>3 DEF GenerateInsert
    <3>2. Fresh(db, req[r].t, n) BY <3>1 DEF Fresh, VersionTaken, OrdersOf
    <3>3. req[r].t \in Trips BY <2>1, <1>2
    <3>4. /\ OrderTables(db') /\ \A q : SendRow(db, q) => SendRow(db', q)
          /\ db'.mail = db.mail /\ ~Took(db', o) /\ \A p \in Orders : p # o => db'.order[p] = db.order[p]
      <4>1. Tabled(db) /\ OrderTables(db) /\ o = db.made.order + 1 BY DEF Framed, OrdersOk
      <4> DEFINE row == [trip |-> req[r].t, version |-> n, status |-> "draft"]
      <4>2. db' = [db EXCEPT !.made.order = o, !.order[o] = row] BY <3>1
      <4>3. /\ row.trip = req[r].t /\ row.version = n /\ row.status = "draft"
            /\ DOMAIN row = DOMAIN NoOrder
        BY DEF NoOrder
      <4>4. db.made.order < o BY DEF OrdersOk, OrderTables
      <4> HIDE DEF o, n, row
      <4>5. db'.mail = db.mail /\ db'.made.order = o /\ db'.order = [db.order EXCEPT ![o] = row]
        BY <4>1, <4>2 DEF Tabled, Fields, Counters
      <4>6. row.trip \in Trips /\ Fresh(db, row.trip, row.version) /\ o \in Orders
        BY <3>1, <3>2, <3>3, <4>3
      <4> QED BY <4>1, <4>3, <4>4, <4>5, <4>6, NewOrder
    <3>5. req'[r] = Idle /\ faults' = faults
      BY <2>1, <3>1, <1>2, FinishesLast DEF Framed, Course, Due
    <3>6. \A p : Took(db', p) <=> Took(db, p) BY <3>4 DEF Took
    <3>7. \A p \in Orders : Unmarked(db', Idle, p) => Unmarked(db, req[r], p)
      BY <3>4, <3>6, <1>2, <2>1 DEF Unmarked
    <3>8. SendRow(db', Idle) /\ Undecided(db', Idle) /\ ~At(Idle, {"provider"})
      BY IdleRow, IdleFacts DEF OrderOps
    <3> QED BY <3>4, <3>5, <3>7, <3>8 DEF OrderEffect, Apart, OrdersOk
  <2> QED BY <2>2, <2>3
<1> QED BY <1>1, <1>4, <1>5, <1>6

LEMMA FinalizeEffect ==
    ASSUME Framed, OrdersOk, NEW r \in Requests, faults \in Nat,
           FinalizeTripOrder(r) \/ FinalizeFind(r) \/ FinalizeWrite(r)
    PROVE  OrderEffect(r)
<1>1. CASE FinalizeTripOrder(r)
  <2>1. PICK o \in Orders : Arrive(r, [Idle EXCEPT !.op = "finalizeOrder", !.pc = FinalizeSteps, !.o = o])
    BY <1>1, Zenon DEF FinalizeTripOrder
  <2> DEFINE row == [Idle EXCEPT !.op = "finalizeOrder", !.pc = FinalizeSteps, !.o = o]
  <2>2. row.op = "finalizeOrder" /\ row.o \in Orders /\ Arrive(r, row) /\ row.pc = FinalizeSteps
    BY <2>1, IdleFacts
  <2> HIDE DEF row
  <2>3. Head(row.pc) = "finalizeFind" BY <2>2 DEF FinalizeSteps
  <2> QED BY <2>2, <2>3, ArriveEffect
<1>2. CASE FinalizeFind(r)
  <2>1. /\ req[r].op \in {"finalizeOrder", "sendOrder"} /\ Due(r, req[r].op, "finalizeFind")
        /\ \/ db.order[req[r].o].status = "draft" /\ Go(r, Next1(r)) /\ db' = db
           \/ Refuse(r)
    BY <1>2 DEF FinalizeFind, OfOrder
  <2>2. /\ SendRow(db, req[r]) /\ Head(req[r].pc) = "finalizeFind"
        /\ Head(Tail(req[r].pc)) = "finalizeWrite"
    <3>1. "finalizeFind" \in DOMAIN SendNext /\ SendNext["finalizeFind"] = "finalizeWrite"
      BY DEF SendNext
    <3>2. Head(<<"finalizeWrite">>) = "finalizeWrite" OBVIOUS
    <3> QED BY <2>1, <3>1, <3>2, OrderRow DEF OrderOps
  <2>3. \A o : ~Carries(req[r], o) BY <2>2 DEF Carries, At
  <2>4. CASE Refuse(r) BY <2>1, <2>3, <2>4, ReplyEffect DEF Refuse, OrderOps
  <2>5. CASE ~Refuse(r)
    BY <2>2, NextSlot, <2>1, <2>5, <2>3, NextEffect DEF SendRow, Undecided, At
  <2> QED BY <2>4, <2>5
<1>3. CASE FinalizeWrite(r)
  <2>1. /\ req[r].op \in {"finalizeOrder", "sendOrder"} /\ Due(r, req[r].op, "finalizeWrite")
        /\ \/ /\ OrderExists(req[r].o) /\ Finish(r)
              /\ db' = [db EXCEPT !.order[req[r].o].status = "finalized"]
           \/ Refuse(r)
    BY <1>3 DEF FinalizeWrite, OfOrder
  <2>2. /\ SendRow(db, req[r]) /\ Head(req[r].pc) = "finalizeWrite"
        /\ req[r].op = "finalizeOrder" => Len(req[r].pc) = 1
        /\ req[r].op = "sendOrder" => Len(req[r].pc) # 1 /\ Head(Tail(req[r].pc)) = "prepare"
    <3>1. "finalizeWrite" \in DOMAIN SendNext /\ SendNext["finalizeWrite"] = "prepare"
      BY DEF SendNext
    <3> QED BY <2>1, <3>1, OrderRow DEF OrderOps
  <2>3. \A o : ~Carries(req[r], o) BY <2>2 DEF Carries, At
  <2>4. CASE Refuse(r) BY <2>1, <2>3, <2>4, ReplyEffect DEF Refuse, OrderOps
  <2>5. CASE ~Refuse(r)
    <3> DEFINE o == req[r].o
    <3>1. o \in Orders /\ db.order[o].trip # 0 BY <2>1, <2>2, <2>5 DEF SendRow, OrderExists
    <3>2. /\ OrderTables(db') /\ \A q : SendRow(db, q) => SendRow(db', q)
          /\ db'.order[o].status = "finalized" /\ db'.made.order = db.made.order
          /\ db'.mail = db.mail /\ \A p \in Orders : p # o => db'.order[p] = db.order[p]
      BY <2>1, <2>5, <3>1, WrittenOrder DEF Framed, OrdersOk
    <3>3. \A p : Took(db', p) <=> Took(db, p) BY <3>2 DEF Took
    <3>4. o <= db'.made.order BY <3>1, <3>2 DEF OrdersOk, OrderTables
    <3>5. ASSUME Undecided(db, req[r]) PROVE ~Took(db, o)
      BY <2>1, <2>2, <3>5, <3>1 DEF Undecided, OrdersOk, OrderTables
    <3>6. faults' = faults BY <2>1, <2>5, OrderFinishes DEF OrderOps
    <3>7. CASE req[r].op = "finalizeOrder"
      <4>1. req'[r] = Idle BY <2>1, <2>2, <2>5, <3>7, FinishesLast DEF OrderOps
      <4>2. SendRow(db', Idle) /\ Undecided(db', Idle) /\ ~At(Idle, {"provider"})
        BY IdleRow, IdleFacts DEF OrderOps
      <4>3. Undecided(db, req[r]) => \A p \in Orders : Unmarked(db', Idle, p) => Unmarked(db, req[r], p)
        BY <2>3, <3>2, <3>3, <3>5 DEF Unmarked
      <4> QED BY <3>2, <3>6, <4>1, <4>2, <4>3 DEF OrderEffect, Apart, OrdersOk
    <3>8. CASE req[r].op = "sendOrder"
      <4>1. Go(r, Next1(r)) BY <2>1, <2>2, <2>5, <3>8 DEF Finish
      <4>2. req'[r] = Next1(r) BY <4>1 DEF Go, Framed, Slotted
      <4>3. Next1(r).op = "sendOrder" /\ Head(Next1(r).pc) = "prepare" /\ Next1(r).o = o
        BY <2>2, <3>8, NextSlot
      <4>4. SendRow(db', Next1(r)) /\ Undecided(db', Next1(r)) /\ ~At(Next1(r), {"provider"})
        BY <3>1, <3>2, <3>4, <4>3 DEF SendRow, Undecided, At
      <4>5. Undecided(db, req[r]) => \A p \in Orders : Unmarked(db', Next1(r), p) => Unmarked(db, req[r], p)
        BY <2>3, <3>2, <3>3, <3>5 DEF Unmarked
      <4> QED BY <3>2, <3>6, <4>2, <4>4, <4>5 DEF OrderEffect, Apart, OrdersOk
    <3> QED BY <2>1, <3>7, <3>8
  <2> QED BY <2>4, <2>5
<1> QED BY <1>1, <1>2, <1>3

LEMMA SendEffect ==
    ASSUME Framed, OrdersOk, NEW r \in Requests, faults \in Nat,
           SendTripOrder(r) \/ SendGet(r) \/ SendPrepare(r) \/ MarkSentFind(r)
    PROVE  OrderEffect(r)
<1>1. CASE SendTripOrder(r)
  <2> DEFINE pc == <<"get", "prepare", "log", "provider", "markLog", "markFind", "markWrite">>
  <2>1. PICK o \in Orders : Arrive(r, [Idle EXCEPT !.op = "sendOrder", !.o = o, !.pc = pc])
    BY <1>1, Zenon DEF SendTripOrder
  <2> DEFINE row == [Idle EXCEPT !.op = "sendOrder", !.o = o, !.pc = pc]
  <2>2. row.op = "sendOrder" /\ row.o \in Orders /\ Arrive(r, row) /\ row.pc = pc
    BY <2>1, IdleFacts
  <2>3. Head(pc) = "get" OBVIOUS
  <2> HIDE DEF row, pc
  <2> QED BY <2>2, <2>3, ArriveEffect
<1>2. CASE SendGet(r)
  <2>1. Due(r, "sendOrder", "get") BY <1>2 DEF SendGet
  <2>2. /\ SendRow(db, req[r]) /\ Head(req[r].pc) = "get" /\ Tail(req[r].pc) = SendSteps
        /\ req[r].op = "sendOrder" /\ req[r].o \in Orders
    BY <2>1, OrderRow DEF SendNext, OrderOps, SendRow
  <2>3. \A o : ~Carries(req[r], o) BY <2>2 DEF Carries, At
  <2>4. CASE Refuse(r) BY <2>2, <2>3, <2>4, ReplyEffect DEF Refuse, OrderOps
  <2>5. CASE ~Refuse(r)
    <3> DEFINE o == req[r].o
    <3>1. OrderExists(o) BY <1>2, <2>5 DEF SendGet
    <3>2. PICK t, pc :
              /\ db.order[o].status = "draft" => pc = FinalizeSteps \o SendSteps
              /\ db.order[o].status # "draft" => pc = SendSteps
              /\ Go(r, [req[r] EXCEPT !.t = t, !.pc = pc]) /\ db' = db
      BY <1>2, <2>2, <2>5, SendingSteps, Zenon DEF SendGet
    <3> DEFINE row == [req[r] EXCEPT !.t = t, !.pc = pc]
    <3>3. row.op = "sendOrder" /\ row.o = o /\ row.pc = pc /\ Go(r, row) /\ db' = db
      BY <2>2, <3>2, IdleFacts DEF Framed, Slotted
    <3> HIDE DEF row
    <3>4. Head(SendSteps) = "prepare" /\ Head(FinalizeSteps \o SendSteps) = "finalizeFind"
      <4>1. Head(SendSteps) = "prepare" BY DEF SendSteps
      <4>2. Head(<<"finalizeFind", "finalizeWrite", "prepare", "log", "provider", "markLog",
                   "markFind", "markWrite">>) = "finalizeFind"
        OBVIOUS
      <4> QED BY <4>1, <4>2, SendingSteps
    <3>5. \/ Head(row.pc) = "finalizeFind"
          \/ Head(row.pc) = "prepare" /\ db.order[o].status # "draft"
      BY <3>2, <3>3, <3>4
    <3>6. o <= db.made.order /\ o \in Orders
      BY <2>2, <3>1 DEF OrdersOk, OrderTables, OrderExists
    <3>7. SendRow(db, row) /\ Undecided(db, row) /\ ~At(row, {"provider"})
      BY <3>3, <3>5, <3>6 DEF SendRow, Undecided, At
    <3> QED BY <2>3, <3>3, <3>7, NextEffect
  <2> QED BY <2>4, <2>5
<1>3. CASE SendPrepare(r)
  <2>1. /\ Due(r, "sendOrder", "prepare")
        /\ (Go(r, Next1(r)) /\ db' = db) \/ (Reply(r, "ok") /\ db' = db) \/ Refuse(r)
    BY <1>3 DEF SendPrepare
  <2>2. /\ SendRow(db, req[r]) /\ Head(req[r].pc) = "prepare" /\ Head(Tail(req[r].pc)) = "log"
        /\ req[r].op = "sendOrder"
    <3>1. "prepare" \in DOMAIN SendNext /\ SendNext["prepare"] = "log" BY DEF SendNext
    <3> QED BY <2>1, <3>1, OrderRow DEF OrderOps
  <2>3. \A o : ~Carries(req[r], o) BY <2>2 DEF Carries, At
  <2>4. SendRow(db, Next1(r)) /\ Undecided(db, Next1(r)) /\ ~At(Next1(r), {"provider"})
    BY <2>2, NextSlot DEF SendRow, Undecided, At
  <2>5. CASE Go(r, Next1(r)) /\ db' = db BY <2>3, <2>4, <2>5, NextEffect
  <2>6. CASE (Reply(r, "ok") /\ db' = db) \/ Refuse(r)
    BY <2>2, <2>3, <2>6, ReplyEffect DEF Refuse, OrderOps
  <2> QED BY <2>1, <2>5, <2>6
<1>4. CASE MarkSentFind(r)
  <2>1. /\ Due(r, "sendOrder", "markFind")
        /\ \/ Go(r, Next1(r)) /\ db' = db
           \/ db.order[req[r].o].status \notin {"finalized", "sent"} /\ Refuse(r)
    BY <1>4 DEF MarkSentFind
  <2>2. /\ SendRow(db, req[r]) /\ Head(req[r].pc) = "markFind" /\ Head(Tail(req[r].pc)) = "markWrite"
        /\ req[r].op = "sendOrder" /\ req[r].o \in Orders
    <3>1. "markFind" \in DOMAIN SendNext /\ SendNext["markFind"] = "markWrite" BY DEF SendNext
    <3> QED BY <2>1, <3>1, OrderRow DEF OrderOps, SendRow
  <2>3. SendRow(db, Next1(r)) /\ Undecided(db, Next1(r)) /\ ~At(Next1(r), {"provider"})
    BY <2>2, NextSlot DEF SendRow, Undecided, At
  <2>4. \A o : Carries(req[r], o) => Carries(Next1(r), o) BY <2>2, NextSlot DEF Carries, At
  <2>5. CASE Go(r, Next1(r)) /\ db' = db BY <2>3, <2>4, <2>5, NextEffect
  <2>6. CASE db.order[req[r].o].status \notin {"finalized", "sent"} /\ Refuse(r)
    <3>1. db.order[req[r].o].status = "none" BY <2>2, <2>6 DEF SendRow, OrdersOk, OrderTables
    <3>2. \A o \in Orders : Carries(req[r], o) => db.order[o].status \in {"none", "sent"}
      BY <3>1 DEF Carries
    <3> QED BY <2>2, <2>6, <3>2, ReplyEffect DEF Refuse, OrderOps
  <2> QED BY <2>1, <2>5, <2>6
<1> QED BY <1>1, <1>2, <1>3, <1>4

LEMMA MarkEffect ==
    ASSUME Framed, OrdersOk, NEW r \in Requests, faults \in Nat, MarkSentWrite(r)
    PROVE  OrderEffect(r)
<1> DEFINE o == req[r].o
<1>1. /\ Due(r, "sendOrder", "markWrite")
      /\ \/ /\ OrderExists(o) /\ Finish(r)
            /\ db' = [db EXCEPT !.order[o].status = "sent"]
         \/ ~OrderExists(o) /\ Refuse(r)
  BY DEF MarkSentWrite
<1>2. /\ SendRow(db, req[r]) /\ Head(req[r].pc) = "markWrite" /\ Len(req[r].pc) = 1
      /\ req[r].op = "sendOrder" /\ o \in Orders /\ Took(db, o)
  BY <1>1, OrderRow DEF SendNext, OrderOps, SendRow, At
<1>3. \A p : Carries(req[r], p) => p = o BY DEF Carries
<1>4. CASE ~OrderExists(o) /\ Refuse(r)
  BY <1>2, <1>4, <1>3, ReplyEffect DEF OrderExists, OrdersOk, OrderTables, Refuse, OrderOps
<1>5. CASE /\ OrderExists(o) /\ Finish(r)
           /\ db' = [db EXCEPT !.order[o].status = "sent"]
  <2>1. /\ OrderTables(db') /\ \A q : SendRow(db, q) => SendRow(db', q)
        /\ db'.order[o].status = "sent" /\ db'.made.order = db.made.order
        /\ db'.mail = db.mail /\ \A p \in Orders : p # o => db'.order[p] = db.order[p]
    BY <1>2, <1>5, WrittenOrder DEF Framed, OrdersOk, OrderExists
  <2>2. \A p : Took(db', p) <=> Took(db, p) BY <2>1 DEF Took
  <2>3. req'[r] = Idle /\ faults' = faults BY <1>2, <1>5, FinishesLast DEF OrderOps
  <2>4. SendRow(db', Idle) /\ Undecided(db', Idle) /\ ~At(Idle, {"provider"})
    BY IdleRow, IdleFacts DEF OrderOps
  <2>5. \A p \in Orders : Unmarked(db', Idle, p) => Unmarked(db, req[r], p)
    BY <1>3, <2>1, <2>2 DEF Unmarked
  <2> QED BY <2>1, <2>3, <2>4, <2>5 DEF OrderEffect, Apart, OrdersOk
<1> QED BY <1>1, <1>4, <1>5

LEMMA MailEffect ==
    ASSUME Framed, OrdersOk, NEW r \in Requests, faults \in Nat,
           SendEmailLog(r) \/ SendEmailFiltered(r)
    PROVE  OrderEffect(r)
<1>1. CASE SendEmailLog(r)
  <2> DEFINE o == req[r].o
             s == Len(db.mail) + 1
  <2>1. Due(r, "sendOrder", "log") BY <1>1, Zenon DEF SendEmailLog
  <2>2. /\ SendRow(db, req[r]) /\ Head(req[r].pc) = "log" /\ Head(Tail(req[r].pc)) = "provider"
        /\ req[r].op = "sendOrder" /\ o \in Orders /\ o <= db.made.order
        /\ db.order[o].status # "draft"
    <3>1. "log" \in DOMAIN SendNext /\ SendNext["log"] = "provider" BY DEF SendNext
    <3> QED BY <2>1, <3>1, OrderRow DEF OrderOps, SendRow
  <2>3. \A p : ~Carries(req[r], p) BY <2>2 DEF Carries, At
  <2>4. CASE Refuse(r) BY <2>2, <2>3, <2>4, ReplyEffect DEF Refuse, OrderOps
  <2>5. CASE ~Refuse(r)
    <3>1. PICK pc :
              /\ pc \in {<<"filtered">>, Tail(req[r].pc)}
              /\ Go(r, [req[r] EXCEPT !.s = s, !.pc = pc])
      BY <1>1, <2>5, Zenon DEF SendEmailLog
    <3>2. db' = [db EXCEPT !.mail = Append(@, [order |-> o, log |-> "pending", accepted |-> FALSE])]
      BY <1>1, <2>5, Zenon DEF SendEmailLog
    <3> DEFINE row == [req[r] EXCEPT !.s = s, !.pc = pc]
    <3>3. row.op = "sendOrder" /\ row.o = o /\ row.pc = pc /\ Go(r, row) /\ row.s = s
      BY <2>2, <3>1, IdleFacts DEF Framed, Slotted
    <3> HIDE DEF row
    <3>4. req'[r] = row /\ faults' = faults BY <3>3 DEF Go, Framed, Slotted
    <3>5. Head(<<"filtered">>) = "filtered" OBVIOUS
    <3>6. Head(row.pc) \in {"filtered", "provider"} BY <2>2, <3>1, <3>3, <3>5
    <3>7. /\ OrderTables(db') /\ \A q : SendRow(db, q) => SendRow(db', q)
          /\ db'.order = db.order /\ db'.made = db.made /\ \A p : Took(db', p) <=> Took(db, p)
          /\ s \in DOMAIN db'.mail /\ s \notin DOMAIN db.mail
          /\ db'.mail[s].order = o /\ ~db'.mail[s].accepted /\ db'.mail[s].log = "pending"
      <4> DEFINE mail == [order |-> o, log |-> "pending", accepted |-> FALSE]
      <4>1. db' = [db EXCEPT !.mail = Append(@, mail)] BY <3>2
      <4>2. mail \in MailRows /\ mail.order = o /\ mail.log = "pending" /\ ~mail.accepted
        BY <2>2 DEF MailRows
      <4> HIDE DEF mail
      <4>3. db'.mail = Append(db.mail, mail) /\ db'.order = db.order /\ db'.made = db.made
        BY <4>1 DEF Framed, Tabled, Fields
      <4>4. OrderTables(db) /\ o \in Orders /\ o <= db.made.order BY <2>2 DEF OrdersOk
      <4> HIDE DEF o
      <4> QED BY <4>2, <4>3, <4>4, AppendedMail
    <3>8. SendRow(db', row) /\ Undecided(db', row)
      BY <2>2, <3>3, <3>6, <3>7 DEF SendRow, Undecided, At
    <3>9. \A q \in Requests : At(req[q], {"provider"}) => req[q].s # s
      BY <3>7 DEF OrdersOk, SendRow, At
    <3>10. \A p \in Orders : Unmarked(db', row, p) => Unmarked(db, req[r], p)
      BY <2>3, <3>7 DEF Unmarked
    <3> QED BY <3>3, <3>4, <3>7, <3>8, <3>9, <3>10 DEF OrderEffect, Apart, OrdersOk
  <2> QED BY <2>4, <2>5
<1>2. CASE SendEmailFiltered(r)
  <2> DEFINE s == req[r].s
  <2>1. /\ Due(r, "sendOrder", "filtered") /\ Reply(r, "ok")
        /\ db' = [db EXCEPT !.mail[s].log = "filtered"]
    BY <1>2 DEF SendEmailFiltered
  <2>2. /\ Head(req[r].pc) = "filtered" /\ req[r].op = "sendOrder" /\ s \in DOMAIN db.mail
    BY <2>1, OrderRow DEF OrderOps, SendRow, At
  <2>3. /\ OrderTables(db') /\ \A q : SendRow(db, q) => SendRow(db', q)
        /\ db'.order = db.order /\ db'.made = db.made /\ \A p : Took(db', p) <=> Took(db, p)
    BY <2>1, <2>2, LoggedMail DEF Framed, OrdersOk
  <2>4. req'[r] = Idle /\ faults' = faults BY <2>1, <2>2, RepliesAs DEF OrderOps
  <2>5. SendRow(db', Idle) /\ Undecided(db', Idle) /\ ~At(Idle, {"provider"})
    BY IdleRow, IdleFacts DEF OrderOps
  <2>6. \A p \in Orders : Unmarked(db', Idle, p) => Unmarked(db, req[r], p)
    BY <2>2, <2>3 DEF Unmarked, Carries, At
  <2> QED BY <2>3, <2>4, <2>5, <2>6 DEF OrderEffect, Apart, OrdersOk
<1> QED BY <1>1, <1>2

LEMMA ProviderEffect ==
    ASSUME Framed, OrdersOk, NEW r \in Requests, faults \in Nat, ProviderSend(r)
    PROVE  OrderEffect(r)
<1> DEFINE o == req[r].o
           s == req[r].s
<1>1. PICK accepted, told :
          /\ accepted \in BOOLEAN /\ (told => accepted)
          /\ db' = [db EXCEPT !.mail[s].accepted = accepted]
          /\ req' = [req EXCEPT ![r] = [Next1(r) EXCEPT !.flag = told]]
          /\ faults' = IF accepted /\ ~told THEN faults + 1 ELSE faults
  BY DEF ProviderSend
<1>2. /\ SendRow(db, req[r]) /\ Head(req[r].pc) = "provider" /\ Head(Tail(req[r].pc)) = "markLog"
      /\ req[r].op = "sendOrder"
  <2>1. "provider" \in DOMAIN SendNext /\ SendNext["provider"] = "markLog" BY DEF SendNext
  <2>2. Due(r, "sendOrder", "provider") BY DEF ProviderSend
  <2> QED BY <2>1, <2>2, OrderRow DEF OrderOps
<1>3. /\ o \in Orders /\ o <= db.made.order /\ db.order[o].status # "draft" /\ s \in DOMAIN db.mail
      /\ db.mail[s].order = o /\ ~db.mail[s].accepted /\ db.mail[s].log # "sent"
  BY <1>2 DEF SendRow, At
<1> DEFINE row == [Next1(r) EXCEPT !.flag = told]
<1>4. /\ row.op = "sendOrder" /\ row.o = o /\ row.s = s /\ row.flag = told
      /\ Head(row.pc) = "markLog"
  BY <1>2, NextSlot, IdleFacts
<1>5. req'[r] = row BY <1>1 DEF Framed, Slotted
<1> HIDE DEF row
<1>6. /\ OrderTables(db')
      /\ \A q : SendRow(db, q) /\ (At(q, {"provider"}) => q.s # s) => SendRow(db', q)
      /\ db'.order = db.order /\ db'.made = db.made /\ DOMAIN db'.mail = DOMAIN db.mail
      /\ db'.mail[s].accepted = accepted /\ db'.mail[s].order = db.mail[s].order
      /\ \A p : Took(db', p) <=> Took(db, p) \/ (accepted /\ p = db.mail[s].order)
  <2>1. db.order[db.mail[s].order].status # "draft" /\ Tabled(db) /\ OrderTables(db)
    BY <1>3 DEF Framed, OrdersOk
  <2> HIDE DEF o, s
  <2> QED BY <1>1, <1>3, <2>1, OfferedMail
<1>7. \A q \in Requests \ {r} : SendRow(db', req[q])
  BY <1>2, <1>6 DEF At, OrdersOk, SendsApart
<1>8. SendRow(db', row) /\ Undecided(db', row) /\ ~At(row, {"provider"})
  BY <1>1, <1>3, <1>4, <1>6 DEF SendRow, Undecided, At
<1>9. faults' \in Nat /\ (faults' = 0 => faults = 0 /\ (accepted => told)) BY <1>1
<1>10. \A p : ~Carries(req[r], p) BY <1>2 DEF Carries, At
<1>11. faults' = 0 => \A p \in Orders : Unmarked(db', row, p) => Unmarked(db, req[r], p)
  <2> SUFFICES ASSUME faults' = 0, NEW p \in Orders, Unmarked(db', row, p)
               PROVE  Unmarked(db, req[r], p)
    OBVIOUS
  <2>1. ~(accepted /\ p = o) BY <1>4, <1>9 DEF Unmarked, Carries, At
  <2>2. Took(db, p) BY <1>3, <1>6, <2>1 DEF Unmarked
  <2> QED BY <1>6, <1>10, <2>2 DEF Unmarked
<1> QED BY <1>5, <1>6, <1>7, <1>8, <1>9, <1>11 DEF OrderEffect, Apart

LEMMA LogEffect ==
    ASSUME Framed, OrdersOk, NEW r \in Requests, faults \in Nat, SendEmailMark(r)
    PROVE  OrderEffect(r)
<1> DEFINE o == req[r].o
           s == req[r].s
<1>1. /\ SendRow(db, req[r]) /\ Head(req[r].pc) = "markLog" /\ Head(Tail(req[r].pc)) = "markFind"
      /\ req[r].op = "sendOrder"
  <2>1. "markLog" \in DOMAIN SendNext /\ SendNext["markLog"] = "markFind" BY DEF SendNext
  <2>2. Due(r, "sendOrder", "markLog") BY DEF SendEmailMark
  <2> QED BY <2>1, <2>2, OrderRow DEF OrderOps
<1>2. /\ o \in Orders /\ o <= db.made.order /\ db.order[o].status # "draft" /\ s \in DOMAIN db.mail
      /\ db.mail[s].order = o /\ (req[r].flag => db.mail[s].accepted)
  BY <1>1 DEF SendRow, At
<1>3. CASE /\ req[r].flag /\ db' = [db EXCEPT !.mail[s].log = "sent"] /\ Go(r, Next1(r))
  <2>1. /\ OrderTables(db') /\ \A q : SendRow(db, q) => SendRow(db', q)
        /\ db'.order = db.order /\ db'.made = db.made /\ \A p : Took(db', p) <=> Took(db, p)
    BY <1>2, <1>3, LoggedMail DEF Framed, OrdersOk
  <2>2. req'[r] = Next1(r) /\ faults' = faults BY <1>3 DEF Go, Framed, Slotted
  <2>3. Next1(r).op = "sendOrder" /\ Next1(r).o = o /\ Head(Next1(r).pc) = "markFind"
    BY <1>1, NextSlot
  <2>4. Took(db, o) BY <1>2, <1>3 DEF Took
  <2>5. SendRow(db', Next1(r)) /\ Undecided(db', Next1(r)) /\ ~At(Next1(r), {"provider"})
    BY <1>2, <2>1, <2>3, <2>4 DEF SendRow, Undecided, At
  <2>6. \A p \in Orders : Unmarked(db', Next1(r), p) => Unmarked(db, req[r], p)
    BY <1>1, <2>1, <2>3 DEF Unmarked, Carries, At
  <2> QED BY <2>1, <2>2, <2>5, <2>6 DEF OrderEffect, Apart, OrdersOk
<1>4. CASE /\ ~req[r].flag /\ db' = [db EXCEPT !.mail[s].log = "failed"] /\ Reply(r, "ok")
  <2>1. /\ OrderTables(db') /\ \A q : SendRow(db, q) => SendRow(db', q)
        /\ db'.order = db.order /\ db'.made = db.made /\ \A p : Took(db', p) <=> Took(db, p)
    BY <1>2, <1>4, LoggedMail DEF Framed, OrdersOk
  <2>2. req'[r] = Idle /\ faults' = faults BY <1>1, <1>4, RepliesAs DEF OrderOps
  <2>3. SendRow(db', Idle) /\ Undecided(db', Idle) /\ ~At(Idle, {"provider"})
    BY IdleRow, IdleFacts DEF OrderOps
  <2>4. \A p \in Orders : Unmarked(db', Idle, p) => Unmarked(db, req[r], p)
    BY <1>1, <1>4, <2>1 DEF Unmarked, Carries, At
  <2> QED BY <2>1, <2>2, <2>3, <2>4 DEF OrderEffect, Apart, OrdersOk
<1>5. CASE req' = [req EXCEPT ![r].flag = FALSE] /\ faults' = faults + 1 /\ db' = db
  <2> DEFINE row == [req[r] EXCEPT !.flag = FALSE]
  <2>1. req'[r] = row BY <1>5 DEF Framed, Slotted
  <2>2. /\ row.op = "sendOrder" /\ row.o = o /\ row.s = s /\ ~row.flag /\ row.pc = req[r].pc
    BY <1>1, IdleFacts DEF Framed, Slotted
  <2> HIDE DEF row
  <2>3. SendRow(db, row) /\ Undecided(db, row) /\ ~At(row, {"provider"})
    BY <1>1, <1>2, <2>2 DEF SendRow, Undecided, At
  <2>4. faults' \in Nat /\ faults' # 0 BY <1>5
  <2> QED BY <1>5, <2>1, <2>3, <2>4 DEF OrderEffect, Apart, OrdersOk
<1> QED BY <1>3, <1>4, <1>5 DEF SendEmailMark

LEMMA OrderStepEffect ==
    ASSUME Framed, OrdersOk, NEW r \in Requests, faults \in Nat, OrderStep(r)
    PROVE  OrderEffect(r)
BY GenerateEffect, FinalizeEffect, SendEffect, MarkEffect, MailEffect, ProviderEffect, LogEffect
   DEF OrderStep

-----------------------------------------------------------------------------
(* Every step keeps the orders in order                                      *)

\* Requests that do not overlap: one about trips or orders has them to itself.
Alone == env.isolated => \A q, r \in Requests : Tripping(req[q]) /\ Tripping(req[r]) => q = r

\* When nothing failed and requests do not overlap, an order that went out and is not marked is
\* one that its request is about to mark.
Marked ==
    env.isolated =>
        /\ \A r \in Requests : Undecided(db, req[r])
        /\ faults = 0 => \A o \in Orders :
              Took(db, o) => \/ db.order[o].status \in {"none", "sent"}
                             \/ \E r \in Requests : Carries(req[r], o)

OrderBook == Framed /\ OrdersOk /\ faults \in Nat /\ Alone /\ Marked

LEMMA AloneAfter ==
    ASSUME Alone, NEW r \in Requests, env' = env, \A q \in Requests \ {r} : req'[q] = req[q],
           \/ ~Tripping(req'[r])
           \/ Tripping(req[r])
           \/ env.isolated => \A q \in Requests : req[q] = Idle
    PROVE  Alone'
<1>1. ~Tripping(Idle) BY IdleFacts DEF Tripping, TripOps, OrderOps
<1> QED BY <1>1 DEF Alone, Tripping

\* Who comes when requests do not overlap finds the others idle.
LEMMA ComesAlone ==
    ASSUME NEW r \in Requests, req[r].op = "idle", TripStep(r) \/ OrderStep(r), env.isolated
    PROVE  \A q \in Requests : req[q] = Idle
<1>1. ASSUME TripStep(r) PROVE \E row : Arrive(r, row)
  BY <1>1, Zenon DEF TripStep, CreateTrip, CreateTripInsert, UpdateTrip, UpdateTripFind, UpdateTripWrite,
       UpdateTripGroup, RemoveTrip, RemoveTripFind, RemoveTripDelete, BulkDelete, BulkArchive,
       BulkChangeStatus, BulkRequest, BulkRead, BulkDeleteEach, BulkArchiveEach,
       BulkChangeStatusEach,
       BulkEnd, PublishTrip, PublishTripFind, PublishTripWrite, UnpublishTrip, UnpublishTripWrite,
       Due
<1>2. ASSUME OrderStep(r) PROVE \E row : Arrive(r, row)
  BY <1>2, Zenon DEF OrderStep, GenerateTripOrderSnapshot, GenerateReadTrip, GenerateNextVersion,
       GenerateInsert, FinalizeTripOrder, FinalizeFind, FinalizeWrite, OfOrder, SendTripOrder,
       SendGet, SendPrepare, SendEmailLog, SendEmailFiltered, ProviderSend, SendEmailMark,
       MarkSentFind, MarkSentWrite, Due
<1> QED BY <1>1, <1>2 DEF Arrive

-----------------------------------------------------------------------------
(* The segments of a flight are those of one save                            *)

OneSave == \A a \in Acts : \E n : \A w \in db.segments[a] : w[2] = n

LEMMA InitFramed == ASSUME Init PROVE Framed /\ OneSave
<1>1. Slotted(req) /\ \A r \in Requests : req[r] = Idle BY DEF Init, StartsFrom, Slotted
<1>2. \A r \in Requests : Course(req[r]) /\ SavesOnce(req[r])
  BY <1>1, IdleFacts DEF Course, SavesOnce, Tripping, TripOps, OrderOps
<1>3. Tabled(db) BY DEF Init, StartsFrom, Tabled, Fields, Counters
<1>4. \A a \in Acts : db.segments[a] = SegmentsOf(0) \/ db.segments[a] = {}
  BY DEF Init, StartsFrom
<1>5. OneSave BY <1>4 DEF OneSave, SegmentsOf
<1> QED BY <1>1, <1>2, <1>3, <1>5 DEF Framed

LEMMA OneSaveStep == ASSUME Framed, OneSave, [Next]_vars PROVE OneSave'
<1>1. ASSUME FewerSegments(db, db') PROVE OneSave' BY <1>1 DEF FewerSegments, OneSave
<1>2. ASSUME NEW r \in Requests, InsertSegments(r) PROVE OneSave'
  BY <1>2, InsertSegmentsMoves DEF OneSave
<1>3. ASSUME db'.segments = db.segments PROVE OneSave' BY <1>3 DEF OneSave
<1> QED
  BY <1>1, <1>2, <1>3, Steps, TripStepMoves, OrderStepMoves, HandlerWrites, DiesMoves
     DEF PlanStep, PlanWrite, TripWrite, OrderWrite, FormEffect, vars

\* SegmentsOfOneSave: however saves of one flight overlap or break off, its segments are those
\* of one of them.
THEOREM FlightSegments == Spec => []SegmentsOfOneSave
<1>1. Framed /\ OneSave => SegmentsOfOneSave
  <2> SUFFICES ASSUME OneSave, NEW a \in Acts
               PROVE  Cardinality({w[2] : w \in db.segments[a]}) <= 1
    BY DEF SegmentsOfOneSave
  <2>1. PICK n : \A w \in db.segments[a] : w[2] = n BY DEF OneSave
  <2> DEFINE saves == {w[2] : w \in db.segments[a]}
  <2>2. saves = {} \/ saves = {n} BY <2>1
  <2> HIDE DEF saves
  <2>3. Cardinality(saves) \in {0, 1} BY <2>2, FS_EmptySet, FS_Singleton
  <2> QED BY <2>3 DEF saves
<1>2. Init => Framed /\ OneSave BY InitFramed
<1>3. Framed /\ OneSave /\ [Next]_vars => (Framed /\ OneSave)' BY FramedStep, OneSaveStep
<1> QED BY <1>1, <1>2, <1>3, PTL DEF Spec

\* The orders, their mails and the requests about them stay as they are.
LEMMA OrdersKept ==
    ASSUME OrdersOk, OrderTables(db'), \A q : SendRow(db, q) => SendRow(db', q),
           NEW r \in Requests, \A q \in Requests \ {r} : req'[q] = req[q],
           req'[r] = req[r] \/ req'[r].op \notin OrderOps
    PROVE  OrdersOk'
<1>1. \A q \in Requests : SendRow(db', req'[q]) BY IdleRow DEF OrdersOk
<1>2. \A q \in Requests : At(req'[q], {"provider"}) => req'[q] = req[q] BY IdleRow
<1> QED BY <1>1, <1>2 DEF OrdersOk, SendsApart

LEMMA OrdersChange ==
    ASSUME OrdersOk, NEW r \in Requests, OrderEffect(r), \A q \in Requests \ {r} : req'[q] = req[q]
    PROVE  OrdersOk'
<1>1. \A q \in Requests : SendRow(db', req'[q]) BY DEF OrderEffect
<1>2. SendsApart' BY DEF OrderEffect, OrdersOk, SendsApart, Apart
<1> QED BY <1>1, <1>2 DEF OrdersOk, OrderEffect

LEMMA MarkedStays ==
    ASSUME Marked, Framed, env' = env, faults' = faults, NEW r \in Requests,
           \A q \in Requests \ {r} : req'[q] = req[q],
           req'[r] = req[r] \/ (~Tripping(req[r]) /\ ~Tripping(req'[r])),
           \A o \in Orders : /\ Took(db', o) => Took(db, o)
                             /\ db'.order[o] = db.order[o] \/ db'.order[o].status = "none",
           \A q \in Requests : SendRow(db, req[q])
    PROVE  Marked'
<1> SUFFICES ASSUME env.isolated PROVE Marked' BY DEF Marked
<1>1. \A q \in Requests : req'[q] = req[q] \/ (req[q].op \notin OrderOps /\ req'[q].op \notin OrderOps)
  BY DEF Tripping
<1>2. \A q \in Requests : Undecided(db', req'[q])
  <2> SUFFICES ASSUME NEW q \in Requests PROVE Undecided(db', req'[q]) OBVIOUS
  <2>1. CASE req'[q].op \notin OrderOps BY <2>1, IdleRow
  <2>2. CASE req'[q] = req[q] BY <2>2 DEF Marked, Undecided, SendRow
  <2> QED BY <1>1, <2>1, <2>2
<1>3. \A q \in Requests, o \in Orders : Carries(req[q], o) => Carries(req'[q], o)
  BY <1>1, IdleRow
<1>4. ASSUME faults' = 0, NEW o \in Orders, Took(db', o)
      PROVE  db'.order[o].status \in {"none", "sent"} \/ \E q \in Requests : Carries(req'[q], o)
  BY <1>3, <1>4 DEF Marked
<1> QED BY <1>2, <1>4 DEF Marked

LEMMA MarkedChanges ==
    ASSUME Marked, Framed, env' = env, NEW r \in Requests, OrderEffect(r),
           \A q \in Requests \ {r} : req'[q] = req[q],
           Alone, Tripping(req[r]) \/ (env.isolated => \A q \in Requests : req[q] = Idle)
    PROVE  Marked'
<1> SUFFICES ASSUME env.isolated PROVE Marked' BY DEF Marked
<1>1. \A q \in Requests \ {r} : req[q].op \notin OrderOps
  BY IdleFacts DEF Alone, Tripping, OrderOps
<1>2. \A q \in Requests : Undecided(db', req'[q]) BY <1>1, IdleRow DEF OrderEffect
<1>3. \A o \in Orders, q \in Requests \ {r} : ~Carries(req[q], o) BY <1>1, IdleRow
<1>4. ASSUME faults' = 0, NEW o \in Orders, Took(db', o)
      PROVE  db'.order[o].status \in {"none", "sent"} \/ \E q \in Requests : Carries(req'[q], o)
  <2>1. CASE ~Unmarked(db', req'[r], o) BY <1>4, <2>1 DEF Unmarked
  <2>2. CASE Unmarked(db', req'[r], o)
    BY <1>4, <2>2, <1>3 DEF OrderEffect, Marked, Unmarked
  <2> QED BY <2>1, <2>2
<1> QED BY <1>2, <1>4 DEF Marked

LEMMA OrderBookStep == ASSUME OrderBook, [Next]_vars PROVE OrderBook'
<1>0. Framed' /\ Framed /\ OrdersOk /\ faults \in Nat /\ Alone /\ Marked
  BY FramedStep DEF OrderBook
<1>a. OrderTables(db) /\ \A q \in Requests : SendRow(db, req[q]) BY <1>0 DEF OrdersOk
<1>1. ASSUME NEW r \in Requests, TripStep(r), env' = env PROVE OrderBook'
  <2>1. Moved(r, TripOps) /\ TripWrite(db, db') /\ faults' = faults BY <1>0, <1>1, TripStepMoves
  <2>2. /\ \A q \in Requests \ {r} : req'[q] = req[q]
        /\ req[r].op \notin OrderOps /\ req'[r].op \notin OrderOps
        /\ Tripping(req[r]) \/ req[r].op = "idle"
    BY <2>1 DEF Moved, TripOps, OrderOps, Tripping
  <2>3. Alone' BY <1>0, <1>1, <2>2, AloneAfter, ComesAlone
  <2>4. /\ OrderTables(db') /\ \A q : SendRow(db, q) => SendRow(db', q)
        /\ \A o \in Orders : /\ Took(db', o) => Took(db, o)
                             /\ db'.order[o] = db.order[o] \/ db'.order[o].status = "none"
    <3>1. \A o : Took(db', o) <=> Took(db, o) BY <2>1 DEF TripWrite, Took
    <3>2. CASE db'.order = db.order BY <1>a, <2>1, <3>1, <3>2, SameOrders DEF TripWrite
    <3>3. CASE \E x : db'.order = [o \in Orders |-> IF db.order[o].trip = x THEN NoOrder ELSE db.order[o]]
      BY <3>3, <1>a, <2>1, DroppedOrders, <3>1 DEF FewerOrders, TripWrite, NoOrder
    <3> QED BY <2>1, <3>2, <3>3 DEF TripWrite
  <2>5. OrdersOk' BY <1>0, <2>2, <2>4, OrdersKept
  <2>6. Marked'
    <3> SUFFICES ASSUME env.isolated PROVE Marked' BY <1>1 DEF Marked
    <3>1. \A q \in Requests : Undecided(db', req'[q])
      <4> SUFFICES ASSUME NEW q \in Requests PROVE Undecided(db', req'[q]) OBVIOUS
      <4>1. CASE q = r BY <2>2, <4>1, IdleRow
      <4>2. CASE q # r
        BY <1>0, <1>a, <1>1, <2>2, <4>2, <2>4 DEF Marked, Undecided, SendRow
      <4> QED BY <4>1, <4>2
    <3>2. \A q \in Requests, o \in Orders : Carries(req[q], o) => Carries(req'[q], o)
      BY <2>2, IdleRow
    <3>3. ASSUME faults' = 0, NEW o \in Orders, Took(db', o)
          PROVE  db'.order[o].status \in {"none", "sent"} \/ \E q \in Requests : Carries(req'[q], o)
      BY <1>0, <2>1, <2>4, <3>2, <3>3 DEF Marked
    <3> QED BY <3>1, <3>3 DEF Marked
  <2> QED BY <1>0, <2>1, <2>3, <2>5, <2>6 DEF OrderBook
<1>2. ASSUME NEW r \in Requests, OrderStep(r), env' = env PROVE OrderBook'
  <2>1. Moved(r, OrderOps) /\ OrderEffect(r) BY <1>0, <1>2, OrderStepMoves, OrderStepEffect
  <2>2. /\ \A q \in Requests \ {r} : req'[q] = req[q]
        /\ Tripping(req[r]) \/ req[r].op = "idle"
    BY <2>1 DEF Moved, Tripping
  <2>3. Tripping(req[r]) \/ (env.isolated => \A q \in Requests : req[q] = Idle)
    BY <1>2, <2>2, ComesAlone
  <2>4. Alone' /\ OrdersOk' /\ Marked'
    BY <1>0, <1>2, <2>1, <2>2, <2>3, AloneAfter, OrdersChange, MarkedChanges
  <2> QED BY <1>0, <2>1, <2>4 DEF OrderBook, OrderEffect
<1>3. ASSUME NEW r \in Requests, PlanMove(r), SameTrips(db, db'), env' = env PROVE OrderBook'
  <2>1. /\ \A q \in Requests \ {r} : req'[q] = req[q]
        /\ ~Tripping(req[r]) /\ ~Tripping(req'[r]) /\ faults' = faults
    BY <1>3 DEF PlanMove
  <2>2. /\ OrderTables(db') /\ \A q : SendRow(db, q) => SendRow(db', q)
        /\ \A o : Took(db', o) <=> Took(db, o)
    BY <1>3, <1>a, SameOrders DEF SameTrips, Took
  <2>3. Alone' /\ OrdersOk' BY <1>0, <1>3, <2>1, <2>2, AloneAfter, OrdersKept DEF Tripping
  <2>4. Marked' BY <1>0, <1>3, <1>a, <2>1, <2>2, MarkedStays DEF SameTrips
  <2> QED BY <1>0, <2>1, <2>3, <2>4 DEF OrderBook
<1>4. ASSUME NEW r \in Requests, Die(r), env' = env PROVE OrderBook'
  <2>1. /\ \A q \in Requests \ {r} : req'[q] = req[q]
        /\ ~Tripping(req'[r]) /\ db' = db /\ faults' = faults + 1
    BY <1>0, <1>4, DiesMoves
  <2>2. Alone' /\ OrdersOk' BY <1>0, <1>4, <1>a, <2>1, AloneAfter, OrdersKept DEF Tripping
  <2>3. Marked'
    BY <2>1, IdleRow, <1>0, <1>4 DEF Tripping, Marked
  <2> QED BY <1>0, <2>1, <2>2, <2>3 DEF OrderBook
<1>5. ASSUME HandlerStep \/ FormEffect \/ UNCHANGED vars, env' = env PROVE OrderBook'
  <2>1. req' = req /\ db'.order = db.order /\ db'.mail = db.mail /\ db'.made = db.made
        /\ faults' \in Nat /\ (faults' = 0 => faults = 0)
    <3>1. CASE HandlerStep
      <4>1. faults' = faults \/ faults' = faults + 1
        BY <3>1 DEF HandlerStep, LogEvent, HandleTripBooked, SetFirstBookingDate, HandlerDies
      <4> QED BY <1>0, <3>1, <4>1, HandlerWrites
    <3>2. CASE FormEffect \/ UNCHANGED vars BY <1>0, <3>2 DEF FormEffect, vars
    <3> QED BY <1>5, <3>1, <3>2
  <2>2. /\ OrderTables(db') /\ \A q : SendRow(db, q) => SendRow(db', q)
        /\ \A o : Took(db', o) <=> Took(db, o)
    BY <1>a, <2>1, SameOrders DEF Took
  <2>3. Alone' /\ OrdersOk' BY <1>0, <1>5, <2>1, <2>2 DEF Alone, OrdersOk, SendsApart
  <2>4. Marked' BY <1>0, <1>5, <2>1, <2>2 DEF Marked, Undecided
  <2> QED BY <1>0, <2>1, <2>3, <2>4 DEF OrderBook
<1>6. CASE Next
  BY <1>0, <1>1, <1>2, <1>3, <1>4, <1>5, <1>6, Steps, InsertSegmentsMoves DEF PlanStep, PlanWrite
<1>7. CASE UNCHANGED vars BY <1>5, <1>7 DEF vars
<1> QED BY <1>6, <1>7

LEMMA InitOrders == ASSUME Init PROVE OrderBook
<1>1. /\ db.order = [o \in Orders |-> NoOrder] /\ db.mail = <<>> /\ db.made.order = 0
      /\ req = [r \in Requests |-> Idle] /\ faults = 0
  BY DEF Init, StartsFrom
<1>2. db.mail \in Seq(MailRows) /\ DOMAIN db.mail = {} /\ \A o : ~Took(db, o) BY <1>1 DEF Took
<1>3. OrderTables(db) BY <1>1, <1>2 DEF OrderTables, NoOrder
<1>4. \A r \in Requests : req[r] = Idle /\ Idle.op \notin OrderOps \cup TripOps
  BY <1>1, IdleFacts DEF OrderOps, TripOps
<1>5. \A r \in Requests : SendRow(db, req[r]) /\ Undecided(db, req[r]) /\ ~At(req[r], {"provider"})
  BY <1>4, IdleRow
<1>6. OrdersOk /\ Marked /\ Alone
  BY <1>2, <1>3, <1>4, <1>5 DEF OrdersOk, SendsApart, Marked, Alone, Tripping
<1> QED BY <1>1, <1>6, InitFramed DEF OrderBook

\* OrdersTruthful: versions are distinct, an order is marked as sent only when the provider took
\* it, one that went out is no draft, the log calls sent only what was taken, and when requests do
\* not overlap and nothing failed an order that went out is marked.
THEOREM TruthfulOrders == Spec => []OrdersTruthful
<1>1. OrderBook => OrdersTruthful
  <2> SUFFICES ASSUME OrderBook PROVE OrdersTruthful OBVIOUS
  <2>1. OrderTables(db) /\ Marked BY DEF OrderBook, OrdersOk
  <2>2. \A o, p \in Orders : o # p /\ OrderExists(o) /\ db.order[o].trip = db.order[p].trip
            => db.order[o].version # db.order[p].version
    BY <2>1 DEF OrderTables, OrderExists
  <2>3. ASSUME NEW o \in Orders
        PROVE  /\ db.order[o].status = "sent" => Took(db, o)
               /\ Took(db, o) => db.order[o].status # "draft"
               /\ Took(db, o) /\ env.isolated /\ Quiet /\ faults = 0
                    => db.order[o].status \in {"none", "sent"}
    BY IdleRow, IdleFacts, <2>1 DEF Quiet, OrderOps, OrderTables, Marked
  <2>4. \A m \in DOMAIN db.mail : db.mail[m].log = "sent" => db.mail[m].accepted
    BY <2>1 DEF OrderTables
  <2> QED BY <2>2, <2>3, <2>4 DEF OrdersTruthful, Took
<1>2. Init => OrderBook BY InitOrders
<1>3. OrderBook /\ [Next]_vars => OrderBook' BY OrderBookStep
<1> QED BY <1>1, <1>2, <1>3, PTL DEF Spec

-----------------------------------------------------------------------------
(* The rows of the trips                                                     *)

\* What holds of the rows depends on what clients send (e stands for env): nulls for dates, or
\* other contacts.
RowFields == {"status", "date", "contact", "archived", "published", "token", "group"}
TripRow(e, row) ==
    /\ DOMAIN row = RowFields /\ row.status \in {"none"} \cup TripStatuses
    /\ row.status = "none" => row = NoTrip
    /\ row.status = "booked" /\ "date" \notin e.patches => row.date # 0

\* A row keeps its id for ever, and no id is given twice.
TripTables(e, t) ==
    /\ DOMAIN t.trip = Trips /\ t.made.trip \in Nat
    /\ \A x \in Trips : TripRow(e, t.trip[x]) /\ (t.trip[x] # NoTrip => x <= t.made.trip)

\* Who books a trip dates it.
Dated(a, b) == b.status = "booked" /\ a.status # "booked" => b.date # 0

\* What may become of a row: it goes, or follows the workflow with the contact it has.
RowMove(e, a, b) ==
    \/ b = a \/ b = NoTrip
    \/ /\ a # NoTrip /\ b # NoTrip /\ Dated(a, b)
       /\ "contact" \notin e.patches => b.contact = a.contact
       /\ b.status \in {a.status} \cup TRIP_STATUS_TRANSITIONS[a.status]
OldRows(e, t, u) ==
    /\ t.made.trip <= u.made.trip
    /\ \A x \in Trips : x <= t.made.trip => RowMove(e, t.trip[x], u.trip[x])

LEMMA NoTripRow ==
    /\ TripRow(env, NoTrip) /\ NoTrip.status = "none" /\ NoTrip.contact = 0 /\ NoTrip.token = 0
    /\ ~NoTrip.published /\ DOMAIN NoTrip = RowFields
BY DEF NoTrip, TripRow, RowFields

\* Whoever is booked has never been a draft since.
LEMMA Workflow ==
    ASSUME NEW from \in TripStatuses, NEW to, to \in {from} \cup TRIP_STATUS_TRANSITIONS[from]
    PROVE  /\ to \in TripStatuses
           /\ to \in {"draft", "quoted"} => from \in {"draft", "quoted"}
           /\ to = "booked" => from \in {"draft", "quoted", "booked"}
<1>1. CASE from = "draft" BY <1>1 DEF TRIP_STATUS_TRANSITIONS, TripStatuses
<1>2. CASE from = "quoted" BY <1>2 DEF TRIP_STATUS_TRANSITIONS, TripStatuses
<1>3. CASE from = "booked" BY <1>3 DEF TRIP_STATUS_TRANSITIONS, TripStatuses
<1>4. CASE from = "in_progress" BY <1>4 DEF TRIP_STATUS_TRANSITIONS, TripStatuses
<1>5. CASE from = "completed" BY <1>5 DEF TRIP_STATUS_TRANSITIONS, TripStatuses
<1>6. CASE from = "cancelled" BY <1>6 DEF TRIP_STATUS_TRANSITIONS, TripStatuses
<1> QED BY <1>1, <1>2, <1>3, <1>4, <1>5, <1>6 DEF TripStatuses

LEMMA MovedRow ==
    ASSUME NEW a, NEW b, TripRow(env, a), RowMove(env, a, b)
    PROVE  /\ b # NoTrip => a # NoTrip /\ ("contact" \notin env.patches => b.contact = a.contact)
           /\ b.status \in {"draft", "quoted"} => a.status \in {"draft", "quoted"}
           /\ Dated(a, b)
<1>1. CASE b = a BY <1>1 DEF Dated
<1>2. CASE b = NoTrip BY <1>2, NoTripRow DEF Dated
<1>3. CASE /\ a # NoTrip /\ b # NoTrip /\ Dated(a, b)
           /\ "contact" \notin env.patches => b.contact = a.contact
           /\ b.status \in {a.status} \cup TRIP_STATUS_TRANSITIONS[a.status]
  BY <1>3, Workflow DEF TripRow
<1> QED BY <1>1, <1>2, <1>3 DEF RowMove

-----------------------------------------------------------------------------
(* What a request about trips has read of them                               *)

OneTripOps == {"updateTrip", "removeTrip", "publishTrip", "unpublishTrip"}
BulkOps == {"bulkDelete", "bulkArchive", "bulkStatus"}

\* A trip there was when the request read it, and its contact.
Known(e, t, x, contact) ==
    /\ x \in Trips /\ x <= t.made.trip
    /\ "contact" \notin e.patches /\ t.trip[x] # NoTrip => contact = t.trip[x].contact
AllKnown(e, t, seen) == \A w \in seen : Known(e, t, w[1], w[2])

\* An update sends what clients send.
Allowed(e, q) ==
    /\ "date" \notin e.patches => q.d # 0
    /\ "contact" \notin e.patches => \A c : ~Sets(q, "contact", c)

\* An update that does not book its trip has seen it booked: it is no draft any more.
Booking(t, q) ==
    /\ q.t <= t.made.trip
    /\ q.v = "booked" /\ ~q.flag => t.trip[q.t].status \notin {"draft", "quoted"}

TripSlot(e, t, q) ==
    /\ q.op \in OneTripOps => q.t \in Trips
    /\ q.op = "createTrip" => q.v \in {"draft", "booked"}
    /\ q.op = "bulkStatus" => q.v \in TripStatuses
    /\ q.op = "updateTrip" /\ q.pc # <<"group">> => Allowed(e, q)
    /\ q.op = "updateTrip" /\ q.pc = <<"write">> => Booking(t, q)
    /\ q.op \in BulkOps /\ q.pc # <<"each">> => q.seen \subseteq Trips
    /\ q.op \in BulkOps /\ q.pc = <<"each">> => AllKnown(e, t, q.seen)

LEMMA SlotKept ==
    ASSUME NEW t, NEW u, NEW q, TripTables(env, t), TripTables(env, u), OldRows(env, t, u), TripSlot(env, t, q)
    PROVE  TripSlot(env, u, q)
<1>1. ASSUME NEW x, NEW c, Known(env, t, x, c) PROVE Known(env, u, x, c)
  BY <1>1, MovedRow DEF Known, TripTables, OldRows, Trips
<1>2. ASSUME q.op = "updateTrip", q.pc = <<"write">> PROVE Booking(u, q)
  BY <1>2, MovedRow DEF TripSlot, OneTripOps, TripTables, OldRows, Booking, Trips
<1>3. q.op \in BulkOps /\ q.pc = <<"each">> => AllKnown(env, u, q.seen)
  BY <1>1 DEF TripSlot, AllKnown
<1> QED BY <1>2, <1>3 DEF TripSlot

LEMMA OtherSlot ==
    ASSUME NEW t, NEW q, q.op \notin TripOps PROVE TripSlot(env, t, q)
BY DEF TripSlot, TripOps, OneTripOps, BulkOps

-----------------------------------------------------------------------------
(* What a statement does to the trips                                        *)

Logged(t, x) == <<"trip.created", x>> \in t.log
RowsKept(e, t, u) ==
    /\ TripTables(e, u) /\ OldRows(e, t, u) /\ u.first = t.first
    /\ \A x \in Trips : Dated(t.trip[x], u.trip[x])
    /\ \A x \in Trips : u.trip[x] # NoTrip => t.trip[x] # NoTrip /\ (Logged(t, x) => Logged(u, x))

\* Some trip of the contact is booked, and has been of the contact since.
BookedTrip(e, t) ==
    /\ "contact" \notin e.patches
    /\ \E x \in Trips : t.trip[x].status = "booked" /\ t.trip[x].contact # 0
\* So it is with this row.
ContactBooked(row) == "contact" \notin env.patches /\ row.status = "booked" /\ row.contact # 0

\* What TripRules asks of a step when requests do not overlap.
FairRow(a, b) ==
    a # NoTrip => /\ b = NoTrip => CanDelete(a.status)
                  /\ a.published /\ a.token # 0 /\ b.published => b.token = a.token
FairRows(t, u) == \A x \in Trips : FairRow(t.trip[x], u.trip[x])

SameRows(t, u) ==
    u.trip = t.trip /\ u.log = t.log /\ u.first = t.first /\ u.made.trip = t.made.trip

LEMMA SameRowsKept ==
    ASSUME NEW t, NEW u, TripTables(env, t), SameRows(t, u)
    PROVE  RowsKept(env, t, u) /\ FairRows(t, u) /\ (BookedTrip(env, u) => BookedTrip(env, t))
BY DEF SameRows, RowsKept, TripTables, OldRows, RowMove, FairRows, FairRow, BookedTrip, Logged, Dated

\* One row is written.
RowWritten(t, u, x, row) ==
    u.trip = [t.trip EXCEPT ![x] = row] /\ u.log = t.log /\ u.first = t.first /\ u.made.trip = t.made.trip

LEMMA WrittenRowKept ==
    ASSUME NEW t, NEW u, TripTables(env, t), NEW x \in Trips, NEW row, RowWritten(t, u, x, row),
           t.trip[x] # NoTrip, TripRow(env, row), row # NoTrip, RowMove(env, t.trip[x], row)
    PROVE  /\ RowsKept(env, t, u)
           /\ FairRow(t.trip[x], row) => FairRows(t, u)
           /\ BookedTrip(env, u) => BookedTrip(env, t) \/ ContactBooked(row)
           /\ u.trip[x] = row
<1>1. /\ DOMAIN u.trip = Trips /\ u.trip[x] = row /\ \A y \in Trips : y # x => u.trip[y] = t.trip[y]
      /\ u.made.trip = t.made.trip /\ u.first = t.first /\ u.log = t.log
  BY DEF RowWritten, TripTables
<1>2. TripTables(env, u) BY <1>1 DEF TripTables
<1>3. OldRows(env, t, u) BY <1>1 DEF OldRows, RowMove, TripTables
<1>d. Dated(t.trip[x], row) BY MovedRow DEF TripTables
<1>4. RowsKept(env, t, u) BY <1>1, <1>2, <1>3, <1>d DEF RowsKept, Logged, Dated
<1>5. FairRow(t.trip[x], row) => FairRows(t, u) BY <1>1 DEF FairRows, FairRow
<1>6. BookedTrip(env, u) => BookedTrip(env, t) \/ ContactBooked(row)
  BY <1>1 DEF BookedTrip, ContactBooked
<1> QED BY <1>1, <1>4, <1>5, <1>6

\* A trip goes, and its entries in the log.
LEMMA DroppedTripKept ==
    ASSUME TripTables(env, db), Tabled(db), NEW x \in Trips, db' = DropTrip(db, x)
    PROVE  /\ RowsKept(env, db, db')
           /\ db.trip[x] = NoTrip \/ CanDelete(db.trip[x].status) => FairRows(db, db')
           /\ BookedTrip(env, db') => BookedTrip(env, db)
           /\ \A y \in Trips : db'.trip[y] = db.trip[y] \/ db'.trip[y] = NoTrip
<1>1. /\ db'.trip = [db.trip EXCEPT ![x] = NoTrip] /\ db'.log = Unlogged(db.log, x)
      /\ db'.first = db.first /\ db'.made.trip = db.made.trip
  BY DropTripWrite
<1>2. /\ DOMAIN db'.trip = Trips /\ db'.trip[x] = NoTrip
      /\ \A y \in Trips : y # x => db'.trip[y] = db.trip[y]
  BY <1>1 DEF TripTables
<1>3. TripTables(env, db') BY <1>1, <1>2, NoTripRow DEF TripTables
<1>4. OldRows(env, db, db') BY <1>1, <1>2 DEF OldRows, RowMove, TripTables
<1>5. ASSUME NEW y \in Trips, db'.trip[y] # NoTrip
      PROVE  db.trip[y] # NoTrip /\ (Logged(db, y) => Logged(db', y))
  BY <1>1, <1>2, <1>5 DEF Logged, Unlogged
<1>d. \A y \in Trips : Dated(db.trip[y], db'.trip[y]) BY <1>2, NoTripRow DEF Dated
<1>6. RowsKept(env, db, db') BY <1>1, <1>3, <1>4, <1>5, <1>d DEF RowsKept
<1>7. db.trip[x] = NoTrip \/ CanDelete(db.trip[x].status) => FairRows(db, db')
  BY <1>2, NoTripRow DEF FairRows, FairRow
<1>8. BookedTrip(env, db') => BookedTrip(env, db) BY <1>2, NoTripRow DEF BookedTrip
<1>9. \A y \in Trips : db'.trip[y] = db.trip[y] \/ db'.trip[y] = NoTrip BY <1>2
<1> QED BY <1>6, <1>7, <1>8, <1>9

\* A trip is inserted under the next id.
RowInserted(t, u, x, row) ==
    /\ x = t.made.trip + 1 /\ u.made.trip = x
    /\ u.trip = [t.trip EXCEPT ![x] = row] /\ u.log = t.log /\ u.first = t.first

LEMMA InsertedTrip ==
    ASSUME NEW t, NEW u, TripTables(env, t), NEW x \in Trips, NEW row, RowInserted(t, u, x, row),
           TripRow(env, row), row # NoTrip, row.status = "booked" => row.date # 0
    PROVE  /\ TripTables(env, u) /\ OldRows(env, t, u) /\ FairRows(t, u)
           /\ \A y \in Trips : Dated(t.trip[y], u.trip[y])
           /\ t.trip[x] = NoTrip
           /\ \A y \in Trips : y # x => u.trip[y] = t.trip[y]
           /\ BookedTrip(env, u) => BookedTrip(env, t) \/ ContactBooked(row)
<1>1. /\ DOMAIN u.trip = Trips /\ u.trip[x] = row
      /\ \A y \in Trips : y # x => u.trip[y] = t.trip[y]
  BY DEF TripTables, RowInserted
<1>2. t.made.trip \in Nat /\ ~(x <= t.made.trip) /\ t.made.trip <= u.made.trip /\ u.made.trip \in Nat
  BY DEF TripTables, RowInserted
<1>3. t.trip[x] = NoTrip BY <1>2 DEF TripTables
<1>4. \A y \in Trips : y <= t.made.trip => y <= u.made.trip BY <1>2 DEF Trips
<1>5. TripTables(env, u)
  <2>1. ASSUME NEW y \in Trips PROVE TripRow(env, u.trip[y]) /\ (u.trip[y] # NoTrip => y <= u.made.trip)
    BY <1>1, <1>2, <1>4 DEF Trips, RowInserted, TripTables
  <2> QED BY <2>1, <1>1, <1>2 DEF TripTables
<1>6. OldRows(env, t, u) BY <1>1, <1>2 DEF OldRows, RowMove
<1>7. FairRows(t, u) BY <1>1, <1>3 DEF FairRows, FairRow
<1>8. BookedTrip(env, u) => BookedTrip(env, t) \/ ContactBooked(row)
  BY <1>1 DEF BookedTrip, ContactBooked
<1>d. \A y \in Trips : Dated(t.trip[y], u.trip[y]) BY <1>1 DEF Dated
<1> QED BY <1>1, <1>3, <1>5, <1>6, <1>7, <1>8, <1>d

-----------------------------------------------------------------------------
(* What is emitted                                                           *)

IsEvent(e) == DOMAIN e = {"name", "on", "trip", "date", "read"} /\ (e.on = "contact" => e.date # 0)
Telling(E) == \E e \in E : e.on = "contact"
CreatedIn(E, x) == \E e \in E : e.on = "log" /\ e.name = "trip.created" /\ e.trip = x

\* A handler that was just started.
Started(e, name, date) ==
    /\ DOMAIN e = {"name", "on", "trip", "date", "read"}
    /\ e.date = date /\ e.read = FALSE /\ (e.on = "contact" => name = "trip.booked")

LEMMA HandlersAre ==
    ASSUME NEW name, NEW x, NEW date
    PROVE  /\ \A e \in Handlers(name, x, date) : Started(e, name, date)
           /\ name = "trip.booked" => Telling(Handlers(name, x, date))
           /\ name = "trip.created" => CreatedIn(Handlers(name, x, date), x)
<1> DEFINE event(on) == [name |-> name, on |-> on, trip |-> x, date |-> date, read |-> FALSE]
<1>1. CASE name \in {"trip.created", "trip.updated", "trip.deleted"}
  <2>1. Listeners(name) = {"log"} BY <1>1 DEF Listeners
  <2>2. Handlers(name, x, date) = {event("log")} BY <2>1 DEF Handlers
  <2> QED BY <1>1, <2>2 DEF Telling, CreatedIn, Started
<1>2. CASE name = "trip.booked"
  <2>1. Listeners(name) = {"contact"} BY <1>2 DEF Listeners
  <2>2. Handlers(name, x, date) = {event("contact")} BY <2>1 DEF Handlers
  <2>3. event("contact").on = "contact" OBVIOUS
  <2>4. Telling(Handlers(name, x, date)) BY <2>2, <2>3 DEF Telling
  <2>5. \A e \in Handlers(name, x, date) : Started(e, name, date) BY <1>2, <2>2 DEF Started
  <2> QED BY <1>2, <2>4, <2>5
<1>3. CASE name \notin {"trip.created", "trip.updated", "trip.deleted", "trip.booked"}
  BY <1>3 DEF Listeners, Handlers
<1> QED BY <1>1, <1>2, <1>3

\* The bookings among them, if any, have this date.
Announced(date) ==
    /\ events \subseteq events'
    /\ \A e \in events' : e \in events \/
            (IsEvent(e) /\ e.read = FALSE /\ (e.on = "contact" => e.date = date))

LEMMA Emitted ==
    ASSUME NEW x, NEW what, NEW contact, NEW date, Emit(x, what),
           \A w \in what : w[1] # "trip.booked" \/ w \in Booked(contact, date)
    PROVE  /\ Announced(date)
           /\ \A w \in what : w[1] = "trip.booked" => Telling(events')
           /\ \A w \in what : w[1] = "trip.created" => CreatedIn(events', x)
<1>1. events' = events \cup UNION {Handlers(w[1], x, w[2]) : w \in what} BY DEF Emit
<1>2. ASSUME NEW w \in what, NEW e \in Handlers(w[1], x, w[2])
      PROVE  IsEvent(e) /\ e.read = FALSE /\ (e.on = "contact" => e.date = date)
  <2>1. Started(e, w[1], w[2]) BY HandlersAre, Zenon
  <2>2. e.on = "contact" => w[2] = date /\ date # 0 BY <2>1 DEF Started, Booked
  <2> QED BY <2>1, <2>2 DEF Started, IsEvent
<1>3. Announced(date) BY <1>1, <1>2 DEF Announced
<1>4. ASSUME NEW w \in what
      PROVE  /\ w[1] = "trip.booked" => Telling(events')
             /\ w[1] = "trip.created" => CreatedIn(events', x)
  <2>1. Handlers(w[1], x, w[2]) \subseteq events' BY <1>1
  <2> DEFINE n == w[1]
             H == Handlers(n, x, w[2])
  <2>2. /\ n = "trip.booked" => Telling(H)
        /\ n = "trip.created" => CreatedIn(H, x)
    BY HandlersAre, Zenon
  <2>3. H \subseteq events' BY <2>1
  <2> HIDE DEF n, H
  <2>4. /\ n = "trip.booked" => Telling(events')
        /\ n = "trip.created" => CreatedIn(events', x)
    BY <2>2, <2>3 DEF Telling, CreatedIn
  <2> QED BY <2>4 DEF n
<1> QED BY <1>3, <1>4

\* One event that is no booking, and perhaps the booking.
LEMMA EmittedWith ==
    ASSUME NEW x, NEW name, name # "trip.booked", NEW contact, NEW date, NEW what, Emit(x, what),
           what \subseteq {<<name, 0>>} \cup Booked(contact, date)
    PROVE  /\ Announced(date)
           /\ Booked(contact, date) \subseteq what /\ contact # 0 /\ date # 0 => Telling(events')
           /\ <<name, 0>> \in what /\ name = "trip.created" => CreatedIn(events', x)
<1>1. \A w \in what : w[1] # "trip.booked" \/ w \in Booked(contact, date) OBVIOUS
<1>2. /\ Announced(date)
      /\ \A w \in what : w[1] = "trip.booked" => Telling(events')
      /\ \A w \in what : w[1] = "trip.created" => CreatedIn(events', x)
  BY <1>1, Emitted
<1>3. Booked(contact, date) \subseteq what /\ contact # 0 /\ date # 0
         => <<"trip.booked", date>> \in what
  BY DEF Booked
<1> QED BY <1>2, <1>3

-----------------------------------------------------------------------------
(* What a request about trips does to them                                   *)

\* A request that still has to tell that its trip is booked.
Grouping(q) == q.op = "updateTrip" /\ q.pc = <<"group">> /\ q.flag /\ q.a # 0 /\ q.d # 0

\* What a request has checked holds until it writes, if it is alone.
Removable(t, x) == t.trip[x] = NoTrip \/ CanDelete(t.trip[x].status)
AllRemovable(t, seen) == \A w \in seen : Removable(t, w[1])
Ready(t, q) ==
    /\ q.op = "removeTrip" /\ q.pc = <<"delete">> => Removable(t, q.t)
    /\ q.op = "bulkDelete" /\ q.pc = <<"each">> => AllRemovable(t, q.seen)
    /\ q.op = "publishTrip" /\ q.pc = <<"write">> => ~t.trip[q.t].published

\* No booking is told.
Hushed == \A e \in events' : e \in events \/ e.on # "contact"

\* A request that tells of a booking ends with it, or is of those that tell of many, today.
CallsApart(r, date) ==
    \/ events = {} /\ events' = {}
    \/ req[r].op \in TripOps \ {"bulkStatus"} /\ req'[r].op = "idle"
    \/ /\ req[r].op \in TripOps /\ req'[r].op \in {req[r].op, "idle"}
       /\ Hushed \/ (req[r].op = "bulkStatus" /\ date = MaxDate)

TripEffect(r) ==
    /\ TripTables(env, db') /\ OldRows(env, db, db') /\ db'.first = db.first
    /\ \A x \in Trips : Dated(db.trip[x], db'.trip[x])
    /\ \A x \in Trips : db'.trip[x] # NoTrip =>
          \/ CreatedIn(events', x)
          \/ db.trip[x] # NoTrip /\ (Logged(db, x) => Logged(db', x))
    /\ TripSlot(env, db', req'[r])
    /\ BookedTrip(env, db') => BookedTrip(env, db) \/ Telling(events') \/ Grouping(req'[r])
    /\ Grouping(req[r]) => Telling(events')
    /\ \E date : Announced(date) /\ (env.isolated => CallsApart(r, date))
    /\ env.isolated /\ Ready(db, req[r]) => FairRows(db, db') /\ Ready(db', req'[r])

LEMMA TripWrites ==
    ASSUME NEW r \in Requests, RowsKept(env, db, db'), TripSlot(env, db', req'[r]), ~Grouping(req[r]),
           NEW date, Announced(date), CallsApart(r, date),
           BookedTrip(env, db') => BookedTrip(env, db) \/ Telling(events') \/ Grouping(req'[r]),
           env.isolated /\ Ready(db, req[r]) => FairRows(db, db') /\ Ready(db', req'[r])
    PROVE  TripEffect(r)
BY DEF TripEffect, RowsKept

LEMMA TripReads ==
    ASSUME NEW r \in Requests, TripTables(env, db), db' = db, events' = events,
           TripSlot(env, db, req'[r]), ~Grouping(req[r]),
           env.isolated => \/ events = {}
                           \/ req[r].op \in TripOps /\ req'[r].op \in {req[r].op, "idle"},
           env.isolated /\ Ready(db, req[r]) => Ready(db, req'[r])
    PROVE  TripEffect(r)
<1>1. RowsKept(env, db, db') /\ FairRows(db, db') /\ (BookedTrip(env, db') => BookedTrip(env, db))
  BY SameRowsKept DEF SameRows
<1>2. Announced(0) /\ Hushed BY DEF Announced, Hushed
<1>3. env.isolated => CallsApart(r, 0) BY <1>2 DEF CallsApart
<1> QED BY <1>1, <1>2, <1>3 DEF TripEffect, RowsKept

LEMMA IdleTrips ==
    ASSUME NEW t
    PROVE  /\ TripSlot(env, t, Idle) /\ Ready(t, Idle) /\ ~Grouping(Idle)
           /\ Idle.op = "idle" /\ "idle" \notin TripOps
BY IdleFacts DEF TripSlot, Ready, Grouping, TripOps, OneTripOps, BulkOps

LEMMA TripEnds ==
    ASSUME NEW r \in Requests, TripTables(env, db), db' = db, events' = events,
           req[r].op \in TripOps, req'[r] = Idle, ~Grouping(req[r])
    PROVE  TripEffect(r)
BY TripReads, IdleTrips

LEMMA TripArrives ==
    ASSUME Framed, NEW r \in Requests, NEW row, TripTables(env, db), Arrive(r, row), events' = events,
           TripSlot(env, db, row), Ready(db, row)
    PROVE  TripEffect(r)
<1>1. req[r] = Idle /\ req'[r] = row /\ db' = db /\ (env.isolated => events = {})
  BY DEF Arrive, Framed, Slotted
<1> QED BY <1>1, TripReads, IdleTrips

LEMMA WentTo ==
    ASSUME Framed, NEW r \in Requests, NEW row, Go(r, row) PROVE req'[r] = row
BY DEF Framed, Slotted, Go

LEMMA NotGrouping ==
    ASSUME NEW q, q.op # "updateTrip" \/ q.pc # <<"group">> PROVE ~Grouping(q)
BY DEF Grouping

\* The steps of a request about trips, and what each stands for.
LEMMA TripPcsDiffer ==
    /\ <<"write">> # <<"group">> /\ <<"find", "write">> # <<"group">>
    /\ <<"find", "write">> # <<"write">> /\ <<"find", "delete">> # <<"delete">>
    /\ <<"read", "each">> # <<"each">>
OBVIOUS

LEMMA ArrivingEffect ==
    ASSUME Framed, TripTables(env, db), NEW r \in Requests,
           \/ CreateTrip(r) \/ UpdateTrip(r) \/ RemoveTrip(r) \/ BulkDelete(r) \/ BulkArchive(r)
           \/ BulkChangeStatus(r) \/ PublishTrip(r) \/ UnpublishTrip(r)
    PROVE  TripEffect(r)
<1>1. CASE CreateTrip(r)
  <2>1. PICK status \in {"draft", "booked"}, contact \in {0, 1}, date \in 0 .. MaxDate :
            /\ Arrive(r, [Idle EXCEPT !.op = "createTrip", !.pc = <<"insert">>,
                                      !.v = status, !.a = contact, !.d = date])
            /\ events' = events
    BY <1>1, Zenon DEF CreateTrip
  <2> DEFINE row == [Idle EXCEPT !.op = "createTrip", !.pc = <<"insert">>,
                                 !.v = status, !.a = contact, !.d = date]
  <2>2. row.op = "createTrip" /\ row.v = status BY IdleFacts
  <2>3. Arrive(r, row) BY <2>1
  <2> HIDE DEF row
  <2>4. TripSlot(env, db, row) /\ Ready(db, row) BY <2>2 DEF TripSlot, Ready, OneTripOps, BulkOps
  <2> QED BY <2>1, <2>3, <2>4, TripArrives
<1>2. CASE UpdateTrip(r)
  <2>1. PICK t, status, date, seen :
            /\ t \in Trips
            /\ Arrive(r, [Idle EXCEPT !.op = "updateTrip", !.pc = <<"find", "write">>, !.t = t,
                                      !.v = status, !.d = date, !.seen = seen])
            /\ events' = events
            /\ date = 0 => "date" \in env.patches
            /\ \A c : <<"contact", c>> \in seen => "contact" \in env.patches
    <3>1. PICK t \in Trips, status \in {"none"} \cup TripStatuses, date \in -1 .. MaxDate,
              column \in {"none"} \cup env.patches, value \in {0, 1} :
            /\ column # "none" => status \in {"none", "booked"}
            /\ date = 0 <=> column = "date"
            /\ Arrive(r, [Idle EXCEPT !.op = "updateTrip", !.pc = <<"find", "write">>, !.t = t,
                            !.v = status, !.d = date,
                            !.seen = IF column \in {"none", "date"} THEN {} ELSE {<<column, value>>}])
            /\ UNCHANGED events
      BY <1>2, Zenon DEF UpdateTrip
    <3> DEFINE seen == IF column \in {"none", "date"} THEN {} ELSE {<<column, value>>}
    <3>2. \A c : <<"contact", c>> \in seen => "contact" \in env.patches OBVIOUS
    <3>3. date = 0 => "date" \in env.patches BY <3>1
    <3>4. Arrive(r, [Idle EXCEPT !.op = "updateTrip", !.pc = <<"find", "write">>, !.t = t,
                            !.v = status, !.d = date, !.seen = seen])
      BY <3>1
    <3> HIDE DEF seen
    <3> QED BY <3>1, <3>2, <3>3, <3>4, Zenon
  <2> DEFINE row == [Idle EXCEPT !.op = "updateTrip", !.pc = <<"find", "write">>, !.t = t,
                                 !.v = status, !.d = date, !.seen = seen]
  <2>2. /\ row.op = "updateTrip" /\ row.t = t /\ row.pc = <<"find", "write">>
        /\ row.d = date /\ row.seen = seen
    BY IdleFacts
  <2>3. Arrive(r, row) BY <2>1
  <2> HIDE DEF row
  <2>5. Allowed(env, row) BY <2>1, <2>2 DEF Allowed, Sets
  <2>4. TripSlot(env, db, row) /\ Ready(db, row)
    BY <2>1, <2>2, <2>5, TripPcsDiffer DEF TripSlot, Ready, OneTripOps, BulkOps
  <2> QED BY <2>1, <2>3, <2>4, TripArrives
<1>3. ASSUME NEW t \in Trips, NEW op \in OneTripOps \ {"updateTrip"}, NEW pc,
             op \in {"removeTrip", "publishTrip"} => pc \notin {<<"delete">>, <<"write">>},
             Arrive(r, [Idle EXCEPT !.op = op, !.pc = pc, !.t = t]), events' = events
      PROVE  TripEffect(r)
  <2> DEFINE row == [Idle EXCEPT !.op = op, !.pc = pc, !.t = t]
  <2>1. row.op = op /\ row.t = t /\ row.pc = pc BY IdleFacts
  <2>2. Arrive(r, row) BY <1>3
  <2> HIDE DEF row
  <2>3. TripSlot(env, db, row) /\ Ready(db, row)
    BY <1>3, <2>1 DEF TripSlot, Ready, OneTripOps, BulkOps
  <2> QED BY <1>3, <2>2, <2>3, TripArrives
<1>4. CASE RemoveTrip(r)
  BY <1>3, <1>4 DEF RemoveTrip, OneTripOps
<1>5. CASE PublishTrip(r)
  BY <1>3, <1>5 DEF PublishTrip, OneTripOps
<1>6. CASE UnpublishTrip(r) BY <1>3, <1>6, Zenon DEF UnpublishTrip, OneTripOps
<1>7. ASSUME NEW op \in BulkOps, BulkRequest(r, op) PROVE TripEffect(r)
  <2>1. PICK T \in (SUBSET Trips) \ {{}}, status \in TripStatuses, archive \in BOOLEAN :
            /\ Arrive(r, [Idle EXCEPT !.op = op, !.pc = <<"read", "each">>, !.seen = T,
                                      !.v = status, !.flag = archive])
            /\ events' = events
    BY <1>7, Zenon DEF BulkRequest
  <2> DEFINE row == [Idle EXCEPT !.op = op, !.pc = <<"read", "each">>, !.seen = T,
                                 !.v = status, !.flag = archive]
  <2>2. row.op = op /\ row.seen = T /\ row.pc = <<"read", "each">> /\ row.v \in TripStatuses
    BY IdleFacts
  <2>3. Arrive(r, row) BY <2>1
  <2> HIDE DEF row
  <2>4. TripSlot(env, db, row) /\ Ready(db, row)
    BY <2>2, TripPcsDiffer DEF TripSlot, Ready, OneTripOps, BulkOps
  <2> QED BY <2>1, <2>3, <2>4, TripArrives
<1> QED
  BY <1>1, <1>2, <1>4, <1>5, <1>6, <1>7 DEF BulkDelete, BulkArchive, BulkChangeStatus, BulkOps

LEMMA FindingEffect ==
    ASSUME Framed, TripTables(env, db), NEW r \in Requests, TripSlot(env, db, req[r]),
           \/ UpdateTripFind(r) \/ RemoveTripFind(r) \/ PublishTripFind(r) \/ BulkEnd(r)
    PROVE  TripEffect(r)
<1>0. DOMAIN req[r] = DOMAIN Idle BY DEF Framed, Slotted
<1>1. CASE UpdateTripFind(r)
  <2>1. Due(r, "updateTrip", "find") /\ events' = events /\ db' = db
    BY <1>1 DEF UpdateTripFind, Refuse
  <2>2. req[r].op = "updateTrip" /\ req[r].pc = <<"find", "write">> /\ req[r].t \in Trips
    BY <2>1, TripDue DEF TripSlot, OneTripOps, TripOps
  <2>6. Allowed(env, req[r]) BY <2>2, TripPcsDiffer DEF TripSlot
  <2>3. ~Grouping(req[r]) BY <2>2, TripPcsDiffer, NotGrouping
  <2>4. CASE Refuse(r)
    BY <2>2, <2>4, RefusesAs, <2>1, <2>3, TripEnds DEF TripOps
  <2>5. CASE ~Refuse(r)
    <3> DEFINE old == db.trip[req[r].t]
               flag == req[r].v = "booked" /\ old.status # "booked"
               row == [Next1(r) EXCEPT !.n = old.group, !.a = old.contact, !.flag = flag]
    <3>1. old # NoTrip /\ Go(r, row) BY <1>1, <2>5 DEF UpdateTripFind
    <3>2. /\ row.op = "updateTrip" /\ row.pc = <<"write">> /\ row.t = req[r].t
          /\ row.v = req[r].v /\ row.flag = flag /\ row.d = req[r].d /\ row.seen = req[r].seen
      BY <2>2, NextSlot, TripTail, IdleFacts
    <3>3. req'[r] = row BY <3>1, WentTo
    <3> HIDE DEF row
    <3>4. Booking(db, row)
      <4>1. req[r].t <= db.made.trip BY <2>2, <3>1 DEF TripTables
      <4>2. req[r].v = "booked" /\ ~flag => old.status = "booked" OBVIOUS
      <4> HIDE DEF old, flag
      <4> QED BY <3>2, <4>1, <4>2 DEF Booking, old
    <3>7. Allowed(env, row) BY <2>6, <3>2 DEF Allowed, Sets
    <3>5. TripSlot(env, db, row) BY <2>2, <3>2, <3>4, <3>7 DEF TripSlot, OneTripOps, BulkOps
    <3>6. Ready(db, row) BY <3>2 DEF Ready
    <3> HIDE DEF old, flag
    <3> QED BY <2>1, <2>2, <2>3, <3>2, <3>3, <3>5, <3>6, TripReads DEF TripOps
  <2> QED BY <2>4, <2>5
<1>2. CASE RemoveTripFind(r)
  <2>1. Due(r, "removeTrip", "find") /\ events' = events /\ db' = db
    BY <1>2 DEF RemoveTripFind, Refuse
  <2>2. req[r].op = "removeTrip" /\ req[r].pc = <<"find", "delete">> /\ req[r].t \in Trips
    BY <2>1, TripDue DEF TripSlot, OneTripOps, TripOps
  <2>3. ~Grouping(req[r]) BY <2>2, NotGrouping
  <2>4. CASE Refuse(r)
    BY <2>2, <2>4, RefusesAs, <2>1, <2>3, TripEnds DEF TripOps
  <2>5. CASE ~Refuse(r)
    <3>1. CanDelete(db.trip[req[r].t].status) /\ Go(r, Next1(r))
      BY <1>2, <2>5 DEF RemoveTripFind
    <3>2. req'[r].op = "removeTrip" /\ req'[r].t = req[r].t BY <2>2, <3>1, WentTo, NextSlot
    <3>3. TripSlot(env, db, req'[r]) BY <2>2, <3>2 DEF TripSlot, OneTripOps, BulkOps
    <3>4. Ready(db, req'[r]) BY <3>1, <3>2 DEF Ready, Removable
    <3> QED BY <2>1, <2>2, <2>3, <3>2, <3>3, <3>4, TripReads DEF TripOps
  <2> QED BY <2>4, <2>5
<1>3. CASE PublishTripFind(r)
  <2>1. Due(r, "publishTrip", "find") /\ events' = events /\ db' = db
    BY <1>3 DEF PublishTripFind, Refuse
  <2>2. req[r].op = "publishTrip" /\ req[r].pc = <<"find", "write">> /\ req[r].t \in Trips
    BY <2>1, TripDue DEF TripSlot, OneTripOps, TripOps
  <2>3. ~Grouping(req[r]) BY <2>2, NotGrouping
  <2>4. CASE Refuse(r) \/ Reply(r, "ok")
    BY <2>2, <2>4, RefusesAs, RepliesAs, <2>1, <2>3, TripEnds DEF TripOps
  <2>5. CASE ~(Refuse(r) \/ Reply(r, "ok"))
    <3>1. ~db.trip[req[r].t].published /\ Go(r, Next1(r)) BY <1>3, <2>5 DEF PublishTripFind
    <3>2. req'[r].op = "publishTrip" /\ req'[r].t = req[r].t BY <2>2, <3>1, WentTo, NextSlot
    <3>3. TripSlot(env, db, req'[r]) BY <2>2, <3>2 DEF TripSlot, OneTripOps, BulkOps
    <3>4. Ready(db, req'[r]) BY <3>1, <3>2 DEF Ready
    <3> QED BY <2>1, <2>2, <2>3, <3>2, <3>3, <3>4, TripReads DEF TripOps
  <2> QED BY <2>4, <2>5
<1>4. CASE BulkEnd(r)
  BY <1>4, NotGrouping, RepliesAs, TripEnds DEF BulkEnd, BulkOps, TripOps
<1> QED BY <1>1, <1>2, <1>3, <1>4

\* A bulk operation notes the trips it will write, with their contacts.
LEMMA BulkReadEffect ==
    ASSUME Framed, TripTables(env, db), NEW r \in Requests, TripSlot(env, db, req[r]), BulkRead(r)
    PROVE  TripEffect(r)
<1> DEFINE chosen == {u \in req[r].seen : Existing(u) /\ Chosen(r, db.trip[u])}
           seen == {<<t, db.trip[t].contact>> : t \in chosen}
           row == [Next1(r) EXCEPT !.seen = seen]
<1>1. /\ req[r].op \in BulkOps /\ Due(r, req[r].op, "read") /\ Go(r, row)
      /\ db' = db /\ events' = events
  BY DEF BulkRead, BulkOps
<1>2. req[r].pc = <<"read", "each">> /\ req[r].op \in TripOps
  BY <1>1, TripDue DEF BulkOps, TripOps
<1>3. req[r].seen \subseteq Trips BY <1>1, <1>2, TripPcsDiffer DEF TripSlot
<1>4. /\ row.op = req[r].op /\ row.pc = <<"each">> /\ row.seen = seen /\ row.v = req[r].v
  BY <1>2, NextSlot, TripTail, IdleFacts
<1>5. req'[r] = row BY <1>1, WentTo
<1>6. AllKnown(env, db, seen)
  <2>1. ASSUME NEW t \in chosen PROVE Known(env, db, t, db.trip[t].contact)
    BY <2>1, <1>3 DEF Known, TripTables, Existing
  <2> HIDE DEF chosen
  <2> QED BY <2>1 DEF AllKnown
<1>7. req[r].op = "bulkDelete" => AllRemovable(db, seen)
  <2>1. ASSUME req[r].op = "bulkDelete", NEW t \in chosen PROVE Removable(db, t)
    BY <2>1 DEF Removable, Chosen
  <2> HIDE DEF chosen
  <2> QED BY <2>1 DEF AllRemovable
<1> HIDE DEF chosen, seen, row
<1>8. TripSlot(env, db, row) BY <1>1, <1>4, <1>6 DEF TripSlot, BulkOps, OneTripOps
<1>9. Ready(db, row) BY <1>1, <1>4, <1>7 DEF Ready, BulkOps
<1>10. ~Grouping(req[r]) BY <1>1, NotGrouping DEF BulkOps
<1> QED BY <1>1, <1>2, <1>4, <1>5, <1>8, <1>9, <1>10, TripReads

LEMMA DateOfBooking ==
    ASSUME NEW date, NEW books
    PROVE  /\ books => BookingDate(date, books) \notin {-1, 0}
           /\ ~books => BookingDate(date, books) = date
           /\ BookingDate(date, books) \in {date, MaxDate}
BY TripTreeAssumption DEF BookingDate

LEMMA CreateTripEffect ==
    ASSUME Framed, TripTables(env, db), NEW r \in Requests, TripSlot(env, db, req[r]), CreateTripInsert(r)
    PROVE  TripEffect(r)
<1> DEFINE x == db.made.trip + 1
           date == BookingDate(req[r].d, req[r].v = "booked")
           row == [NoTrip EXCEPT !.status = req[r].v, !.date = date, !.contact = req[r].a]
           what == {<<"trip.created", 0>>} \cup
                     (IF req[r].v = "booked" THEN Booked(req[r].a, date) ELSE {})
<1>1. /\ Due(r, "createTrip", "insert") /\ x \in Trips /\ Finish(r) /\ Emit(x, what)
      /\ db' = [db EXCEPT !.made.trip = x, !.trip[x] = row]
  BY DEF CreateTripInsert
<1>2. req[r].op = "createTrip" /\ req[r].pc = <<"insert">> /\ req[r].v \in {"draft", "booked"}
  BY <1>1, TripDue DEF TripSlot, TripOps
<1>3. req'[r] = Idle /\ ~Grouping(req[r])
  BY <1>2, <1>1, TripTail, TripFinishes, NotGrouping DEF TripOps
<1>4. /\ row.status = req[r].v /\ row.contact = req[r].a /\ row.date = date /\ DOMAIN row = RowFields
      /\ row # NoTrip
  BY <1>2, NoTripRow DEF RowFields
<1>5. req[r].v = "booked" => date # 0 BY DateOfBooking
<1>6. TripRow(env, row) BY <1>2, <1>4, <1>5 DEF TripRow, TripStatuses
<1>7. /\ db'.trip = [db.trip EXCEPT ![x] = row] /\ db'.log = db.log /\ db'.first = db.first
      /\ db'.made.trip = x
  BY <1>1 DEF Framed, Tabled, Fields, Counters
<1>8. Announced(date) /\ CreatedIn(events', x)
      /\ (req[r].v = "booked" /\ req[r].a # 0 => Telling(events'))
  <2>1. what \subseteq {<<"trip.created", 0>>} \cup Booked(req[r].a, date) OBVIOUS
  <2>2. <<"trip.created", 0>> \in what /\ (req[r].v = "booked" => Booked(req[r].a, date) \subseteq what)
    OBVIOUS
  <2> HIDE DEF what, date, x
  <2> QED BY <1>1, <1>5, <2>1, <2>2, EmittedWith
<1>b. RowInserted(db, db', x, row) BY <1>7 DEF RowInserted
<1> HIDE DEF what, date, row, x
<1>c. x \in Trips /\ row # NoTrip /\ (row.status = "booked" => row.date # 0) BY <1>1, <1>4, <1>5
<1>9. /\ TripTables(env, db') /\ OldRows(env, db, db') /\ FairRows(db, db')
      /\ \A y \in Trips : Dated(db.trip[y], db'.trip[y])
      /\ \A y \in Trips : y # x => db'.trip[y] = db.trip[y]
      /\ BookedTrip(env, db') => BookedTrip(env, db) \/ ContactBooked(row)
  BY <1>6, <1>b, <1>c, InsertedTrip, Zenon
<1>10. CallsApart(r, date) BY <1>2, <1>3, IdleTrips DEF CallsApart, TripOps
<1>11. \A y \in Trips : db'.trip[y] # NoTrip =>
          \/ CreatedIn(events', y)
          \/ db.trip[y] # NoTrip /\ (Logged(db, y) => Logged(db', y))
  BY <1>7, <1>8, <1>9 DEF Logged
<1> QED BY <1>3, <1>4, <1>7, <1>8, <1>9, <1>10, <1>11, IdleTrips DEF TripEffect, ContactBooked

\* The row of a trip after an update or a change of status.
LEMMA StatusRow ==
    ASSUME NEW a, TripRow(env, a), a # NoTrip, NEW row, DOMAIN row = RowFields,
           "contact" \notin env.patches => row.contact = a.contact,
           row.status \in {a.status} \cup TRIP_STATUS_TRANSITIONS[a.status],
           Dated(a, row), row.status = "booked" /\ "date" \notin env.patches => row.date # 0
    PROVE  TripRow(env, row) /\ row # NoTrip /\ RowMove(env, a, row)
<1>1. a.status \in TripStatuses BY DEF TripRow
<1>2. row.status \in TripStatuses BY <1>1, Workflow
<1>3. row.status # "none" BY <1>2 DEF TripStatuses
<1>4. row # NoTrip BY <1>3, NoTripRow
<1> QED BY <1>2, <1>3, <1>4 DEF TripRow, RowMove

LEMMA UpdateTripEffect ==
    ASSUME Framed, TripTables(env, db), NEW r \in Requests, TripSlot(env, db, req[r]), UpdateTripWrite(r)
    PROVE  TripEffect(r)
<1> DEFINE x == req[r].t
           date == BookingDate(req[r].d, req[r].flag)
           old == db.trip[x]
           status == IF req[r].v = "none" THEN old.status ELSE req[r].v
           given == IF date = -1 THEN old.date ELSE date
           row == Patched(old, req[r], date)
           contact == IF row.contact # 0 THEN row.contact ELSE req[r].a
           regroups == \E group \in {0, 1} \ {req[r].n} : Sets(req[r], "group", group)
           onlyGroup == /\ \E group \in {0, 1} : Sets(req[r], "group", group)
                        /\ req[r].v = "none" /\ req[r].d = -1
           booked == IF req[r].flag THEN Booked(contact, date) ELSE {}
           what == (IF onlyGroup THEN {} ELSE {<<"trip.updated", 0>>})
                      \cup (IF regroups THEN {} ELSE booked)
<1>1. Due(r, "updateTrip", "write") BY DEF UpdateTripWrite
<1>2. /\ req[r].op = "updateTrip" /\ req[r].pc = <<"write">> /\ req[r].by = "none"
      /\ x \in Trips /\ Booking(db, req[r]) /\ DOMAIN req[r] = DOMAIN Idle
      /\ Allowed(env, req[r])
  BY <1>1, TripDue, TripPcsDiffer DEF TripSlot, TripOps, OneTripOps, Framed, Slotted
<1>3. ~Grouping(req[r]) BY <1>2, TripPcsDiffer, NotGrouping
<1>4. CASE ~TriggerAllows(x, req[r].v)
  BY <1>4, <1>2, RefusesAs, <1>3, TripEnds DEF UpdateTripWrite, TripOps
<1>5. CASE TriggerAllows(x, req[r].v)
  <2> DEFINE waiting == [req[r] EXCEPT !.pc = <<"group">>, !.d = date, !.a = contact]
  <2>1. /\ db' = [db EXCEPT !.trip[x] = row]
        /\ Emit(x, what)
        /\ IF regroups THEN Go(r, waiting) ELSE Finish(r)
    BY <1>5 DEF UpdateTripWrite
  <2>2. TripRow(env, old) /\ old # NoTrip /\ CanTransition(old.status, req[r].v)
    BY <1>2, <1>5 DEF TriggerAllows, Existing, TripTables
  <2>3. DOMAIN old = RowFields BY <2>2 DEF TripRow
  <2>4. RowWritten(db, db', x, row)
    <3>1. DOMAIN db.trip = Trips BY DEF TripTables
    <3> HIDE DEF regroups, onlyGroup, booked, what, waiting, date, row
    <3>2. db'.trip = [db.trip EXCEPT ![x] = row]
      BY <1>2, <2>1, <3>1 DEF Framed, Tabled, Fields
    <3>3. db'.log = db.log /\ db'.first = db.first /\ db'.made = db.made
      BY <2>1 DEF Framed, Tabled, Fields
    <3> QED BY <3>2, <3>3 DEF RowWritten
  <2>5. /\ DOMAIN row = RowFields /\ row.status = status /\ row.date = given
        /\ row.token = old.token /\ row.contact = Column(req[r], "contact", old.contact)
    BY <2>3 DEF RowFields, Patched
  <2>c. "contact" \notin env.patches => row.contact = old.contact
    BY <1>2, <2>5 DEF Allowed, Column
  <2>6. req'[r] = IF regroups THEN waiting ELSE Idle
    BY <1>2, <2>1, WentTo, TripTail, TripFinishes DEF TripOps
  <2>7. /\ waiting.op = "updateTrip" /\ waiting.pc = <<"group">> /\ waiting.d = date
        /\ waiting.a = contact /\ waiting.flag = req[r].flag /\ waiting.t = x
    BY <1>2, IdleFacts
  <2>8. /\ what \subseteq {<<"trip.updated", 0>>} \cup Booked(contact, date)
        /\ regroups => what \subseteq {<<"trip.updated", 0>>}
        /\ ~regroups /\ req[r].flag => Booked(contact, date) \subseteq what
    OBVIOUS
  <2>9. status \in {old.status} \cup TRIP_STATUS_TRANSITIONS[old.status]
    BY <2>2 DEF CanTransition
  <2>10. (req[r].flag => date \notin {-1, 0}) /\ (~req[r].flag => date = req[r].d) BY DateOfBooking
  <2>11. status = "booked" /\ ~req[r].flag => old.status = "booked"
    <3>1. old.status \in TripStatuses BY <2>2 DEF TripRow
    <3>2. CASE req[r].v = "none" BY <3>2
    <3>3. CASE req[r].v # "none"
      BY <2>9, <3>1, Workflow, <1>2, <3>3 DEF Booking
    <3> QED BY <3>2, <3>3
  <2>12. status = "booked" /\ "date" \notin env.patches => given # 0
    BY <1>2, <2>2, <2>10, <2>11 DEF TripRow, Allowed
  <2>d. Dated(old, row) BY <2>5, <2>10, <2>11 DEF Dated
  <2> HIDE DEF x, date, old, status, given, regroups, onlyGroup, booked, what, row, waiting,
          contact
  <2>13. /\ TripRow(env, row) /\ row # NoTrip /\ RowMove(env, old, row)
    BY <2>2, <2>5, <2>9, <2>12, <2>c, <2>d, StatusRow
  <2>14. FairRow(old, row) BY <2>5, <2>13 DEF FairRow
  <2>15. old = db.trip[x] BY DEF old
  <2>16. /\ RowsKept(env, db, db') /\ FairRows(db, db')
         /\ BookedTrip(env, db') => BookedTrip(env, db) \/ ContactBooked(row)
    BY <1>2, <2>2, <2>4, <2>5, <2>13, <2>14, <2>15, WrittenRowKept DEF x
  <2>17. Announced(date) /\ (~regroups /\ req[r].flag /\ contact # 0 => Telling(events'))
    <3>1. "trip.updated" # "trip.booked" OBVIOUS
    <3>2. /\ Announced(date)
          /\ Booked(contact, date) \subseteq what /\ contact # 0 /\ date # 0 => Telling(events')
      BY <2>1, <2>8, <3>1, EmittedWith, Zenon
    <3> QED BY <2>8, <2>10, <3>2
  <2>18. regroups => Hushed
    <3>1. ASSUME regroups PROVE Announced(0) BY <2>1, <2>8, <3>1, EmittedWith
    <3>2. Announced(0) => Hushed BY DEF Announced, Hushed, IsEvent
    <3> QED BY <3>1, <3>2
  <2>19. CallsApart(r, date)
    BY <1>2, <2>6, <2>7, <2>18, IdleTrips DEF CallsApart, TripOps
  <2>e. row.contact # 0 => contact # 0 BY DEF contact
  <2>20. BookedTrip(env, db') => BookedTrip(env, db) \/ Telling(events') \/ Grouping(req'[r])
    <3>1. ASSUME ContactBooked(row), ~req[r].flag PROVE BookedTrip(env, db)
      BY <3>1, <1>2, <2>5, <2>11, <2>15, <2>c DEF BookedTrip, ContactBooked, x
    <3>2. ASSUME ContactBooked(row), req[r].flag PROVE Telling(events') \/ Grouping(req'[r])
      BY <3>2, <2>6, <2>7, <2>10, <2>17, <2>e DEF ContactBooked, Grouping
    <3> QED BY <2>16, <3>1, <3>2
  <2>21. TripSlot(env, db', req'[r]) /\ Ready(db', req'[r])
    <3>1. CASE regroups
      BY <2>7, <1>2, <2>6, <3>1 DEF TripSlot, Ready, OneTripOps, BulkOps
    <3>2. CASE ~regroups BY <2>6, <3>2, IdleTrips
    <3> QED BY <3>1, <3>2
  <2> QED BY <1>3, <2>16, <2>17, <2>19, <2>20, <2>21, TripWrites
<1> QED BY <1>4, <1>5

LEMMA GroupEffect ==
    ASSUME Framed, TripTables(env, db), NEW r \in Requests, UpdateTripGroup(r)
    PROVE  TripEffect(r)
<1> DEFINE name == IF Sets(req[r], "group", 0) THEN "audit.removed_from_group" ELSE "audit.moved_to_group"
           what == {<<name, 0>>} \cup (IF req[r].flag THEN Booked(req[r].a, req[r].d) ELSE {})
<1>1. /\ Due(r, "updateTrip", "group") /\ Emit(req[r].t, what) /\ Finish(r) /\ db' = db
  BY DEF UpdateTripGroup
<1>2. req[r].op = "updateTrip" /\ req'[r] = Idle
  BY <1>1, TripDue, TripTail, TripFinishes DEF TripOps
<1>3. name # "trip.booked" OBVIOUS
<1>4. /\ what \subseteq {<<name, 0>>} \cup Booked(req[r].a, req[r].d)
      /\ req[r].flag => Booked(req[r].a, req[r].d) \subseteq what
  OBVIOUS
<1> HIDE DEF name, what
<1>5. Announced(req[r].d) /\ (Grouping(req[r]) => Telling(events'))
  <2> DEFINE contact == req[r].a
             date == req[r].d
  <2>1. /\ what \subseteq {<<name, 0>>} \cup Booked(contact, date)
        /\ req[r].flag => Booked(contact, date) \subseteq what
    BY <1>4
  <2>2. Grouping(req[r]) => req[r].flag /\ contact # 0 /\ date # 0 BY DEF Grouping
  <2> HIDE DEF contact, date
  <2>3. Announced(date) /\ (Grouping(req[r]) => Telling(events'))
    BY <1>1, <1>3, <2>1, <2>2, EmittedWith
  <2> QED BY <2>3 DEF date
<1>6. CallsApart(r, req[r].d) BY <1>2, IdleTrips DEF CallsApart, TripOps
<1>7. RowsKept(env, db, db') /\ FairRows(db, db') /\ (BookedTrip(env, db') => BookedTrip(env, db))
  BY <1>1, SameRowsKept DEF SameRows
<1> QED BY <1>2, <1>5, <1>6, <1>7, IdleTrips DEF TripEffect, RowsKept

\* What a single event that is no booking means.
LEMMA Whispered ==
    ASSUME NEW r \in Requests, NEW x, NEW name, name # "trip.booked", Emit(x, {<<name, 0>>}),
           req[r].op \in TripOps, req'[r].op \in {req[r].op, "idle"}
    PROVE  Announced(0) /\ CallsApart(r, 0)
<1>1. Announced(0) BY EmittedWith
<1>2. Hushed BY <1>1 DEF Announced, Hushed, IsEvent
<1> QED BY <1>1, <1>2 DEF CallsApart

LEMMA RemoveTripEffect ==
    ASSUME Framed, TripTables(env, db), NEW r \in Requests, TripSlot(env, db, req[r]), RemoveTripDelete(r)
    PROVE  TripEffect(r)
<1>1. /\ Due(r, "removeTrip", "delete") /\ Finish(r) /\ db' = DropTrip(db, req[r].t)
      /\ Emit(req[r].t, {<<"trip.deleted", 0>>})
  BY DEF RemoveTripDelete, DeleteTripRow
<1>2. /\ req[r].op = "removeTrip" /\ req[r].pc = <<"delete">> /\ req[r].t \in Trips
      /\ req'[r] = Idle
  BY <1>1, TripDue, TripTail, TripFinishes DEF TripSlot, TripOps, OneTripOps
<1>3. /\ RowsKept(env, db, db')
      /\ db.trip[req[r].t] = NoTrip \/ CanDelete(db.trip[req[r].t].status) => FairRows(db, db')
      /\ BookedTrip(env, db') => BookedTrip(env, db)
  BY <1>1, <1>2, DroppedTripKept DEF Framed
<1>4. Ready(db, req[r]) => FairRows(db, db') BY <1>2, <1>3 DEF Ready, Removable
<1>5. Announced(0) /\ CallsApart(r, 0) BY <1>1, <1>2, Whispered, IdleTrips DEF TripOps
<1>6. ~Grouping(req[r]) BY <1>2, NotGrouping
<1> QED BY <1>2, <1>3, <1>4, <1>5, <1>6, IdleTrips, TripWrites

\* The trips left to a bulk operation.
LEMMA LeftOver ==
    ASSUME Framed, NEW r \in Requests, NEW w, BulkEach(r, w)
    PROVE  /\ req'[r].op = req[r].op /\ req'[r].pc = <<"each">> /\ req[r].pc = <<"each">>
           /\ req'[r].seen = req[r].seen \ {w} /\ req'[r].v = req[r].v
<1> DEFINE row == [req[r] EXCEPT !.seen = @ \ {w}]
<1>1. Go(r, row) /\ req[r].pc = <<"each">> BY DEF BulkEach
<1>2. /\ row.op = req[r].op /\ row.pc = req[r].pc /\ row.seen = req[r].seen \ {w}
      /\ row.v = req[r].v
  BY IdleFacts DEF Framed, Slotted
<1>3. req'[r] = row BY <1>1, WentTo
<1> QED BY <1>1, <1>2, <1>3

LEMMA FewerSeen ==
    ASSUME NEW t, NEW seen, NEW fewer, fewer \subseteq seen
    PROVE  /\ AllKnown(env, t, seen) => AllKnown(env, t, fewer)
           /\ AllRemovable(t, seen) => AllRemovable(t, fewer)
BY DEF AllKnown, AllRemovable

\* What is left of a bulk operation after a write.
LEMMA BulkSlot ==
    ASSUME Framed, TripTables(env, db), NEW r \in Requests, TripSlot(env, db, req[r]), req[r].op \in BulkOps,
           NEW w, BulkEach(r, w), RowsKept(env, db, db')
    PROVE  TripSlot(env, db', req'[r])
<1>1. AllKnown(env, db, req[r].seen) /\ req'[r].seen \subseteq req[r].seen BY LeftOver DEF TripSlot
<1>2. AllKnown(env, db, req'[r].seen) BY <1>1, FewerSeen
<1>3. TripSlot(env, db, req'[r]) BY <1>2, LeftOver DEF TripSlot, BulkOps, OneTripOps
<1> QED BY <1>3, SlotKept DEF RowsKept

LEMMA BulkDeleteEffect ==
    ASSUME Framed, TripTables(env, db), NEW r \in Requests, TripSlot(env, db, req[r]), BulkDeleteEach(r)
    PROVE  TripEffect(r)
<1>1. PICK w \in req[r].seen :
          /\ req[r].op = "bulkDelete" /\ BulkEach(r, w) /\ db' = DropTrip(db, w[1])
          /\ Emit(w[1], {<<"trip.deleted", 0>>})
  BY DEF BulkDeleteEach, DeleteTripRow
<1>2. /\ req'[r].op = "bulkDelete" /\ req[r].pc = <<"each">> /\ req'[r].pc = <<"each">>
      /\ req'[r].seen = req[r].seen \ {w}
  BY <1>1, LeftOver
<1>3. w[1] \in Trips BY <1>1, <1>2 DEF TripSlot, AllKnown, Known, BulkOps
<1> DEFINE x == w[1]
<1>4. x \in Trips /\ db' = DropTrip(db, x) BY <1>1, <1>3
<1> HIDE DEF x
<1>5. /\ RowsKept(env, db, db')
      /\ db.trip[x] = NoTrip \/ CanDelete(db.trip[x].status) => FairRows(db, db')
      /\ BookedTrip(env, db') => BookedTrip(env, db)
      /\ \A y \in Trips : db'.trip[y] = db.trip[y] \/ db'.trip[y] = NoTrip
  BY <1>4, DroppedTripKept DEF Framed
<1>6. ASSUME Ready(db, req[r]) PROVE FairRows(db, db') /\ Ready(db', req'[r])
  <2>1. AllRemovable(db, req[r].seen) BY <1>1, <1>2, <1>6 DEF Ready
  <2>2. FairRows(db, db') BY <1>1, <1>5, <2>1 DEF AllRemovable, Removable, x
  <2>3. AllKnown(env, db, req[r].seen) BY <1>1, <1>2 DEF TripSlot, BulkOps
  <2>4. AllRemovable(db', req'[r].seen)
    BY <1>5, <2>1, <2>3, <1>2 DEF AllRemovable, Removable, AllKnown, Known
  <2> QED BY <1>2, <2>2, <2>4 DEF Ready
<1>7. TripSlot(env, db', req'[r]) BY <1>1, <1>5, BulkSlot DEF BulkOps
<1>8. Announced(0) /\ CallsApart(r, 0) BY <1>1, <1>2, Whispered DEF TripOps
<1>9. ~Grouping(req[r]) BY <1>1, NotGrouping
<1> QED BY <1>5, <1>6, <1>7, <1>8, <1>9, TripWrites

\* A write that changes neither status nor contact nor date.
LEMMA PlainRow ==
    ASSUME NEW a, TripRow(env, a), a # NoTrip, NEW row, DOMAIN row = RowFields,
           row.contact = a.contact, row.status = a.status, row.date = a.date
    PROVE  TripRow(env, row) /\ row # NoTrip /\ RowMove(env, a, row)
<1>1. row.status = "booked" /\ "date" \notin env.patches => row.date # 0 BY DEF TripRow
<1> QED BY <1>1, StatusRow DEF Dated

\* A bulk operation other than delete has nothing to keep in view.
LEMMA BulkReady ==
    ASSUME NEW t, NEW q, q.op \in {"bulkArchive", "bulkStatus"} PROVE Ready(t, q)
BY DEF Ready

LEMMA BulkArchiveEffect ==
    ASSUME Framed, TripTables(env, db), NEW r \in Requests, TripSlot(env, db, req[r]), BulkArchiveEach(r)
    PROVE  TripEffect(r)
<1>1. PICK w \in req[r].seen :
          /\ req[r].op = "bulkArchive" /\ BulkEach(r, w)
          /\ db' = IF Existing(w[1]) THEN [db EXCEPT !.trip[w[1]].archived = req[r].flag] ELSE db
          /\ Emit(w[1], {<<"trip.updated", 0>>})
  BY DEF BulkArchiveEach
<1>2. req'[r].op = "bulkArchive" /\ req[r].pc = <<"each">> BY <1>1, LeftOver
<1>3. w[1] \in Trips BY <1>1, <1>2 DEF TripSlot, AllKnown, Known, BulkOps
<1>4. /\ RowsKept(env, db, db') /\ FairRows(db, db') /\ (BookedTrip(env, db') => BookedTrip(env, db))
  <2>1. CASE ~Existing(w[1]) BY <1>1, <2>1, SameRowsKept DEF SameRows
  <2>2. CASE Existing(w[1])
    <3> DEFINE x == w[1]
               old == db.trip[x]
               row == [old EXCEPT !.archived = req[r].flag]
    <3>1. x \in Trips /\ TripRow(env, old) /\ old # NoTrip /\ DOMAIN old = RowFields
      BY <1>3, <2>2 DEF TripTables, Existing, TripRow
    <3>2. RowWritten(db, db', x, row)
      BY <1>1, <2>2, <3>1 DEF Framed, Tabled, Fields, RowFields, RowWritten, TripTables
    <3>3. /\ DOMAIN row = RowFields /\ row.status = old.status /\ row.date = old.date
          /\ row.contact = old.contact /\ row.token = old.token
      BY <3>1 DEF RowFields
    <3>4. old = db.trip[x] OBVIOUS
    <3> HIDE DEF x, old, row
    <3>5. TripRow(env, row) /\ row # NoTrip /\ RowMove(env, old, row) BY <3>1, <3>3, PlainRow
    <3>6. FairRow(old, row) BY <3>3, <3>5 DEF FairRow
    <3>7. ContactBooked(row) => BookedTrip(env, db)
      BY <3>1, <3>3, <3>4 DEF BookedTrip, ContactBooked
    <3> QED BY <3>1, <3>2, <3>3, <3>4, <3>5, <3>6, <3>7, WrittenRowKept
  <2> QED BY <2>1, <2>2
<1>5. TripSlot(env, db', req'[r]) BY <1>1, <1>4, BulkSlot DEF BulkOps
<1>6. Announced(0) /\ CallsApart(r, 0) BY <1>1, <1>2, Whispered DEF TripOps
<1>7. ~Grouping(req[r]) /\ Ready(db', req'[r]) BY <1>1, <1>2, NotGrouping, BulkReady
<1> QED BY <1>4, <1>5, <1>6, <1>7, TripWrites

LEMMA BulkStatusEffect ==
    ASSUME Framed, TripTables(env, db), NEW r \in Requests, TripSlot(env, db, req[r]), BulkChangeStatusEach(r)
    PROVE  TripEffect(r)
<1>1. PICK w \in req[r].seen : LET date == BookingDate(0, req[r].v = "booked") IN
        /\ req[r].op = "bulkStatus" /\ req[r].pc = <<"each">>
        /\ IF Existing(w[1]) => TriggerAllows(w[1], req[r].v)
           THEN /\ BulkEach(r, w)
                /\ db' = IF Existing(w[1])
                         THEN [db EXCEPT !.trip[w[1]].status = req[r].v,
                                         !.trip[w[1]].date = IF date = 0 THEN @ ELSE date]
                         ELSE db
                /\ Emit(w[1], {<<"trip.updated", 0>>} \cup Booked(w[2], date))
           ELSE Refuse(r) /\ events' = events
  BY Zenon DEF BulkChangeStatusEach
<1> DEFINE x == w[1]
           contact == w[2]
           date == BookingDate(0, req[r].v = "booked")
           what == {<<"trip.updated", 0>>} \cup Booked(contact, date)
<1>2. req[r].op = "bulkStatus" /\ req[r].pc = <<"each">> BY <1>1
<1>3. ~Grouping(req[r]) BY <1>2, NotGrouping
<1>4. Known(env, db, x, contact) BY <1>1, <1>2 DEF TripSlot, AllKnown, BulkOps
<1>5. CASE ~(Existing(x) => TriggerAllows(x, req[r].v))
  BY <1>1, <1>5, <1>2, RefusesAs, <1>3, TripEnds DEF TripOps
<1>6. CASE Existing(x) => TriggerAllows(x, req[r].v)
  <2>1. /\ BulkEach(r, w) /\ Emit(x, what)
        /\ ~Existing(x) => db' = db
        /\ Existing(x) => db' = [db EXCEPT !.trip[x].status = req[r].v,
                                           !.trip[x].date = IF date = 0 THEN @ ELSE date]
    BY <1>1, <1>6
  <2>2. req'[r].op = "bulkStatus" BY <1>2, <2>1, LeftOver
  <2>3. /\ date \in {0, MaxDate} /\ (req[r].v = "booked" => date # 0)
    BY DateOfBooking
  <2>4. what \subseteq {<<"trip.updated", 0>>} \cup Booked(contact, date)
        /\ Booked(contact, date) \subseteq what
    OBVIOUS
  <2> HIDE DEF date, what, contact, x
  <2>5. Announced(date) /\ (contact # 0 /\ date # 0 => Telling(events'))
    BY <2>1, <2>4, EmittedWith
  <2>6. CallsApart(r, date)
    <3>1. CASE date = MaxDate BY <1>2, <2>2, <3>1 DEF CallsApart, TripOps
    <3>2. CASE date = 0
      BY <2>5, <3>2, <1>2, <2>2 DEF Announced, Hushed, IsEvent, CallsApart, TripOps
    <3> QED BY <2>3, <3>1, <3>2
  <2>7. /\ RowsKept(env, db, db') /\ FairRows(db, db')
        /\ BookedTrip(env, db') => BookedTrip(env, db) \/ Telling(events')
    <3>1. CASE ~Existing(x) BY <2>1, <3>1, SameRowsKept DEF SameRows
    <3>2. CASE Existing(x)
      <4> DEFINE old == db.trip[x]
                 given == IF date = 0 THEN old.date ELSE date
                 row == [old EXCEPT !.status = req[r].v, !.date = given]
      <4>1. /\ x \in Trips /\ TripRow(env, old) /\ old # NoTrip /\ DOMAIN old = RowFields
            /\ CanTransition(old.status, req[r].v)
        BY <1>4, <1>6, <3>2 DEF Known, TripTables, Existing, TripRow, TriggerAllows
      <4>2. RowWritten(db, db', x, row)
        <5>1. DOMAIN db.trip = Trips BY DEF TripTables
        <5>2. db'.trip = [db.trip EXCEPT ![x] = row]
          <6>1. db' = [db EXCEPT !.trip[x].status = req[r].v, !.trip[x].date = given]
            BY <2>1, <3>2, <4>1, <5>1 DEF Framed, Tabled, Fields, RowFields
          <6> HIDE DEF given
          <6> QED BY <6>1, <4>1, <5>1 DEF Framed, Tabled, Fields, RowFields
        <5>3. db'.log = db.log /\ db'.first = db.first /\ db'.made = db.made
          BY <2>1, <3>2 DEF Framed, Tabled, Fields
        <5> QED BY <5>2, <5>3 DEF RowWritten
      <4>3. /\ DOMAIN row = RowFields /\ row.status = req[r].v /\ row.date = given
            /\ row.contact = old.contact /\ row.token = old.token
        BY <4>1 DEF RowFields
      <4>4. /\ old = db.trip[x]
            /\ "contact" \notin env.patches => old.contact = contact
        BY <1>4, <4>1 DEF Known
      <4>5. req[r].v = "booked" => given # 0 BY <2>3
      <4>6. TripRow(env, row) /\ row # NoTrip /\ RowMove(env, old, row)
        <5>1. req[r].v \in TripStatuses /\ "none" \notin TripStatuses
          BY <1>2 DEF TripSlot, TripStatuses
        <5>2. req[r].v \in {old.status} \cup TRIP_STATUS_TRANSITIONS[old.status]
          BY <4>1, <5>1 DEF CanTransition
        <5> HIDE DEF old, given, row
        <5>3. Dated(old, row) BY <4>3, <4>5 DEF Dated
        <5> QED BY <4>1, <4>3, <4>5, <5>2, <5>3, StatusRow
      <4> HIDE DEF old, row, given
      <4>7. FairRow(old, row) BY <4>3, <4>6 DEF FairRow
      <4>8. ContactBooked(row) => Telling(events')
        BY <2>3, <2>5, <4>3, <4>4 DEF ContactBooked
      <4> QED BY <4>1, <4>2, <4>4, <4>6, <4>7, <4>8, WrittenRowKept
    <3> QED BY <3>1, <3>2
  <2>8. TripSlot(env, db', req'[r]) /\ Ready(db', req'[r])
    BY <1>2, <2>1, <2>2, <2>7, BulkSlot, BulkReady DEF BulkOps
  <2> QED BY <1>3, <2>5, <2>6, <2>7, <2>8, TripWrites
<1> QED BY <1>5, <1>6

\* A link is given or taken back.
LEMMA TokenEffect ==
    ASSUME Framed, TripTables(env, db), NEW r \in Requests, TripSlot(env, db, req[r]),
           PublishTripWrite(r) \/ UnpublishTripWrite(r)
    PROVE  TripEffect(r)
<1> DEFINE x == req[r].t
           old == db.trip[x]
<1>1. /\ Due(r, "publishTrip", "write") \/ Due(r, "unpublishTrip", "write")
      /\ Refuse(r) \/ Finish(r)
  BY DEF PublishTripWrite, UnpublishTripWrite
<1>2. /\ req[r].op \in {"publishTrip", "unpublishTrip"} /\ req[r].pc = <<"write">> /\ x \in Trips
      /\ Due(r, "unpublishTrip", "write") => req[r].op = "unpublishTrip"
  BY <1>1, TripDue DEF TripSlot, TripOps, OneTripOps, Due
<1>3. req'[r] = Idle /\ ~Grouping(req[r])
  BY <1>1, <1>2, TripTail, TripFinishes, RefusesAs, NotGrouping DEF TripOps
<1>4. (Announced(0) /\ CallsApart(r, 0)) \/ (events' = events /\ db' = db)
  BY <1>2, <1>3, Whispered, IdleTrips DEF PublishTripWrite, UnpublishTripWrite, TripOps, Refuse
<1>5. CASE events' = events /\ db' = db BY <1>2, <1>3, <1>5, TripEnds DEF TripOps
<1>6. CASE Announced(0) /\ CallsApart(r, 0) /\ Refuse(r)
  BY <1>6, SameRowsKept, <1>3, IdleTrips, TripWrites DEF SameRows, Refuse
<1>7. CASE Announced(0) /\ CallsApart(r, 0) /\ ~Refuse(r)
  <2> DEFINE Shown(published, token) == [old EXCEPT !.published = published, !.token = token]
  <2>1. /\ old # NoTrip
        /\ \/ /\ db' = [db EXCEPT !.made.token = @ + 1, !.trip[x] = Shown(TRUE, db.made.token + 1)]
              /\ req[r].op = "publishTrip"
           \/ db' = [db EXCEPT !.trip[x] = Shown(FALSE, 0)]
    BY <1>2, <1>7 DEF PublishTripWrite, UnpublishTripWrite, Existing, Due, TripTables
  <2>2. PICK published, token : /\ \/ db' = [db EXCEPT !.made.token = @ + 1, !.trip[x] = Shown(published, token)]
                                   \/ db' = [db EXCEPT !.trip[x] = Shown(published, token)]
                                /\ published = FALSE \/ req[r].op = "publishTrip"
    BY <2>1, Zenon
  <2> DEFINE row == Shown(published, token)
  <2>r. \/ db' = [db EXCEPT !.made.token = @ + 1, !.trip[x] = row]
        \/ db' = [db EXCEPT !.trip[x] = row]
    BY <2>2
  <2>3. TripRow(env, old) /\ DOMAIN old = RowFields BY <1>2 DEF TripTables, TripRow
  <2>4. RowWritten(db, db', x, row)
    <3>1. DOMAIN db.trip = Trips BY DEF TripTables
    <3> HIDE DEF x, row
    <3>2. db'.trip = [db.trip EXCEPT ![x] = row]
      BY <1>2, <3>1, <2>r DEF Framed, Tabled, Fields
    <3>3. db'.log = db.log /\ db'.first = db.first /\ db'.made.trip = db.made.trip
      <4>1. CASE db' = [db EXCEPT !.trip[x] = row] BY <4>1 DEF Framed, Tabled, Fields
      <4>2. CASE db' = [db EXCEPT !.made.token = @ + 1, !.trip[x] = row]
        BY <4>2 DEF Framed, Tabled, Fields, Counters
      <4> QED BY <2>r, <4>1, <4>2
    <3> QED BY <3>2, <3>3 DEF RowWritten
  <2>5. /\ DOMAIN row = RowFields /\ row.status = old.status /\ row.date = old.date
        /\ row.contact = old.contact /\ row.published = published
    BY <2>3 DEF RowFields
  <2>6. old = db.trip[x] /\ (Ready(db, req[r]) => published = FALSE \/ ~old.published)
    BY <1>2, <2>2 DEF Ready
  <2> HIDE DEF x, old, row
  <2>7. TripRow(env, row) /\ row # NoTrip /\ RowMove(env, old, row) BY <2>1, <2>3, <2>5, PlainRow
  <2>8. Ready(db, req[r]) => FairRow(old, row) BY <2>5, <2>6, <2>7 DEF FairRow
  <2>9. ContactBooked(row) => BookedTrip(env, db)
    BY <1>2, <2>5, <2>6 DEF BookedTrip, ContactBooked, x
  <2>a. x \in Trips /\ db.trip[x] # NoTrip /\ RowMove(env, db.trip[x], row) BY <1>2, <2>1, <2>6, <2>7
  <2>b. /\ RowsKept(env, db, db') /\ (FairRow(db.trip[x], row) => FairRows(db, db'))
        /\ BookedTrip(env, db') => BookedTrip(env, db) \/ ContactBooked(row)
    BY <2>4, <2>7, <2>a, WrittenRowKept
  <2>10. /\ RowsKept(env, db, db') /\ (Ready(db, req[r]) => FairRows(db, db'))
         /\ BookedTrip(env, db') => BookedTrip(env, db)
    BY <2>5, <2>6, <2>8, <2>9, <2>b
  <2> QED BY <1>3, <1>7, <2>10, IdleTrips, TripWrites
<1> QED BY <1>4, <1>5, <1>6, <1>7

LEMMA TripStepEffect ==
    ASSUME Framed, TripTables(env, db), NEW r \in Requests, TripSlot(env, db, req[r]), TripStep(r)
    PROVE  TripEffect(r)
BY ArrivingEffect, FindingEffect, BulkReadEffect, CreateTripEffect, UpdateTripEffect, GroupEffect,
   RemoveTripEffect, BulkDeleteEffect, BulkArchiveEffect, BulkStatusEffect, TokenEffect
   DEF TripStep

-----------------------------------------------------------------------------
(* Every step keeps the trips and what is told of them                       *)

TripsOk == /\ TripTables(env, db) /\ \A r \in Requests : TripSlot(env, db, req[r])
           /\ \A e \in events : IsEvent(e)

\* Who has yet to hear of a trip: the log that it was created, its contact that it is booked.
AllLogged == \A x \in Trips : db.trip[x] # NoTrip => Logged(db, x) \/ CreatedIn(events, x)
FirstKnown == BookedTrip(env, db) => \/ db.first # 0
                                \/ Telling(events)
                                \/ \E r \in Requests : Grouping(req[r])
Recorded == faults = 0 => AllLogged /\ FirstKnown

\* Requests that do not overlap: bookings told at one time have one date, and a request finds
\* what it has read.
TellsApart ==
    /\ \A e, f \in events : e.on = "contact" /\ f.on = "contact" => e.date = f.date
    /\ \A e \in events : e.on = "contact" =>
          /\ e.read /\ db.first # 0 => db.first = e.date
          /\ \A r \in Requests : req[r].op \in TripOps =>
                req[r].op = "bulkStatus" /\ e.date = MaxDate
Careful == env.isolated => TellsApart /\ \A r \in Requests : Ready(db, req[r])

TripBook == OrderBook /\ TripsOk /\ Recorded /\ Careful

LEMMA RowsStay ==
    ASSUME NEW t, NEW u, TripTables(env, t), u.trip = t.trip, u.made.trip = t.made.trip
    PROVE  /\ TripTables(env, u) /\ OldRows(env, t, u) /\ (BookedTrip(env, u) <=> BookedTrip(env, t))
           /\ \A q : TripSlot(env, t, q) => TripSlot(env, u, q)
           /\ \A q : Ready(t, q) => Ready(u, q)
<1>1. TripTables(env, u) /\ OldRows(env, t, u) BY DEF TripTables, OldRows, RowMove
<1>2. \A q : TripSlot(env, t, q) => TripSlot(env, u, q) BY <1>1, SlotKept
<1>3. \A q : Ready(t, q) => Ready(u, q) BY DEF Ready, AllRemovable, Removable
<1> QED BY <1>1, <1>2, <1>3 DEF BookedTrip

LEMMA OtherReady ==
    ASSUME NEW t, NEW q, q.op \notin TripOps PROVE Ready(t, q) /\ ~Grouping(q)
BY DEF Ready, Grouping, TripOps

\* A step of a request about something else.
LEMMA OtherRequest ==
    ASSUME TripBook, NEW r \in Requests, \A q \in Requests \ {r} : req'[q] = req[q],
           req[r].op \notin TripOps, req'[r].op \notin TripOps, env' = env, events' = events,
           db'.trip = db.trip, db'.made.trip = db.made.trip, db'.log = db.log,
           db'.first = db.first, faults' = 0 => faults = 0
    PROVE  TripsOk' /\ Recorded' /\ Careful'
<1>1. /\ TripTables(env, db') /\ (BookedTrip(env, db') <=> BookedTrip(env, db))
      /\ \A q : TripSlot(env, db, q) => TripSlot(env, db', q)
      /\ \A q : Ready(db, q) => Ready(db', q)
  BY RowsStay DEF TripBook, TripsOk
<1>2. TripsOk' BY <1>1, OtherSlot DEF TripBook, TripsOk
<1>3. \A q \in Requests : Grouping(req[q]) => Grouping(req'[q]) BY OtherReady
<1>4. AllLogged => AllLogged' BY DEF AllLogged, Logged
<1>5. FirstKnown => FirstKnown' BY <1>1, <1>3 DEF FirstKnown
<1>6. Recorded' BY <1>4, <1>5 DEF TripBook, Recorded
<1>7. \A q \in Requests : Ready(db, req[q]) => Ready(db', req'[q]) BY <1>1, OtherReady
<1>8. TellsApart => TellsApart' BY DEF TellsApart
<1> QED BY <1>2, <1>6, <1>7, <1>8 DEF TripBook, Careful

\* A request about trips keeps apart what is told of bookings.
LEMMA ToldApart ==
    ASSUME TellsApart, NEW r \in Requests, \A q \in Requests \ {r} : req'[q] = req[q],
           \A q \in Requests \ {r} : req[q].op \notin TripOps,
           db'.first = db.first, NEW date, Announced(date), CallsApart(r, date)
    PROVE  TellsApart'
<1>0. "idle" \notin TripOps BY DEF TripOps
<1>a. \A e \in events' : e.on = "contact" => e \in events \/ (e.read = FALSE /\ e.date = date)
  BY DEF Announced
<1>1. CASE events = {} /\ events' = {} BY <1>1 DEF TellsApart
<1>2. CASE req[r].op \in TripOps \ {"bulkStatus"} /\ req'[r].op = "idle"
  BY <1>2, <1>a, <1>0 DEF TellsApart
<1>3. CASE req[r].op \in TripOps /\ req'[r].op \in {req[r].op, "idle"} /\ Hushed
  BY <1>3, <1>0 DEF Hushed, TellsApart
<1>4. CASE req[r].op = "bulkStatus" /\ req'[r].op \in {req[r].op, "idle"} /\ date = MaxDate
  BY <1>a, <1>4, <1>0 DEF TellsApart, TripOps
<1> QED BY <1>1, <1>2, <1>3, <1>4 DEF CallsApart

LEMMA TripBookTrips ==
    ASSUME TripBook, NEW r \in Requests, TripStep(r), env' = env
    PROVE  /\ TripsOk' /\ Recorded' /\ Careful'
           /\ OldRows(env, db, db') /\ db'.first = db.first
           /\ \A x \in Trips : Dated(db.trip[x], db'.trip[x])
           /\ env.isolated => FairRows(db, db')
<1>1. /\ Framed /\ Alone /\ TripTables(env, db) /\ (\A q \in Requests : TripSlot(env, db, req[q]))
      /\ (\A e \in events : IsEvent(e)) /\ Recorded /\ Careful
  BY DEF TripBook, TripsOk, OrderBook
<1>2. Moved(r, TripOps) /\ faults' = faults /\ TripEffect(r)
  BY <1>1, TripStepMoves, TripStepEffect
<1>3. /\ \A q \in Requests \ {r} : req'[q] = req[q]
      /\ Tripping(req[r]) \/ req[r].op = "idle"
  BY <1>2 DEF Moved, TripOps, Tripping
<1>5. /\ TripTables(env, db') /\ OldRows(env, db, db') /\ db'.first = db.first /\ TripSlot(env, db', req'[r])
      /\ \A x \in Trips : Dated(db.trip[x], db'.trip[x])
      /\ BookedTrip(env, db') => BookedTrip(env, db) \/ Telling(events') \/ Grouping(req'[r])
      /\ Grouping(req[r]) => Telling(events')
      /\ env.isolated /\ Ready(db, req[r]) => FairRows(db, db') /\ Ready(db', req'[r])
      /\ \A x \in Trips : db'.trip[x] # NoTrip =>
            \/ CreatedIn(events', x)
            \/ db.trip[x] # NoTrip /\ (Logged(db, x) => Logged(db', x))
  BY <1>2 DEF TripEffect
<1>6. PICK date : Announced(date) /\ (env.isolated => CallsApart(r, date))
  BY <1>2 DEF TripEffect
<1>7. TripsOk'
  BY <1>1, <1>3, <1>5, SlotKept, <1>6 DEF Announced, TripsOk
<1>8. Recorded'
  <2>1. (Telling(events) => Telling(events')) /\ \A x : CreatedIn(events, x) => CreatedIn(events', x)
    BY <1>6 DEF Announced, Telling, CreatedIn
  <2>2. AllLogged => AllLogged' BY <1>5, <2>1 DEF AllLogged
  <2>3. FirstKnown => FirstKnown' BY <1>3, <1>5, <2>1 DEF FirstKnown
  <2> QED BY <1>1, <1>2, <2>2, <2>3 DEF Recorded
<1>9. ASSUME env.isolated PROVE TellsApart' /\ FairRows(db, db') /\ \A q \in Requests : Ready(db', req'[q])
  <2>1. \A q \in Requests \ {r} : req[q].op \notin TripOps
    BY <1>1, <1>9, ComesAlone, IdleTrips, <1>3 DEF Alone, Tripping
  <2>2. TellsApart' BY <1>1, <1>3, <1>5, <1>6, <1>9, <2>1, ToldApart DEF Careful
  <2>3. FairRows(db, db') /\ Ready(db', req'[r]) BY <1>1, <1>5, <1>9 DEF Careful
  <2> QED BY <1>3, <2>1, <2>2, <2>3, OtherReady
<1>10. Careful' BY <1>9 DEF Careful
<1> QED BY <1>5, <1>7, <1>8, <1>9, <1>10

\* A handler tells the log or the contact, and is done.
LEMMA TripBookHandlers ==
    ASSUME TripBook, HandlerStep, env' = env
    PROVE  /\ TripsOk' /\ Recorded' /\ Careful'
           /\ db'.trip = db.trip
           /\ env.isolated /\ db.first # 0 => db'.first = db.first
<1>1. /\ Framed /\ TripsOk /\ Recorded /\ Careful /\ faults \in Nat BY DEF TripBook, OrderBook
<1>2. req' = req /\ db'.made = db.made /\ db'.trip = db.trip BY <1>1, HandlerWrites
<1>3. /\ TripTables(env, db') /\ (BookedTrip(env, db') <=> BookedTrip(env, db))
      /\ \A q \in Requests : TripSlot(env, db', req'[q])
      /\ \A q : Ready(db, q) => Ready(db', q)
  BY <1>1, <1>2, RowsStay DEF TripsOk
<1>5. PICK e \in events : LogEvent(e) \/ HandleTripBooked(e) \/ SetFirstBookingDate(e) \/ HandlerDies(e)
  BY DEF HandlerStep
<1>6. CASE LogEvent(e)
  <2>1. /\ e.on = "log" /\ events' = events \ {e} /\ faults' = faults
        /\ db'.first = db.first /\ db.log \subseteq db'.log
        /\ db.trip[e.trip] # NoTrip => <<e.name, e.trip>> \in db'.log
    BY <1>6, <1>1 DEF LogEvent, Existing, Framed, Tabled, Fields
  <2>2. AllLogged => AllLogged'
    <3> SUFFICES ASSUME AllLogged, NEW x \in Trips, db'.trip[x] # NoTrip
                 PROVE  Logged(db', x) \/ CreatedIn(events', x)
      BY DEF AllLogged
    <3>1. CASE Logged(db, x) BY <2>1, <3>1 DEF Logged
    <3>2. CASE CreatedIn(events, x)
      BY <3>2, <1>2, <2>1 DEF CreatedIn, Logged
    <3> QED BY <1>2, <3>1, <3>2 DEF AllLogged
  <2>3. Telling(events) => Telling(events') BY <2>1 DEF Telling
  <2>4. FirstKnown => FirstKnown' BY <1>2, <1>3, <2>1, <2>3 DEF FirstKnown
  <2>5. TellsApart => TellsApart' BY <1>2, <2>1 DEF TellsApart
  <2> QED BY <1>1, <1>2, <1>3, <2>1, <2>2, <2>4, <2>5 DEF TripsOk, Recorded, Careful
<1>7. CASE HandleTripBooked(e)
  <2> DEFINE heard == [e EXCEPT !.read = TRUE]
  <2>1. /\ e.on = "contact" /\ events' = (events \ {e}) \cup (IF db.first # 0 THEN {} ELSE {heard})
        /\ db' = db /\ faults' = faults
    BY <1>7 DEF HandleTripBooked
  <2>2. IsEvent(heard) /\ heard.on = "contact" /\ heard.date = e.date
    BY <1>1, <2>1 DEF TripsOk, IsEvent
  <2> HIDE DEF heard
  <2>3. AllLogged => AllLogged' BY <2>1 DEF AllLogged, CreatedIn
  <2>4. db.first # 0 \/ Telling(events') BY <2>1, <2>2 DEF Telling
  <2>5. FirstKnown' BY <2>1, <2>4 DEF FirstKnown
  <2>6. TellsApart => TellsApart'
    BY <2>1, <2>2, <1>2 DEF TellsApart
  <2> QED BY <1>1, <1>2, <1>3, <2>1, <2>2, <2>3, <2>5, <2>6 DEF TripsOk, Recorded, Careful
<1>8. CASE SetFirstBookingDate(e)
  <2>1. /\ e.on = "contact" /\ e.read /\ events' = events \ {e} /\ faults' = faults
        /\ db'.first = e.date /\ db'.log = db.log /\ e.date # 0
    BY <1>1, <1>8 DEF SetFirstBookingDate, Framed, Tabled, Fields, TripsOk, IsEvent
  <2>2. AllLogged => AllLogged' BY <1>2, <2>1 DEF AllLogged, CreatedIn, Logged
  <2>3. FirstKnown' BY <2>1 DEF FirstKnown
  <2>4. TellsApart => TellsApart' /\ (db.first # 0 => db'.first = db.first)
    BY <1>2, <2>1 DEF TellsApart
  <2> QED BY <1>1, <1>2, <1>3, <2>1, <2>2, <2>3, <2>4 DEF TripsOk, Recorded, Careful
<1>9. CASE HandlerDies(e)
  BY <1>9, <1>2, <1>1, <1>3 DEF HandlerDies, TellsApart, TripsOk, Recorded, Careful
<1> QED BY <1>5, <1>6, <1>7, <1>8, <1>9

\* The rules of one step, of the rows and of the first booking date.
StepRules == /\ OldRows(env, db, db') /\ TripTables(env, db)
             /\ \A x \in Trips : Dated(db.trip[x], db'.trip[x])
             /\ env.isolated => FairRows(db, db') /\ (db.first # 0 => db'.first = db.first)

LEMMA TripBookStep == ASSUME TripBook, [Next]_vars PROVE TripBook' /\ StepRules
<1>0. /\ OrderBook' /\ OrderBook /\ Framed /\ faults \in Nat /\ faults' \in Nat
      /\ TripTables(env, db) /\ TripsOk /\ Recorded /\ Careful
  BY OrderBookStep DEF TripBook, TripsOk, OrderBook
<1>a. ASSUME db'.trip = db.trip, db'.made.trip = db.made.trip,
             env.isolated /\ db.first # 0 => db'.first = db.first
      PROVE  StepRules
  BY <1>0, <1>a DEF StepRules, TripTables, OldRows, RowMove, FairRows, FairRow, Dated
<1>1. ASSUME NEW r \in Requests, TripStep(r), env' = env PROVE TripBook' /\ StepRules
  BY <1>0, <1>1, TripBookTrips DEF TripBook, StepRules
<1>2. ASSUME NEW r \in Requests, OrderStep(r), env' = env, events' = events
      PROVE  TripBook' /\ StepRules
  <2>1. Moved(r, OrderOps) /\ OrderWrite(db, db') BY <1>0, <1>2, OrderStepMoves
  <2>2. /\ \A q \in Requests \ {r} : req'[q] = req[q]
        /\ req[r].op \notin TripOps /\ req'[r].op \notin TripOps
    BY <2>1 DEF Moved, OrderOps, TripOps
  <2>3. faults' = 0 => faults = 0 BY <1>0, <1>2, OrderStepEffect DEF OrderEffect, OrderBook
  <2>5. TripsOk' /\ Recorded' /\ Careful' BY <1>2, <2>1, <2>2, <2>3, OtherRequest DEF OrderWrite
  <2> QED BY <1>0, <1>a, <2>1, <2>5 DEF TripBook, OrderWrite
<1>3. ASSUME NEW r \in Requests, PlanMove(r), SameTrips(db, db'), env' = env, events' = events
      PROVE  TripBook' /\ StepRules
  BY <1>3, OtherRequest, <1>0, <1>a DEF PlanMove, SameTrips, Tripping, TripBook
<1>4. ASSUME NEW r \in Requests, Die(r), env' = env, events' = events PROVE TripBook' /\ StepRules
  <2>1. /\ \A q \in Requests \ {r} : req'[q] = req[q]
        /\ ~Tripping(req'[r]) /\ db' = db /\ faults' = faults + 1
    BY <1>0, <1>4, DiesMoves
  <2>2. faults' # 0 BY <1>0, <2>1
  <2>4. TripsOk' BY <1>0, <1>4, <2>1, OtherSlot DEF TripsOk, Tripping
  <2>5. \A q \in Requests : Ready(db, req[q]) => Ready(db', req'[q])
    BY <2>1, OtherReady DEF Tripping
  <2>6. TellsApart => TellsApart' BY <1>4, <2>1 DEF TellsApart, Tripping
  <2>7. Careful' /\ Recorded' BY <1>0, <1>4, <2>2, <2>5, <2>6 DEF Careful, Recorded
  <2> QED BY <1>0, <1>a, <2>1, <2>4, <2>7 DEF TripBook
<1>5. CASE HandlerStep /\ env' = env
  BY <1>0, <1>5, <1>a, TripBookHandlers, HandlerWrites DEF TripBook
<1>6. CASE (FormEffect \/ UNCHANGED vars) /\ env' = env /\ events' = events
  <2>1. req' = req /\ db' = db /\ faults' = faults BY <1>6 DEF FormEffect, vars
  <2> QED
    BY <1>0, <1>6, <1>a, <2>1 DEF TripBook, TripsOk, Recorded, AllLogged, FirstKnown, Careful,
       TellsApart
<1>7. CASE Next
  BY <1>0, <1>1, <1>2, <1>3, <1>4, <1>5, <1>6, <1>7, Steps, InsertSegmentsMoves
     DEF PlanStep, PlanWrite
<1>8. CASE UNCHANGED vars BY <1>6, <1>8 DEF vars
<1> QED BY <1>7, <1>8

LEMMA InitTrips == ASSUME Init PROVE TripBook
<1> DEFINE draft == [NoTrip EXCEPT !.status = "draft", !.contact = 1]
<1>1. /\ db.trip = [t \in Trips |-> IF t = TheTrip THEN draft ELSE NoTrip]
      /\ db.made.trip = 1 /\ db.log = {<<"trip.created", TheTrip>>}
      /\ events = {} /\ req = [r \in Requests |-> Idle] /\ faults = 0
  BY DEF Init, StartsFrom
<1>2. TripRow(env, draft) /\ draft.status = "draft" BY DEF TripRow, RowFields, NoTrip, TripStatuses
<1> HIDE DEF draft
<1>3. TripTables(env, db) BY <1>1, <1>2, NoTripRow DEF TripTables, TheTrip
<1>4. ~BookedTrip(env, db) BY <1>1, <1>2, NoTripRow DEF BookedTrip
<1>5. AllLogged BY <1>1 DEF AllLogged, Logged
<1>6. \A r \in Requests : req[r] = Idle BY <1>1
<1>7. TripsOk /\ Recorded /\ Careful
  BY <1>1, <1>3, <1>4, <1>5, <1>6, IdleTrips DEF TripsOk, Recorded, FirstKnown, Careful, TellsApart
<1> QED BY <1>7, InitOrders DEF TripBook

\* BookingRecorded: a booked trip has its date where nobody sends a null for it, and when all is
\* done and nothing died every trip is in the log and, where nobody changes the contact of a
\* trip, the contact of a booked trip has a first booking date, whatever overlaps.
THEOREM TripsBookedTruly == Spec => []BookingRecorded
<1>1. TripBook => BookingRecorded
  <2> SUFFICES ASSUME TripBook PROVE BookingRecorded OBVIOUS
  <2>1. "date" \notin env.patches =>
            \A x \in Trips : db.trip[x].status = "booked" => db.trip[x].date # 0
    BY DEF TripBook, TripsOk, TripTables, TripRow
  <2>2. ASSUME Quiet, faults = 0, NEW x \in Trips, Existing(x)
        PROVE  /\ <<"trip.created", x>> \in db.log
               /\ "contact" \notin env.patches /\ db.trip[x].status = "booked" /\ db.trip[x].contact # 0
                    => db.first # 0
    <3>1. events = {} /\ \A r \in Requests : ~Grouping(req[r]) BY <2>2, IdleTrips DEF Quiet
    <3>2. AllLogged /\ FirstKnown BY <2>2 DEF TripBook, Recorded
    <3>3. Logged(db, x) BY <2>2, <3>1, <3>2 DEF AllLogged, CreatedIn, Existing
    <3>4. BookedTrip(env, db) => db.first # 0 BY <3>1, <3>2 DEF FirstKnown, Telling
    <3> QED BY <3>3, <3>4 DEF BookedTrip, Logged
  <2> QED BY <2>1, <2>2 DEF BookingRecorded
<1> QED BY <1>1, InitTrips, TripBookStep, PTL DEF Spec

\* TripRules: no step moves the status of a trip against the workflow or books it without a date,
\* whatever overlaps; when requests do not, only drafts and quotes go, the link of a published
\* trip is good as long as it is published, and the first booking date of the contact stays.
THEOREM TripsFollowRules == Spec => TripRules
<1> DEFINE Rules ==
        /\ \A t \in Trips :
            LET from == db.trip[t].status
                to == db'.trip[t].status
            IN  /\ from # "none" /\ to \notin {"none", from} => to \in TRIP_STATUS_TRANSITIONS[from]
                /\ to = "booked" /\ from # "booked" => db'.trip[t].date # 0
        /\ env.isolated =>
            /\ \A t \in Trips : Existing(t) =>
                /\ db'.trip[t] = NoTrip => db.trip[t].status \in {"draft", "quoted"}
                /\ db.trip[t].published /\ db.trip[t].token # 0 /\ db'.trip[t].published
                       => db'.trip[t].token = db.trip[t].token
            /\ db.first # 0 => db'.first = db.first
<1>1. ASSUME StepRules PROVE Rules
  <2>1. ASSUME NEW t \in Trips, db.trip[t].status # "none",
               db'.trip[t].status \notin {"none", db.trip[t].status}
        PROVE  db'.trip[t].status \in TRIP_STATUS_TRANSITIONS[db.trip[t].status]
    BY <1>1, <2>1, NoTripRow DEF StepRules, TripTables, OldRows, RowMove
  <2>2. ASSUME env.isolated, NEW t \in Trips, Existing(t)
        PROVE  /\ db'.trip[t] = NoTrip => db.trip[t].status \in {"draft", "quoted"}
               /\ db.trip[t].published /\ db.trip[t].token # 0 /\ db'.trip[t].published
                    => db'.trip[t].token = db.trip[t].token
    BY <1>1, <2>2 DEF StepRules, FairRows, FairRow, Existing, CanDelete
  <2> QED BY <1>1, <2>1, <2>2 DEF StepRules, Dated
<1>2. TripBook /\ [Next]_vars => Rules \/ UNCHANGED vars BY <1>1, TripBookStep
<1>3. TripBook /\ [Next]_vars => TripBook' BY TripBookStep
<1> HIDE DEF Rules
<1>4. Spec => []TripBook BY InitTrips, <1>3, PTL DEF Spec
<1>5. Spec => [][Rules]_vars BY <1>2, <1>3, <1>4, PTL DEF Spec
<1> QED BY <1>5 DEF TripRules, Rules

LEMMA OrderServes ==
    ASSUME Framed, NEW r \in Requests, OrderStep(r) PROVE Serves(r, OrderOps)
<1> DEFINE arrives == GenerateTripOrderSnapshot(r) \/ FinalizeTripOrder(r) \/ SendTripOrder(r)
<1>1. CASE arrives
  BY <1>1, ComesAs, IdleFacts
     DEF GenerateTripOrderSnapshot, FinalizeTripOrder, SendTripOrder, OrderOps, Serves
<1>2. CASE ~arrives
  <2>1. /\ req[r].op \in OrderOps /\ req[r].pc # <<>>
        /\ Works(r) \/ ProviderSend(r) \/ SendEmailMark(r)
    BY <1>2, WorksOn, Zenon
       DEF OrderStep, GenerateReadTrip, GenerateNextVersion, GenerateInsert, FinalizeFind,
           FinalizeWrite, SendGet, SendPrepare, SendEmailLog, SendEmailFiltered, ProviderSend,
           SendEmailMark, MarkSentFind, MarkSentWrite, OfOrder, Due, OrderOps
  <2>2. CASE ProviderSend(r) \/ SendEmailMark(r)
    <3>1. /\ DOMAIN req = Requests /\ DOMAIN req[r] = DOMAIN Idle
          /\ DOMAIN Next1(r) = DOMAIN Idle /\ Next1(r).op = req[r].op /\ Next1(r).by = req[r].by
      BY NextSlot DEF Framed, Slotted
    <3>2. \/ /\ form' = form /\ req[r].op = "sendOrder"
             /\ \/ \E told : req' = [req EXCEPT ![r] = [Next1(r) EXCEPT !.flag = told]]
                \/ req' = [req EXCEPT ![r].flag = FALSE]
          \/ Works(r)
      BY <2>2, WorksOn, Zenon DEF ProviderSend, SendEmailMark, Due
    <3>3. Works(r) BY <3>1, <3>2, IdleFacts DEF Works, Others, Framed, Slotted
    <3> QED BY <2>1, <3>3 DEF Serves
  <2> QED BY <2>1, <2>2 DEF Serves
<1> QED BY <1>1, <1>2

LEMMA TripServes ==
    ASSUME Framed, NEW r \in Requests, TripStep(r) PROVE Serves(r, TripOps)
<1> DEFINE arrives == CreateTrip(r) \/ UpdateTrip(r) \/ RemoveTrip(r) \/ BulkDelete(r)
                      \/ BulkArchive(r) \/ BulkChangeStatus(r) \/ PublishTrip(r) \/ UnpublishTrip(r)
<1>0. ASSUME UpdateTrip(r) PROVE Serves(r, TripOps)
  <2>1. PICK t, status, date, seen :
            Arrive(r, [Idle EXCEPT !.op = "updateTrip", !.pc = <<"find", "write">>, !.t = t,
                         !.v = status, !.d = date, !.seen = seen])
    BY <1>0, Zenon DEF UpdateTrip
  <2> DEFINE row == [Idle EXCEPT !.op = "updateTrip", !.pc = <<"find", "write">>, !.t = t,
                                 !.v = status, !.d = date, !.seen = seen]
  <2>2. row.op = "updateTrip" /\ row.by = "none" /\ DOMAIN row = DOMAIN Idle BY IdleFacts
  <2>3. Arrive(r, row) BY <2>1
  <2> HIDE DEF row
  <2> QED BY <2>2, <2>3, ComesAs DEF Serves, TripOps
<1>1. CASE arrives
  BY <1>0, <1>1, ComesAs, IdleFacts
     DEF CreateTrip, RemoveTrip, BulkDelete, BulkArchive, BulkChangeStatus, BulkRequest,
         PublishTrip, UnpublishTrip, TripOps, Serves
<1>2. CASE ~arrives
  <2>3. <<"each">> # <<>> OBVIOUS
  <2>1. req[r].op \in TripOps /\ req[r].pc # <<>>
    BY <1>2, <2>3, Zenon
       DEF TripStep, CreateTripInsert, UpdateTripFind, UpdateTripWrite, UpdateTripGroup,
           RemoveTripFind, RemoveTripDelete, BulkRead, BulkDeleteEach, BulkArchiveEach,
           BulkChangeStatusEach, BulkEach, BulkEnd, PublishTripFind, PublishTripWrite,
           UnpublishTripWrite, Due, TripOps
  <2>2. Works(r)
    BY <1>2, WorksOn, Zenon
       DEF TripStep, CreateTripInsert, UpdateTripFind, UpdateTripWrite, UpdateTripGroup,
           RemoveTripFind, RemoveTripDelete, BulkRead, BulkDeleteEach, BulkArchiveEach,
           BulkChangeStatusEach, BulkEach, BulkEnd, PublishTripFind, PublishTripWrite,
           UnpublishTripWrite
  <2> QED BY <2>1, <2>2 DEF Serves
<1> QED BY <1>1, <1>2

\* Without a form, only a request that has been answered is taken off.
LEMMA FormServes ==
    ASSUME Framed, NEW r \in Requests, FormStep(r), form.kind = "none", req[r].by = "none"
    PROVE  Others(r) /\ req'[r] = Idle
BY IdleFacts
   DEF FormStep, Autosave, Save, SaveAndGeneratePorts, FlightAutosave, DiningAutosave,
         OptionsAutosave, TourAutosave, PortInfoAutosave, PackageAutosave, CustomCruiseAutosave,
         LodgingAutosave, TransportationAutosave, FlightSave, DiningSave, OptionsSave, TourSave,
         PortInfoSave, PackageSave, CustomCruiseSave, LodgingSave, TransportationSave,
         PortsAfterSave, SaveAnswered, Others, Framed, Slotted

LEMMA DiesSlot ==
    ASSUME Framed, NEW r \in Requests, Die(r)
    PROVE  Others(r) /\ (req'[r] = Idle \/ req[r].by # "none") /\ req[r] # Idle /\ db' = db
BY IdleFacts DEF Die, Framed, Slotted, Others

\* Only the effect of the form, its saves and their answers change the form.
LEMMA FormKept ==
    ASSUME Framed, NEW r \in Requests,
           \/ ItineraryStep(r) \/ DayStep(r) \/ ActivityStep(r) \/ ComponentRequest(r)
           \/ ComponentStep(r) \/ ScheduleStep(r) \/ OrderStep(r) \/ TripStep(r) \/ Die(r)
    PROVE  form' = form
<1>1. Die(r) => form' = form BY DEF Die
<1> QED
  BY <1>1, ItineraryServes, DayServes, ActivityServes, ComponentRequestServes, ComponentServes,
     ScheduleServes, OrderServes, TripServes DEF Serves, Comes, Works

LEMMA FormTouched ==
    ASSUME Framed, [Next]_vars
    PROVE  form' = form \/ FormEffect \/ \E r \in Requests : FormStep(r)
<1>1. HandlerStep => form' = form
  BY Zenon DEF HandlerStep, LogEvent, HandleTripBooked, SetFirstBookingDate, HandlerDies
<1> QED BY <1>1, FormKept DEF Next, vars

\* Its kind stays.
FormShape == DOMAIN form = DOMAIN NoForm

LEMMA FormsForm ==
    ASSUME FormShape, NEW r \in Requests, FormStep(r)
    PROVE  FormShape' /\ form'.kind = form.kind
<1>1. CASE \E x : form' = [form EXCEPT !.timer = x] \/ form' = [form EXCEPT !.id = x]
  BY <1>1 DEF FormShape, NoForm
<1> QED
  BY <1>1, Zenon
     DEF FormStep, Autosave, Save, SaveAndGeneratePorts, FlightAutosave, DiningAutosave,
         OptionsAutosave, TourAutosave, PortInfoAutosave, PackageAutosave, CustomCruiseAutosave,
         LodgingAutosave, TransportationAutosave, FlightSave, DiningSave, OptionsSave, TourSave,
         PortInfoSave, PackageSave, CustomCruiseSave, LodgingSave, TransportationSave,
         PortsAfterSave, SaveAnswered, Send

LEMMA FormStays ==
    ASSUME Framed, FormShape, [Next]_vars
    PROVE  FormShape' /\ form'.kind = form.kind
<1>1. form' = form \/ FormEffect => FormShape' /\ form'.kind = form.kind
  BY DEF FormEffect, FormShape, NoForm
<1> QED BY <1>1, FormTouched, FormsForm

-----------------------------------------------------------------------------
(* A form makes one activity                                                 *)

\* The forms that never send two saves at a time.
OneSaveAtATime == form.kind = "transportation" \/ (form.kind # "none" /\ ~env.manual)

OnlyAct(t, x) == AllActs(t) \subseteq {x}

\* The steps of a create by a form: the row is inserted first, the details once, the segments
\* after the old ones were cleared.
FormSteps == {"day", "maxSeq", "insert", "price", "details", "clear", "segments", "setPrice",
              "package", "plan"}
Early == {"day", "maxSeq", "insert"}
Has(s, step) == \E k \in DOMAIN s : s[k] = step
Orderly(s) ==
    /\ s \in Seq(FormSteps)
    /\ \A j, k \in DOMAIN s : j < k => /\ s[k] \in Early => s[j] \in Early \ {"insert"}
                                       /\ s[k] = "details" => s[j] # "details"
                                       /\ s[k] = "segments" /\ k = j + 1 => s[j] = "clear"

LEMMA OrderlyTail ==
    ASSUME NEW s, Orderly(s), s # <<>>
    PROVE  /\ Head(s) \in FormSteps /\ Orderly(Tail(s))
           /\ Len(s) # 1 => Tail(s) # <<>>
           /\ Tail(s) # <<>> /\ Head(Tail(s)) \in Early => Head(s) \in Early \ {"insert"}
           /\ Tail(s) # <<>> /\ Head(Tail(s)) = "segments" => Head(s) = "clear"
           /\ Head(s) = "details" => ~Has(Tail(s), "details")
           /\ Has(Tail(s), "details") => Has(s, "details")
<1>1. /\ s \in Seq(FormSteps) /\ Tail(s) \in Seq(FormSteps) /\ Len(Tail(s)) = Len(s) - 1
      /\ Len(s) \in Nat /\ Len(s) # 0
      /\ \A k \in DOMAIN Tail(s) : k + 1 \in DOMAIN s /\ Tail(s)[k] = s[k + 1]
      /\ 1 \in DOMAIN s /\ Head(s) = s[1] /\ DOMAIN s \subseteq Nat
      /\ DOMAIN Tail(s) \subseteq Nat \ {0}
      /\ Tail(s) # <<>> => 1 \in DOMAIN Tail(s) /\ Head(Tail(s)) = Tail(s)[1]
      /\ Len(s) # 1 => Tail(s) # <<>>
  <2>1. s \in Seq(FormSteps) /\ Len(s) \in Nat /\ DOMAIN s = 1 .. Len(s) /\ Len(s) # 0
    BY DEF Orderly
  <2>2. /\ Tail(s) \in Seq(FormSteps) /\ Len(Tail(s)) = Len(s) - 1 /\ Head(s) = s[1]
        /\ \A k \in 1 .. Len(s) - 1 : Tail(s)[k] = s[k + 1]
    BY <2>1
  <2>3. DOMAIN Tail(s) = 1 .. Len(s) - 1 /\ (Tail(s) # <<>> => Head(Tail(s)) = Tail(s)[1])
    BY <2>1, <2>2
  <2>4. Len(s) # 1 => Tail(s) # <<>>
    <3>1. Len(<<>>) = 0 OBVIOUS
    <3>2. ASSUME Tail(s) = <<>> PROVE Len(s) = 1
      BY <3>1, <3>2, <2>1, <2>2
    <3> QED BY <3>2
  <2> QED BY <2>1, <2>2, <2>3, <2>4
<1>2. Orderly(Tail(s))
  <2> SUFFICES ASSUME NEW j \in DOMAIN Tail(s), NEW k \in DOMAIN Tail(s), j < k
               PROVE  /\ Tail(s)[k] \in Early => Tail(s)[j] \in Early \ {"insert"}
                      /\ Tail(s)[k] = "details" => Tail(s)[j] # "details"
                      /\ Tail(s)[k] = "segments" /\ k = j + 1 => Tail(s)[j] = "clear"
    BY <1>1 DEF Orderly
  <2>1. /\ j + 1 \in DOMAIN s /\ k + 1 \in DOMAIN s /\ j + 1 < k + 1
        /\ Tail(s)[j] = s[j + 1] /\ Tail(s)[k] = s[k + 1] /\ (k = j + 1 => k + 1 = (j + 1) + 1)
    BY <1>1
  <2> QED BY <2>1 DEF Orderly
<1>3. \A k \in DOMAIN Tail(s) :
        /\ Tail(s)[k] \in Early => Head(s) \in Early \ {"insert"}
        /\ Tail(s)[k] = "details" => Head(s) # "details"
        /\ Tail(s)[k] = "segments" /\ k = 1 => Head(s) = "clear"
  <2> SUFFICES ASSUME NEW k \in DOMAIN Tail(s)
               PROVE  /\ Tail(s)[k] \in Early => Head(s) \in Early \ {"insert"}
                      /\ Tail(s)[k] = "details" => Head(s) # "details"
                      /\ Tail(s)[k] = "segments" /\ k = 1 => Head(s) = "clear"
    OBVIOUS
  <2>1. 1 \in DOMAIN s /\ k + 1 \in DOMAIN s /\ 1 < k + 1 /\ Tail(s)[k] = s[k + 1] /\ Head(s) = s[1]
    BY <1>1
  <2> QED BY <2>1 DEF Orderly
<1> QED BY <1>1, <1>2, <1>3 DEF Has

LEMMA OrderlyCreates ==
    ASSUME NEW kind
    PROVE  /\ Orderly(BaseCreate \o Writes(kind)) /\ BaseCreate \o Writes(kind) # <<>>
           /\ Head(BaseCreate \o Writes(kind)) = "day"
<1> DEFINE w == Writes(kind)
           s == BaseCreate \o w
<1>1. /\ w \in Seq(FormSteps)
      /\ \A k \in DOMAIN w : /\ w[k] \notin Early /\ (w[k] = "details" => k = 1)
                             /\ w[k] = "segments" => k = 3 /\ w[2] = "clear"
  <2>1. CASE kind = "flight"
    <3>1. w = <<"details", "clear", "segments", "setPrice">> BY <2>1 DEF Writes
    <3> HIDE DEF w
    <3>2. /\ w \in Seq(FormSteps) /\ DOMAIN w = 1 .. 4
          /\ w[1] = "details" /\ w[2] = "clear" /\ w[3] = "segments" /\ w[4] = "setPrice"
      BY <3>1 DEF FormSteps
    <3>3. \A k \in 1 .. 4 : k = 1 \/ k = 2 \/ k = 3 \/ k = 4 OBVIOUS
    <3> QED BY <3>2, <3>3 DEF Early
  <2>2. CASE kind = "port_info" BY <2>2 DEF Writes, FormSteps, Early
  <2>3. CASE kind = "tour" BY <2>3 DEF Writes, FormSteps, Early
  <2>4. CASE kind = "package" BY <2>4 DEF Writes, FormSteps, Early
  <2>5. CASE kind \notin {"flight", "port_info", "tour", "package"}
    <3>1. w = <<"details", "setPrice">> BY <2>5 DEF Writes
    <3> HIDE DEF w
    <3>2. w \in Seq(FormSteps) /\ DOMAIN w = 1 .. 2 /\ w[1] = "details" /\ w[2] = "setPrice"
      BY <3>1 DEF FormSteps
    <3>3. \A k \in 1 .. 2 : k = 1 \/ k = 2 OBVIOUS
    <3> QED BY <3>2, <3>3 DEF Early
  <2> QED BY <2>1, <2>2, <2>3, <2>4, <2>5
<1> HIDE DEF w
<1>2. /\ s \in Seq(FormSteps) /\ s # <<>> /\ Head(s) = "day" /\ DOMAIN s = 1 .. 4 + Len(w)
      /\ Len(w) \in Nat /\ DOMAIN w = 1 .. Len(w)
      /\ s[1] = "day" /\ s[2] = "maxSeq" /\ s[3] = "insert" /\ s[4] = "price"
      /\ \A k \in 5 .. 4 + Len(w) : k - 4 \in DOMAIN w /\ s[k] = w[k - 4]
  BY <1>1 DEF BaseCreate, FormSteps
<1> HIDE DEF s
<1>3. ASSUME NEW j \in DOMAIN s, NEW k \in DOMAIN s, j < k
      PROVE  /\ s[k] \in Early => s[j] \in Early \ {"insert"}
             /\ s[k] = "details" => s[j] # "details"
             /\ s[k] = "segments" /\ k = j + 1 => s[j] = "clear"
  <2>1. CASE k <= 4
    BY <1>2, <1>3, <2>1 DEF Early
  <2>2. CASE k > 4
    <3> DEFINE m == k - 4
               i == j - 4
    <3>0. j \in Nat /\ k \in Nat /\ j # 0 BY <1>2
    <3>1. m \in DOMAIN w /\ s[k] = w[m] /\ m \in Nat BY <1>2, <2>2
    <3>2. s[k] \notin Early /\ (s[k] = "details" => m = 1) /\ (s[k] = "segments" => m = 3 /\ w[2] = "clear")
      BY <1>1, <3>1
    <3>3. CASE j <= 4
      <4>1. s[j] # "details"
        BY <3>0, <3>3, <1>2
      <4>2. k = j + 1 => m # 3 BY <3>0, <3>3
      <4> QED BY <3>2, <4>1, <4>2
    <3>4. CASE j > 4
      <4>1. i \in DOMAIN w /\ s[j] = w[i] /\ i \in Nat BY <1>2, <1>3, <3>4
      <4>2. (m = 3 /\ k = j + 1 => i = 2) /\ i # m BY <3>0, <1>3
      <4> HIDE DEF i, m
      <4>3. s[j] = "details" => i = 1 BY <1>1, <4>1
      <4> QED BY <3>2, <4>1, <4>2, <4>3
    <3> QED BY <3>0, <3>3, <3>4
  <2> QED BY <1>2, <2>1, <2>2
<1>4. Orderly(s) /\ s # <<>> /\ Head(s) = "day" BY <1>2, <1>3 DEF Orderly
<1> QED BY <1>4 DEF s, w

\* The slot of the form's request: it edits the one activity, or creates it.
Answered(t, f, q) ==
    /\ q.pc = <<>>
    /\ \/ q.op = "ok" /\ OnlyAct(t, q.a) /\ f.id \in {0, q.a}
       \/ q.op = "failed" /\ OnlyAct(t, f.id)
Edits(t, f, q) ==
    /\ q.op \in {"updateActivity", "updateComponent"} /\ q.v = "name"
    /\ f.id # 0 /\ q.a = f.id /\ OnlyAct(t, f.id)
Creates(t, f, q) ==
    /\ q.op \in {"createActivity", "createComponent"} /\ f.id = 0
    /\ Orderly(q.pc) /\ OnlyAct(t, q.a) /\ q.a \in Int /\ q.a <= t.made.act
    /\ q.pc # <<>> /\ Head(q.pc) \in Early => AllActs(t) = {}
    /\ q.a \in AllActs(t) =>
        /\ Has(q.pc, "details") => q.a \notin t.details
        /\ q.pc # <<>> /\ Head(q.pc) = "segments" => t.segments[q.a] = {}
Saving(t, f, q) ==
    /\ q.by \in {"auto", "manual"}
    /\ Answered(t, f, q) \/ (Edits(t, f, q) \/ Creates(t, f, q))

\* Details are those of activities there were, as long as the form creates.
OldDetails(t, f) ==
    f.id = 0 => t.made.act \in Nat /\ \A a \in t.details : a \in Int /\ a <= t.made.act

FormAlone ==
    /\ env.operations = {} /\ env.faults = 0 /\ faults = 0 /\ events = {}
    /\ OldDetails(db, form)
    /\ \A r \in Requests : req[r] = Idle \/ Saving(db, form, req[r])
    /\ \A r, q \in Requests : req[r] # Idle /\ req[q] # Idle => r = q
    /\ (\A r \in Requests : req[r] = Idle) => OnlyAct(db, form.id)

\* One activity is inserted under the next id.
LEMMA AddedAct ==
    ASSUME NEW t, Tabled(t), t.made.act \in Nat, NEW row, NEW u, u = AddActs(t, <<row>>)
    PROVE  /\ u.made.act = t.made.act + 1 /\ DOMAIN u.act = Acts
           /\ \A a \in Acts : u.act[a] = IF a = t.made.act + 1 THEN row ELSE t.act[a]
           /\ u.details = t.details /\ u.segments = t.segments /\ u.price = t.price
           /\ u.package = t.package /\ u.plan = t.plan
           /\ u.itin = t.itin /\ u.day = t.day /\ u.trip = t.trip
           /\ u.made.itin = t.made.itin /\ u.made.day = t.made.day
<1>1. DOMAIN <<row>> = {1} /\ <<row>>[1] = row OBVIOUS
<1>2. Cardinality(DOMAIN <<row>>) = 1 BY <1>1, FS_Singleton
<1>3. /\ u.made = [t.made EXCEPT !.act = @ + 1]
      /\ u.act = [a \in Acts |-> IF a - t.made.act \in {1} THEN <<row>>[a - t.made.act] ELSE t.act[a]]
      /\ u.details = t.details /\ u.segments = t.segments /\ u.price = t.price
      /\ u.package = t.package /\ u.plan = t.plan
      /\ u.itin = t.itin /\ u.day = t.day /\ u.trip = t.trip
  BY <1>1, <1>2 DEF AddActs, Tabled, Fields
<1>4. \A a \in Acts : /\ a - t.made.act \in {1} <=> a = t.made.act + 1
                      /\ a = t.made.act + 1 => a - t.made.act = 1
  BY TripTreeAssumption DEF Acts
<1>5. \A a \in Acts : u.act[a] = IF a = t.made.act + 1 THEN row ELSE t.act[a]
  BY <1>1, <1>3, <1>4
<1> QED BY <1>3, <1>5 DEF Tabled, Counters

\* The operations a form uses, and the answers it waits for.
FormOps == {"ok", "failed", "updateActivity", "updateComponent", "createActivity",
            "createComponent"}

LEMMA SavingOp ==
    ASSUME NEW t, NEW f, NEW q, Saving(t, f, q)
    PROVE  q.op \in FormOps /\ q # Idle /\ q.by \in {"auto", "manual"}
BY IdleFacts DEF Saving, Answered, Edits, Creates, FormOps

LEMMA NobodyComes ==
    ASSUME FormAlone, NEW r \in Requests
    PROVE  (\A row : ~Arrive(r, row)) /\ req[r].op \in FormOps \cup {"idle"}
BY SavingOp, IdleFacts DEF FormAlone, Arrive, FormOps

LEMMA NoItineraryStep == ASSUME FormAlone, NEW r \in Requests PROVE ~ItineraryStep(r)
BY NobodyComes
   DEF FormOps, Due, ItineraryStep, CreateItinerary, CreateItineraryCount, CreateItineraryArchive,
       CreateItineraryInsert, ListSelected, ListSelectedRead, ListAllRead, UpdateItinerary,
       UpdateItineraryFind, UpdateItineraryArchive, UpdateItineraryApprove, UpdateItineraryWrite,
       SelectItinerary, SelectItineraryDeselect, SelectItineraryWrite, RemoveItinerary,
       ItineraryFind, RemoveItineraryCount, RemoveItineraryDelete

LEMMA NoDayStep == ASSUME FormAlone, NEW r \in Requests PROVE ~DayStep(r)
BY NobodyComes
   DEF FormOps, Due, DayStep, CreateDay, CreateDayDuplicate, CreateDayMaxSeq, CreateDayInsert,
       UpdateDay, UpdateDayFind, UpdateDayConflict, UpdateDayWrite, RemoveDay, RemoveDayFind,
       RemoveDayDelete, RemoveDaySelect, RemoveDayRow, ReorderDays, ReorderDaysVerify,
       ReorderDaysRow, AutoGenerate, AutoGenerateClear, AutoGenerateFill, BatchCreate,
       BatchCreateRead, BatchCreateEnd, BatchCreateStart, FindOrCreateByDate, DayByDateFind,
       DayByDatePosition, DayByDateInsert

LEMMA NoComponentRequest == ASSUME FormAlone, NEW r \in Requests PROVE ~ComponentRequest(r)
BY NobodyComes
   DEF ComponentRequest, CreateFlight, UpdateFlight, DeleteFlight, CreateLodging, UpdateLodging,
       DeleteLodging, CreateTransportation, UpdateTransportation, DeleteTransportation,
       CreateDining, UpdateDining, DeleteDining, CreateOptions, UpdateOptions, DeleteOptions,
       CreateCustomCruise, UpdateCustomCruise, DeleteCustomCruise, CreateCustomTour,
       UpdateCustomTour, DeleteCustomTour, CreatePortInfo, UpdatePortInfo, DeletePortInfo,
       CreateTourDay, UpdateTourDay, DeleteTourDay, CreatePortEntriesFromCruise,
       Create, Update, Delete

LEMMA NoScheduleStep == ASSUME FormAlone, NEW r \in Requests PROVE ~ScheduleStep(r)
BY NobodyComes
   DEF FormOps, Due, ScheduleStep, GeneratePorts, GenerateValidate, GenerateHasChildren,
       GenerateBounds, GenerateDelete, GenerateDates, MaxOfDays, InsertDateRange, ReadDateRange,
       InsertPorts, InsertPortDetails, GenerateTour, TourChildren, TourDeleteEach, TourMissing,
       TourNext

LEMMA NoOrderStep == ASSUME FormAlone, NEW r \in Requests PROVE ~OrderStep(r)
BY NobodyComes
   DEF FormOps, Due, OfOrder, OrderStep, GenerateTripOrderSnapshot, GenerateReadTrip,
       GenerateNextVersion, GenerateInsert, FinalizeTripOrder, FinalizeFind, FinalizeWrite,
       SendTripOrder, SendGet, SendPrepare, SendEmailLog, SendEmailFiltered, ProviderSend,
       SendEmailMark, MarkSentFind, MarkSentWrite

LEMMA NoTripStep == ASSUME FormAlone, NEW r \in Requests PROVE ~TripStep(r)
BY NobodyComes
   DEF FormOps, Due, TripStep, CreateTrip, CreateTripInsert, UpdateTrip, UpdateTripFind,
       UpdateTripWrite, UpdateTripGroup, RemoveTrip, RemoveTripFind, RemoveTripDelete, BulkDelete,
       BulkArchive, BulkChangeStatus, BulkRequest, BulkRead, BulkDeleteEach, BulkArchiveEach,
       BulkChangeStatusEach, BulkEach, BulkEnd, PublishTrip, PublishTripFind, PublishTripWrite,
       UnpublishTrip, UnpublishTripWrite

LEMMA NobodyDies ==
    ASSUME FormAlone, NEW r \in Requests PROVE ~Die(r) /\ ~HandlerStep
BY DEF FormAlone, Die, HandlerStep

\* What is left to do for the services: the steps of its saves.
LEMMA FormSaves ==
    ASSUME FormAlone, NEW r \in Requests, ActivityStep(r)
    PROVE  \/ VerifyDayExists(r) \/ CreateMaxSeq(r) \/ CreateInsert(r) \/ CreatePrice(r)
           \/ CreatePackageDetails(r) \/ CreateScheduleConfig(r) \/ UpdateActivityFind(r)
           \/ PackageGuard(r) \/ UpdateActivityWrite(r) \/ UpdateActivityPrice(r) \/ ActivityFind(r)
BY NobodyComes
   DEF FormOps, Due, ActivityStep, CreateActivity, UpdateActivity, BookActivity, RemoveActivity,
       RemoveActivityDelete, ReorderActivities, ReorderActivitiesVerify, ReorderActivitiesRow,
       MoveActivity, MoveActivityFind, MoveActivityWrite, DuplicateActivity, DuplicateFind,
       DuplicateLock, DuplicateCopy, LinkChildren, LinkChildrenPackage, LinkChildrenRead,
       ValidateNoParentCycle, LinkChildrenWrite, UnlinkChildren, UnlinkChildrenWrite

\* The request of the form goes on, and the form still knows what there is.
Turns(r) ==
    /\ \E row : Go(r, row) /\ row # Idle /\ Saving(db', form, row)
    /\ OldDetails(db', form)

LEMMA AloneTurns ==
    ASSUME Framed, FormAlone, NEW r \in Requests, req[r] # Idle, Turns(r),
           events' = events, env' = env
    PROVE  FormAlone'
<1>1. PICK row : Go(r, row) /\ row # Idle /\ Saving(db', form, row) BY DEF Turns
<1>2. /\ \A q \in Requests : q # r => req[q] = Idle
      /\ form' = form /\ faults' = faults /\ DOMAIN req = Requests /\ req' = [req EXCEPT ![r] = row]
  BY <1>1 DEF FormAlone, Framed, Slotted, Go
<1>3. req'[r] = row /\ \A q \in Requests : q # r => req'[q] = Idle BY <1>2
<1>4. OldDetails(db', form') /\ Saving(db', form', row) BY <1>1, <1>2 DEF Turns
<1> QED BY <1>1, <1>2, <1>3, <1>4 DEF FormAlone

LEMMA AnswerRow ==
    ASSUME Framed, NEW r \in Requests, req[r].by \in {"auto", "manual"}, NEW answer, Reply(r, answer)
    PROVE  \E row : /\ Go(r, row) /\ row.op = answer /\ row.by = req[r].by /\ row.a = req[r].a
                    /\ row.pc = <<>>
<1> DEFINE row == [Idle EXCEPT !.op = answer, !.by = req[r].by, !.a = req[r].a]
<1>1. Go(r, row) BY DEF Reply
<1>2. row.op = answer /\ row.by = req[r].by /\ row.a = req[r].a /\ row.pc = <<>> BY IdleFacts
<1> HIDE DEF row
<1> QED BY <1>1, <1>2

LEMMA NextFields ==
    ASSUME Framed, NEW r \in Requests
    PROVE  /\ Next1(r).pc = Tail(req[r].pc) /\ Next1(r).op = req[r].op /\ Next1(r).by = req[r].by
           /\ Next1(r).a = req[r].a /\ Next1(r).v = req[r].v /\ Next1(r).d = req[r].d
           /\ Next1(r).s = req[r].s
BY IdleFacts DEF Framed, Slotted, Next1

\* It edits the activity the form knows.
LEMMA EditTurns ==
    ASSUME Framed, NEW r \in Requests, Saving(db, form, req[r]), Edits(db, form, req[r]),
           db'.act = db.act,
           \/ \E row : Go(r, row) /\ row.op = req[r].op /\ row.by = req[r].by
                        /\ row.a = req[r].a /\ row.v = req[r].v
           \/ Finish(r) \/ Reply(r, "failed")
    PROVE  Turns(r)
<1>1. /\ form.id # 0 /\ req[r].a = form.id /\ req[r].op \in {"updateActivity", "updateComponent"}
      /\ req[r].v = "name" /\ OnlyAct(db', form.id) /\ req[r].by \in {"auto", "manual"}
  BY DEF Edits, Saving, OnlyAct, AllActs
<1>2. OldDetails(db', form) BY <1>1 DEF OldDetails
<1>3. ASSUME NEW row, Go(r, row), row.op = req[r].op, row.by = req[r].by, row.a = req[r].a,
             row.v = req[r].v
      PROVE  Turns(r)
  BY <1>1, <1>3, IdleFacts, <1>2 DEF Edits, Turns, Saving
<1>4. ASSUME NEW answer \in {"ok", "failed"}, Reply(r, answer) PROVE Turns(r)
  BY <1>1, <1>4, AnswerRow, IdleFacts, <1>2 DEF Answered, Turns, Saving
<1>5. CASE Finish(r)
  BY <1>4, <1>3, NextFields, <1>5 DEF Finish
<1> QED BY <1>3, <1>4, <1>5

\* It creates the activity: before the row is there.
LEMMA EarlyTurns ==
    ASSUME Framed, NEW r \in Requests, Saving(db, form, req[r]), Creates(db, form, req[r]),
           OldDetails(db, form), db' = db, req[r].pc # <<>>, Head(req[r].pc) \in Early,
           \/ \E row : Go(r, row) /\ row.op = req[r].op /\ row.by = req[r].by
                        /\ row.pc = Tail(req[r].pc) /\ row.a = req[r].a
           \/ Reply(r, "failed")
    PROVE  Turns(r)
<1>1. /\ AllActs(db) = {} /\ form.id = 0 /\ req[r].op \in {"createActivity", "createComponent"}
      /\ Orderly(req[r].pc) /\ req[r].by \in {"auto", "manual"}
      /\ req[r].a \in Int /\ req[r].a <= db.made.act
  BY DEF Creates, Saving
<1>2. Orderly(Tail(req[r].pc)) BY <1>1, OrderlyTail
<1>3. CASE \E row : Go(r, row) /\ row.op = req[r].op /\ row.by = req[r].by
                        /\ row.pc = Tail(req[r].pc) /\ row.a = req[r].a
  BY <1>3, <1>1, <1>2, IdleFacts DEF Creates, OnlyAct, Turns, Saving
<1>4. CASE Reply(r, "failed")
  BY <1>1, <1>4, AnswerRow, IdleFacts DEF Answered, OnlyAct, Turns, Saving
<1> QED BY <1>3, <1>4

\* The row is inserted; an id beyond those of the instance leaves no row.
LEMMA InsertTurns ==
    ASSUME Framed, NEW r \in Requests, Saving(db, form, req[r]), Creates(db, form, req[r]),
           OldDetails(db, form), Due(r, req[r].op, "insert"), NEW row,
           db' = AddActs(db, <<row>>), Go(r, [Next1(r) EXCEPT !.a = db.made.act + 1])
    PROVE  Turns(r)
<1> DEFINE q == [Next1(r) EXCEPT !.a = db.made.act + 1]
           x == db.made.act + 1
<1>1. /\ AllActs(db) = {} /\ form.id = 0 /\ req[r].op \in {"createActivity", "createComponent"}
      /\ Orderly(req[r].pc) /\ req[r].by \in {"auto", "manual"} /\ req[r].pc # <<>>
      /\ Head(req[r].pc) = "insert"
  BY DEF Creates, Saving, Due, Early
<1>2. db.made.act \in Nat /\ \A a \in db.details : a \in Int /\ a <= db.made.act
  BY <1>1 DEF OldDetails
<1>3. /\ q.pc = Tail(req[r].pc) /\ q.op = req[r].op /\ q.by = req[r].by /\ q.a = x
      /\ Go(r, q)
  BY NextFields, IdleFacts DEF Framed, Slotted, Next1
<1> HIDE DEF q
<1>4. /\ Orderly(q.pc) /\ (q.pc # <<>> => Head(q.pc) \notin Early)
      /\ q.pc # <<>> => Head(q.pc) # "segments"
  BY <1>1, <1>3, OrderlyTail DEF Early
<1>5. /\ db'.made.act = x /\ db'.details = db.details
      /\ \A a \in Acts : db'.act[a] = IF a = x THEN row ELSE db.act[a]
  BY <1>2, AddedAct DEF Framed
<1>6. OnlyAct(db', x) BY <1>1, <1>5 DEF OnlyAct, AllActs
<1>7. x \notin db'.details /\ x \in Int /\ x <= db'.made.act BY <1>2, <1>5
<1> HIDE DEF x
<1>8. Creates(db', form, q) /\ q # Idle BY <1>1, <1>3, <1>4, <1>6, <1>7, IdleFacts DEF Creates
<1>9. OldDetails(db', form) BY <1>2, <1>5 DEF OldDetails, x
<1> QED BY <1>1, <1>3, <1>8, <1>9 DEF Turns, Saving

\* What comes after: nothing is refused that has a row to write to.
LEMMA LateTurns ==
    ASSUME Framed, NEW r \in Requests, Saving(db, form, req[r]), Creates(db, form, req[r]),
           OldDetails(db, form), req[r].pc # <<>>, Head(req[r].pc) \notin Early,
           db'.act = db.act, db'.made = db.made, db'.details \subseteq db.details \cup {req[r].a},
           req[r].a \in AllActs(db) =>
                /\ Head(req[r].pc) # "details" => db'.details = db.details
                /\ Head(req[r].pc) = "clear" => db'.segments[req[r].a] = {},
           \/ Go(r, Next1(r)) \/ Finish(r) \/ Reply(r, "ok")
           \/ Reply(r, "failed") /\ req[r].a \notin AllActs(db)
    PROVE  Turns(r)
<1> DEFINE a == req[r].a
           s == req[r].pc
<1>1. /\ form.id = 0 /\ req[r].op \in {"createActivity", "createComponent"}
      /\ Orderly(s) /\ req[r].by \in {"auto", "manual"} /\ AllActs(db') = AllActs(db)
      /\ OnlyAct(db, a) /\ a \in Int /\ a <= db.made.act /\ OnlyAct(db', a)
      /\ a \in AllActs(db) => (Has(s, "details") => a \notin db.details)
  BY DEF Creates, Saving, AllActs, OnlyAct
<1>2. OldDetails(db', form) BY <1>1 DEF OldDetails
<1>3. CASE Go(r, Next1(r))
  <2>1. /\ Next1(r).pc = Tail(s) /\ Next1(r).op = req[r].op /\ Next1(r).by = req[r].by
        /\ Next1(r).a = a
    BY NextFields
  <2>2. /\ Orderly(Tail(s)) /\ (Tail(s) # <<>> => Head(Tail(s)) \notin Early)
        /\ Tail(s) # <<>> /\ Head(Tail(s)) = "segments" => Head(s) = "clear"
        /\ Has(Tail(s), "details") => Has(s, "details") /\ Head(s) # "details"
    BY <1>1, OrderlyTail
  <2>3. a \in AllActs(db') => /\ Has(Tail(s), "details") => a \notin db'.details
                              /\ Tail(s) # <<>> /\ Head(Tail(s)) = "segments" => db'.segments[a] = {}
    BY <1>1, <2>2
  <2> HIDE DEF a, s
  <2>4. Creates(db', form, Next1(r)) BY <1>1, <2>1, <2>2, <2>3 DEF Creates
  <2>5. Next1(r) # Idle BY <1>1, <2>1, IdleFacts
  <2> QED BY <1>1, <1>2, <1>3, <2>1, <2>4, <2>5 DEF Turns, Saving
<1>4. ASSUME NEW answer, Reply(r, answer), answer = "ok" \/ (answer = "failed" /\ a \notin AllActs(db))
      PROVE  Turns(r)
  BY <1>1, <1>4, AnswerRow, IdleFacts, <1>2 DEF Answered, OnlyAct, Turns, Saving
<1> QED BY <1>3, <1>4 DEF Finish

LEMMA AtWork ==
    ASSUME FormAlone, NEW r \in Requests, req[r].pc # <<>>
    PROVE  /\ req[r] # Idle /\ Saving(db, form, req[r]) /\ OldDetails(db, form)
           /\ \/ req[r].op \in {"updateActivity", "updateComponent"} /\ Edits(db, form, req[r])
              \/ req[r].op \in {"createActivity", "createComponent"} /\ Creates(db, form, req[r])
BY IdleFacts DEF FormAlone, Saving, Answered, Edits, Creates

LEMMA ActivityTurns ==
    ASSUME Framed, FormAlone, NEW r \in Requests, ActivityStep(r)
    PROVE  Turns(r) /\ req[r] # Idle
<1>a. ASSUME NEW step, Due(r, req[r].op, step)
      PROVE  req[r].pc # <<>> /\ Head(req[r].pc) = step
  BY <1>a DEF Due
<1>b. DOMAIN req[r] = DOMAIN Idle /\ Tabled(db) BY DEF Framed, Slotted
<1>1. CASE VerifyDayExists(r) \/ CreateMaxSeq(r)
  <2>1. req[r].pc # <<>> /\ Head(req[r].pc) \in Early /\ db' = db
    BY <1>1, <1>a DEF VerifyDayExists, CreateMaxSeq, Early, Refuse
  <2>2. \/ Reply(r, "failed")
        \/ \E row : /\ Go(r, row) /\ row.op = req[r].op /\ row.by = req[r].by
                    /\ row.pc = Tail(req[r].pc) /\ row.a = req[r].a /\ row.v = req[r].v
    <3>1. CASE Refuse(r) BY <3>1 DEF Refuse
    <3>2. CASE Go(r, Next1(r)) BY <3>2, NextFields
    <3>3. CASE \E x : Go(r, [Next1(r) EXCEPT !.n = x])
      <4>0. PICK x : Go(r, [Next1(r) EXCEPT !.n = x]) BY <3>3
      <4> DEFINE row == [Next1(r) EXCEPT !.n = x]
      <4>1. /\ row.op = req[r].op /\ row.by = req[r].by
            /\ row.pc = Tail(req[r].pc) /\ row.a = req[r].a /\ row.v = req[r].v
        BY <1>b, IdleFacts DEF Next1
      <4> HIDE DEF row
      <4> QED BY <4>0, <4>1 DEF row
    <3> QED BY <1>1, <3>1, <3>2, <3>3, Zenon DEF VerifyDayExists, CreateMaxSeq
  <2>3. CASE Edits(db, form, req[r]) BY <2>1, <2>2, <2>3, AtWork, EditTurns
  <2>4. CASE Creates(db, form, req[r]) BY <2>1, <2>2, <2>4, AtWork, EarlyTurns
  <2> QED BY <2>1, <2>3, <2>4, AtWork
<1>2. CASE CreateInsert(r)
  BY <1>2, <1>a, AtWork, EarlyTurns, InsertTurns DEF CreateInsert, Early, Refuse
<1>3. CASE CreatePrice(r) \/ CreatePackageDetails(r) \/ CreateScheduleConfig(r)
  <2>1. /\ req[r].pc # <<>> /\ Head(req[r].pc) \in {"price", "package", "plan"}
        /\ req[r].op \in {"createActivity", "createComponent", "generateTour"}
    BY <1>3, <1>a DEF CreatePrice, CreatePackageDetails, CreateScheduleConfig, Due
  <2>2. Creates(db, form, req[r]) /\ Head(req[r].pc) \notin Early \cup {"details", "clear"}
    BY <2>1, AtWork DEF Early
  <2>3. db'.act = db.act /\ db'.made = db.made /\ db'.details = db.details
    BY <1>3, <1>b DEF CreatePrice, CreatePackageDetails, CreateScheduleConfig, Tabled, Fields
  <2>4. Finish(r) \/ Go(r, Next1(r)) \/ Reply(r, "ok")
    BY <1>3, Zenon DEF CreatePrice, CreatePackageDetails, CreateScheduleConfig
  <2> QED BY <2>1, <2>2, <2>3, <2>4, AtWork, LateTurns
<1>4. CASE UpdateActivityFind(r) \/ PackageGuard(r) \/ UpdateActivityWrite(r)
           \/ UpdateActivityPrice(r) \/ ActivityFind(r)
  <2>1. /\ req[r].pc # <<>>
        /\ req[r].op \in {"updateActivity", "book", "removeActivity", "deleteComponent", "updateComponent"}
    BY <1>4, <1>a DEF UpdateActivityFind, PackageGuard, UpdateActivityWrite, UpdateActivityPrice,
                      ActivityFind, Due
  <2>2. Edits(db, form, req[r]) /\ Saving(db, form, req[r]) /\ req[r].v = "name" /\ req[r] # Idle
    BY <2>1, AtWork DEF Edits
  <2>3. db'.act = db.act
    BY <1>4, <1>b, <2>2
       DEF UpdateActivityFind, PackageGuard, UpdateActivityWrite, UpdateActivityPrice,
           ActivityFind, Refuse, Tabled, Fields
  <2>4. \/ Finish(r) \/ Reply(r, "failed")
        \/ \E row : Go(r, row) /\ row.op = req[r].op /\ row.by = req[r].by
                     /\ row.a = req[r].a /\ row.v = req[r].v
    <3>1. CASE \E x : Go(r, [Next1(r) EXCEPT !.s = x])
      <4>1. PICK x : Go(r, [Next1(r) EXCEPT !.s = x]) BY <3>1
      <4> DEFINE row == [Next1(r) EXCEPT !.s = x]
      <4>2. row.op = req[r].op /\ row.by = req[r].by /\ row.a = req[r].a /\ row.v = req[r].v
        BY <1>b, IdleFacts DEF Next1
      <4> HIDE DEF row
      <4> QED BY <4>1, <4>2 DEF row
    <3>2. CASE Go(r, Next1(r)) BY <3>2, NextFields
    <3>3. CASE Finish(r) \/ Refuse(r) BY <3>3 DEF Refuse
    <3> QED
      BY <1>4, <3>1, <3>2, <3>3, Zenon
         DEF UpdateActivityFind, PackageGuard, UpdateActivityWrite, UpdateActivityPrice, ActivityFind
  <2> QED BY <2>2, <2>3, <2>4, EditTurns
<1> QED BY <1>1, <1>2, <1>3, <1>4, FormSaves

LEMMA ComponentTurns ==
    ASSUME Framed, FormAlone, NEW r \in Requests, ComponentStep(r)
    PROVE  Turns(r) /\ req[r] # Idle
<1>b. DOMAIN req[r] = DOMAIN Idle /\ Tabled(db) BY DEF Framed, Slotted
<1>1. PICK step : Of(r, step)
  BY Zenon DEF ComponentStep, WriteBase, InsertDetails, InsertBadDetails, FindDetailsRow, WriteDetails,
       UpsertDetails, ClearSegments, InsertSegments, SetPrice, FindPriceRow, WritePrice
<1>2. req[r].pc # <<>> /\ Head(req[r].pc) = step BY <1>1 DEF Of, Due
<1>3. /\ req[r] # Idle /\ Saving(db, form, req[r]) /\ OldDetails(db, form)
      /\ Edits(db, form, req[r]) \/ Creates(db, form, req[r])
  BY <1>2, AtWork
<1>0. ~(req[r].op = "updateComponent" /\ req[r].v = "position")
  BY <1>3 DEF Edits, Creates
<1>4. db'.act = db.act /\ db'.made = db.made
  BY <1>b, <1>0
     DEF ComponentStep, WriteBase, InsertDetails, InsertBadDetails, FindDetailsRow, WriteDetails,
         UpsertDetails, ClearSegments, InsertSegments, SetPrice, FindPriceRow, WritePrice, Refuse,
         Tabled, Fields
<1>5. CASE Edits(db, form, req[r])
  <2>1. CASE \E x : Go(r, [Next1(r) EXCEPT !.flag = x])
    <3>1. PICK x : Go(r, [Next1(r) EXCEPT !.flag = x]) BY <2>1
    <3> DEFINE row == [Next1(r) EXCEPT !.flag = x]
    <3>2. row.op = req[r].op /\ row.by = req[r].by /\ row.a = req[r].a /\ row.v = req[r].v
      BY <1>b, IdleFacts DEF Next1
    <3>3. Go(r, row) BY <3>1
    <3> HIDE DEF row
    <3> QED BY <1>3, <1>4, <1>5, <3>2, <3>3, EditTurns
  <2>2. CASE Go(r, Next1(r)) BY <1>3, <1>4, <1>5, <2>2, NextFields, EditTurns
  <2>3. CASE Finish(r) \/ Refuse(r) BY <1>3, <1>4, <1>5, <2>3, EditTurns DEF Refuse
  <2> QED
    BY <1>3, <2>1, <2>2, <2>3, Zenon
       DEF ComponentStep, WriteBase, InsertDetails, InsertBadDetails, FindDetailsRow, WriteDetails,
           UpsertDetails, ClearSegments, InsertSegments, SetPrice, FindPriceRow, WritePrice
<1>6. CASE Creates(db, form, req[r])
  <2>1. /\ step \in FormSteps
        /\ req[r].a \in AllActs(db) => /\ step = "details" => req[r].a \notin db.details
                                       /\ step = "segments" => db.segments[req[r].a] = {}
    BY <1>6, <1>2, OrderlyTail DEF Creates, Has, Orderly
  <2>2. req[r].a \in AllActs(db) => Exists(req[r].a) /\ req[r].a \in Acts BY DEF AllActs, Exists
  <2>3. CASE InsertDetails(r)
    <3>1. step = "details" /\ step \notin Early BY <1>1, <2>3 DEF InsertDetails, Of, Due, Early
    <3>2. /\ db'.details \subseteq db.details \cup {req[r].a}
          /\ Finish(r) \/ (Reply(r, "failed") /\ req[r].a \notin AllActs(db))
      BY <2>1, <2>2, <2>3, <3>1, <1>b DEF InsertDetails, Refuse, Tabled, Fields
    <3> QED BY <1>2, <1>3, <1>4, <1>6, <3>1, <3>2, LateTurns
  <2>4. CASE ClearSegments(r)
    <3>1. step = "clear" /\ step \notin Early BY <1>1, <2>4 DEF ClearSegments, Of, Due, Early
    <3>2. /\ db'.details = db.details /\ Go(r, Next1(r))
          /\ req[r].a \in AllActs(db) => db'.segments[req[r].a] = {}
      BY <2>2, <2>4, <1>b DEF ClearSegments, Tabled, Fields
    <3> QED BY <1>2, <1>3, <1>4, <1>6, <3>1, <3>2, LateTurns
  <2>5. CASE InsertSegments(r)
    <3>1. step = "segments" /\ step \notin Early
      BY <1>1, <2>5 DEF InsertSegments, Of, Due, Early
    <3>2. /\ db'.details = db.details
          /\ Finish(r) \/ (Reply(r, "failed") /\ req[r].a \notin AllActs(db))
      BY <2>1, <2>2, <2>5, <3>1, <1>b DEF InsertSegments, Refuse, Tabled, Fields
    <3> QED BY <1>2, <1>3, <1>4, <1>6, <3>1, <3>2, LateTurns
  <2>6. CASE SetPrice(r)
    <3>1. step = "setPrice" /\ step \notin Early BY <1>1, <2>6 DEF SetPrice, Of, Due, Early
    <3>2. db'.details = db.details /\ Finish(r) BY <2>6, <1>b DEF SetPrice, Tabled, Fields
    <3> QED BY <1>2, <1>3, <1>4, <1>6, <3>1, <3>2, LateTurns
  <2>7. CASE WriteBase(r) \/ InsertBadDetails(r) \/ FindDetailsRow(r) \/ WriteDetails(r)
             \/ UpsertDetails(r) \/ FindPriceRow(r) \/ WritePrice(r)
    <3>1. step \notin FormSteps
      BY <1>1, <2>7
         DEF WriteBase, InsertBadDetails, FindDetailsRow, WriteDetails, UpsertDetails,
             FindPriceRow, WritePrice, Of, Due, FormSteps
    <3> QED BY <2>1, <3>1
  <2> QED BY <2>3, <2>4, <2>5, <2>6, <2>7, Zenon DEF ComponentStep
<1> QED BY <1>3, <1>5, <1>6

-----------------------------------------------------------------------------

\* A save starts when no other is in progress, from what the form knows.
LEMMA SentAlone ==
    ASSUME Framed, FormShape, FormAlone, NEW r \in Requests, NEW by \in {"auto", "manual"},
           ~Pending, Send(r, by), events' = events, env' = env
    PROVE  FormAlone'
<1> DEFINE row == SaveRow(by)
<1>1. \A q \in Requests : req[q] = Idle BY SavingOp DEF FormAlone, Pending
<1>2. /\ req' = [req EXCEPT ![r] = row] /\ db' = db /\ faults' = faults
      /\ form'.id = form.id
  BY DEF Send, FormShape, NoForm
<1>3. OnlyAct(db, form.id) /\ OldDetails(db, form) BY <1>1 DEF FormAlone
<1>4. Saving(db, form', row) /\ row # Idle
  <2>1. CASE form.id = 0
    <3>1. /\ row.op \in {"createActivity", "createComponent"} /\ row.by = by /\ row.a = 0
          /\ row.pc = BaseCreate \o Writes(form.kind)
      BY <2>1, IdleFacts DEF SaveRow, Idle
    <3> HIDE DEF row
    <3>2. AllActs(db) = {} /\ 0 \in Int /\ 0 <= db.made.act
      BY <1>3, <2>1 DEF OnlyAct, AllActs, Acts, OldDetails
    <3>3. Creates(db, form', row) BY <1>2, <2>1, <3>1, <3>2, OrderlyCreates DEF Creates, OnlyAct
    <3> QED BY <3>1, <3>3, IdleFacts DEF Saving
  <2>2. CASE form.id # 0
    <3>1. /\ row.op \in {"updateActivity", "updateComponent"} /\ row.by = by /\ row.a = form.id
          /\ row.v = "name"
      BY <2>2, IdleFacts DEF SaveRow, Idle
    <3> HIDE DEF row
    <3>2. Edits(db, form', row) BY <1>2, <1>3, <2>2, <3>1 DEF Edits
    <3> QED BY <3>1, <3>2, IdleFacts DEF Saving
  <2> QED BY <2>1, <2>2
<1> HIDE DEF row
<1>5. DOMAIN req = Requests BY DEF Framed, Slotted
<1>6. req'[r] = row /\ \A q \in Requests : q # r => req'[q] = Idle BY <1>1, <1>2, <1>5
<1>7. OldDetails(db', form') BY <1>2, <1>3 DEF OldDetails
<1> QED BY <1>2, <1>4, <1>6, <1>7 DEF FormAlone

\* The forms in question only send then.
LEMMA SendsAlone ==
    ASSUME Framed, FormShape, FormAlone, OneSaveAtATime, NEW r \in Requests, FormStep(r),
           events' = events, env' = env
    PROVE  FormAlone'
<1>0. DOMAIN req = Requests /\ DOMAIN form = DOMAIN NoForm BY DEF Framed, Slotted, FormShape
<1>1. CASE SaveAnswered(r)
  <2>1. req[r].op \in {"ok", "failed"} /\ req' = [req EXCEPT ![r] = Idle] /\ db' = db /\ faults' = faults
    BY <1>1, Zenon DEF SaveAnswered
  <2>2. req[r] # Idle /\ Answered(db, form, req[r]) /\ req[r].by \in {"auto", "manual"}
    BY <2>1, IdleFacts DEF FormAlone, Saving, Edits, Creates
  <2>3. \A q \in Requests : req'[q] = Idle BY <2>1, <2>2, <1>0 DEF FormAlone
  <2> DEFINE x == IF \/ req[r].op = "failed" \/ req[r].by = "ports"
                     \/ req[r].by = "auto" /\ form.id # 0
                  THEN form.id ELSE req[r].a
  <2>4. form'.id = x
    <3>1. form' = [form EXCEPT !.id = x] BY <1>1, Zenon DEF SaveAnswered
    <3> HIDE DEF x
    <3> QED BY <3>1, <1>0 DEF NoForm
  <2>5. OnlyAct(db, form'.id) BY <2>1, <2>2, <2>4 DEF Answered
  <2>6. OldDetails(db, form')
    <3>1. CASE form.id = 0 BY <3>1 DEF FormAlone, OldDetails
    <3>2. CASE form.id # 0
      BY <2>1, <2>2, <2>4, <3>2 DEF Answered, OldDetails
    <3> QED BY <3>1, <3>2
  <2> QED BY <2>1, <2>3, <2>5, <2>6 DEF FormAlone
<1>2. CASE PortsAfterSave(r) \/ SaveAndGeneratePorts(r)
  BY SavingOp, <1>2, IdleFacts DEF FormAlone, PortsAfterSave, SaveAndGeneratePorts, OneSaveAtATime
<1>3. ASSUME NEW by \in {"auto", "manual"}, Send(r, by), ~Pending PROVE FormAlone'
  BY <1>3, SentAlone
<1>4. ASSUME NEW kind, Save(r, kind), ~(kind = "transportation" /\ ~Pending) PROVE kind = "transportation"
  BY <1>4 DEF Save, OneSaveAtATime
<1>5. ASSUME NEW kind, Autosave(r, kind) PROVE FormAlone' BY <1>3, <1>5 DEF Autosave
<1>6. ASSUME NEW kind, kind # "transportation", Save(r, kind) PROVE FALSE
  BY <1>6 DEF Save, OneSaveAtATime
<1>7. CASE TransportationSave(r) BY <1>3, <1>7 DEF TransportationSave, Save
<1> QED
  BY <1>1, <1>2, <1>5, <1>6, <1>7
     DEF FormStep, FlightAutosave, DiningAutosave, OptionsAutosave, TourAutosave, PortInfoAutosave,
         PackageAutosave, CustomCruiseAutosave, LodgingAutosave, TransportationAutosave, FlightSave,
         DiningSave, OptionsSave, TourSave, PortInfoSave, PackageSave, CustomCruiseSave, LodgingSave

LEMMA FormAloneStep ==
    ASSUME Framed, FormShape, FormAlone, OneSaveAtATime, [Next]_vars
    PROVE  FormAlone'
<1>1. CASE vars' = vars BY <1>1 DEF vars, FormAlone
<1>2. CASE Next
  <2>1. env' = env BY <1>2, Zenon DEF Next
  <2>2. \A r \in Requests : /\ ~ItineraryStep(r) /\ ~DayStep(r) /\ ~ComponentRequest(r)
                           /\ ~ScheduleStep(r) /\ ~OrderStep(r) /\ ~TripStep(r)
                           /\ ~Die(r) /\ ~HandlerStep
    BY NoItineraryStep, NoDayStep, NoComponentRequest, NoScheduleStep, NoOrderStep, NoTripStep,
       NobodyDies
  <2>3. \/ \E r \in Requests : ActivityStep(r) \/ ComponentStep(r) \/ FormStep(r)
        \/ FormEffect
        \/ HandlerStep
    BY <1>2, <2>2, Zenon DEF Next
  <2>4. CASE HandlerStep BY <2>4 DEF FormAlone, HandlerStep
  <2>5. ASSUME ~HandlerStep PROVE events' = events BY <1>2, <2>2, <2>5, Zenon DEF Next
  <2>6. ASSUME NEW r \in Requests, ActivityStep(r) \/ ComponentStep(r), events' = events PROVE FormAlone'
    BY <2>6, ActivityTurns, ComponentTurns, <2>1, AloneTurns
  <2>7. ASSUME NEW r \in Requests, FormStep(r), events' = events PROVE FormAlone'
    BY <2>1, <2>7, SendsAlone
  <2>8. CASE FormEffect /\ events' = events
    <3>1. db' = db /\ req' = req /\ faults' = faults /\ form'.id = form.id
      BY <2>8 DEF FormEffect, FormShape, NoForm
    <3> QED BY <2>1, <2>8, <3>1 DEF FormAlone, OldDetails, Saving, Answered, Edits, Creates
  <2> QED BY <2>3, <2>4, <2>5, <2>6, <2>7, <2>8, Zenon
<1> QED BY <1>1, <1>2

OneForm == Framed /\ FormShape /\ (OneSaveAtATime => FormAlone)

LEMMA InitForm == ASSUME FormsAlone, Init PROVE OneForm
<1>1. Framed BY InitFramed
<1>0. PICK e \in Environments : StartsFrom(e) BY DEF Init
<1>2. /\ env = e.rules /\ form = [NoForm EXCEPT !.kind = e.form] /\ events = {} /\ faults = 0
      /\ req = [r \in Requests |-> Idle]
      /\ db.act = [a \in Acts |-> Row(e.acts, a, NoAct)] /\ db.made.act = Len(e.acts)
      /\ db.details = (1 .. Len(e.acts))
                \ {a \in 1 .. Len(e.acts) : e.acts[a].kind \in {"tour", "package"}}
  BY <1>0 DEF StartsFrom
<1>3. FormShape /\ form.kind = e.form /\ form.id = 0 BY <1>2 DEF FormShape, NoForm
<1>4. ASSUME OneSaveAtATime PROVE FormAlone
  <2>1. env.operations = {} /\ env.faults = 0 /\ e.acts = <<>>
    BY <1>2, <1>3, <1>4 DEF FormsAlone, OneSaveAtATime
  <2>2. \A a \in Acts : db.act[a] = NoAct BY <1>2, <2>1 DEF Row
  <2>3. AllActs(db) = {} /\ db.details = {} /\ db.made.act = 0
    BY <1>2, <2>1, <2>2 DEF AllActs, NoAct
  <2> QED BY <1>2, <2>1, <2>3 DEF FormAlone, OldDetails, OnlyAct
<1> QED BY <1>1, <1>3, <1>4 DEF OneForm

LEMMA OneFormStep == ASSUME OneForm, [Next]_vars PROVE OneForm'
<1>1. Framed' BY FramedStep DEF OneForm
<1>2. FormShape' /\ form'.kind = form.kind BY FormStays DEF OneForm
<1>3. env' = env BY Zenon DEF Next, vars
<1>4. OneSaveAtATime' => FormAlone' BY <1>2, <1>3, FormAloneStep DEF OneForm, OneSaveAtATime
<1> QED BY <1>1, <1>2, <1>4 DEF OneForm

\* OneActivityPerForm: one request of a form is in progress at most, and what it does not know
\* it has not made: the form learns the id with the answer, before it sends again.
THEOREM FormsMakeOneActivity == ASSUME FormsAlone PROVE Spec => []OneActivityPerForm
<1>1. OneForm => OneActivityPerForm
  <2> SUFFICES ASSUME OneForm, OneSaveAtATime PROVE Cardinality(AllActs(db)) <= 1
    BY DEF OneActivityPerForm, OneSaveAtATime
  <2>1. \E x : AllActs(db) \subseteq {x}
    BY DEF OneForm, FormAlone, Saving, Answered, Edits, Creates, OnlyAct
  <2>2. PICK x : AllActs(db) \subseteq {x} BY <2>1
  <2>3. IsFiniteSet({x}) /\ Cardinality({x}) = 1 BY FS_Singleton
  <2> QED BY <2>2, <2>3, FS_Subset, FS_CardinalityType
<1> QED BY <1>1, InitForm, OneFormStep, PTL DEF Spec

-----------------------------------------------------------------------------
(* The rows of the activities                                                *)

Rowed(t) == /\ DOMAIN t.act = Acts /\ DOMAIN t.price = Acts
            /\ \A a \in Acts : DOMAIN t.act[a] = DOMAIN NoAct

\* An activity is there still, with the details and the price it had; none comes, and one that
\* stays has the place and the parent it had.
Remains(t, u, a) ==
    /\ t.act[a].kind # "none"
    /\ a \in t.details => a \in u.details
    /\ t.price[a] # 0 => u.price[a] # 0
Stays(t, u, a) ==
    /\ Remains(t, u, a)
    /\ u.act[a].day = t.act[a].day /\ u.act[a].seq = t.act[a].seq
    /\ u.act[a].parent = t.act[a].parent
KeepsActs(t, u) ==
    /\ Rowed(u) /\ u.made.act = t.made.act
    /\ \A a \in Acts : u.act[a].parent \in {0, t.act[a].parent}
    /\ \A a \in Acts : u.act[a].kind # "none" => Stays(t, u, a)

LEMMA SameActsKept == ASSUME NEW t, Rowed(t), NEW u, SameActs(t, u) PROVE KeepsActs(t, u)
BY DEF SameActs, KeepsActs, Rowed, Stays, Remains

LEMMA DropActsKept == ASSUME NEW t, Tabled(t), Rowed(t), NEW A PROVE KeepsActs(t, DropActs(t, A))
<1> DEFINE gone == WithChildren(t, A)
           u == DropActs(t, A)
<1>1. /\ u.act = [a \in Acts |-> IF a \in gone THEN NoAct ELSE t.act[a]]
      /\ u.details = t.details \ gone /\ u.made = t.made
      /\ u.price = [a \in Acts |-> IF a \in gone THEN 0 ELSE t.price[a]]
  BY DEF DropActs, Tabled, Fields
<1> HIDE DEF gone, u
<1>2. Rowed(u) /\ u.made.act = t.made.act BY <1>1 DEF Rowed
<1>3. ASSUME NEW a \in Acts, u.act[a].kind # "none" PROVE Stays(t, u, a)
  BY <1>1, <1>3 DEF NoAct, Stays, Remains
<1>4. \A a \in Acts : u.act[a].parent \in {0, t.act[a].parent} BY <1>1 DEF NoAct
<1> QED BY <1>2, <1>3, <1>4 DEF KeepsActs, u

LEMMA DropDaysKept == ASSUME NEW t, Tabled(t), Rowed(t), NEW D PROVE KeepsActs(t, DropDays(t, D))
<1> DEFINE u == DropActs(t, UNION {ActsOf(t, d) : d \in D})
<1>1. PlanWrite(t, u) /\ KeepsActs(t, u) BY DropActsWrite, DropActsKept
<1>2. DropDays(t, D) = [u EXCEPT !.day = [d \in Days |-> IF d \in D THEN NoDay ELSE @[d]]]
  BY DEF DropDays
<1> HIDE DEF u
<1>3. SameActs(u, DropDays(t, D)) BY <1>1, <1>2 DEF PlanWrite, Tabled, Fields, SameActs
<1> QED BY <1>1, <1>3 DEF KeepsActs, SameActs, Rowed, Stays, Remains

LEMMA DropItinsKept == ASSUME NEW t, Tabled(t), Rowed(t), NEW I PROVE KeepsActs(t, DropItins(t, I))
<1> DEFINE u == DropDays(t, UNION {DaysOf(t, i) : i \in I})
<1>1. PlanWrite(t, u) /\ KeepsActs(t, u) BY DropDaysWrite, DropDaysKept
<1>2. DropItins(t, I) = [u EXCEPT !.itin = [i \in Itins |-> IF i \in I THEN NoItin ELSE @[i]]]
  BY DEF DropItins
<1> HIDE DEF u
<1>3. SameActs(u, DropItins(t, I)) BY <1>1, <1>2 DEF PlanWrite, Tabled, Fields, SameActs
<1> QED BY <1>1, <1>3 DEF KeepsActs, SameActs, Rowed, Stays, Remains

LEMMA DropTripKept == ASSUME NEW t, Tabled(t), Rowed(t), NEW x PROVE KeepsActs(t, DropTrip(t, x))
<1> DEFINE u == DropItins(t, IF x = TheTrip THEN ItinsOf(t) ELSE {})
<1>1. PlanWrite(t, u) /\ KeepsActs(t, u) BY DropItinsWrite, DropItinsKept
<1>2. DropTrip(t, x) = [u EXCEPT !.trip[x] = NoTrip,
        !.order = [o \in Orders |-> IF @[o].trip = x THEN NoOrder ELSE @[o]],
        !.log = {entry \in @ : entry[2] # x}]
  BY DEF DropTrip
<1> HIDE DEF u
<1>3. SameActs(u, DropTrip(t, x)) BY <1>1, <1>2 DEF PlanWrite, Tabled, Fields, SameActs
<1> QED BY <1>1, <1>3 DEF KeepsActs, SameActs, Rowed, Stays, Remains

LEMMA ItineraryKept ==
    ASSUME Tabled(db), Rowed(db), NEW r \in Requests, ItineraryStep(r) PROVE KeepsActs(db, db')
BY ItineraryWrites, SameActsKept, DropItinsKept

LEMMA DayKept ==
    ASSUME Tabled(db), Rowed(db), NEW r \in Requests, DayStep(r) PROVE KeepsActs(db, db')
BY DayWrites, SameActsKept, DropDaysKept

LEMMA FormKeepsTables == ASSUME NEW r \in Requests, FormStep(r) PROVE db' = db
<1>1. \A by : Send(r, by) => db' = db BY DEF Send
<1>2. SaveAnswered(r) \/ PortsAfterSave(r) => db' = db BY DEF SaveAnswered, PortsAfterSave
<1> QED
  BY <1>1, <1>2, Zenon
     DEF FormStep, FlightAutosave, FlightSave, DiningAutosave, DiningSave, OptionsAutosave,
         OptionsSave, TourAutosave, TourSave, PortInfoAutosave, PortInfoSave, PackageAutosave,
         PackageSave, CustomCruiseAutosave, CustomCruiseSave, LodgingAutosave, LodgingSave,
         TransportationAutosave, TransportationSave, SaveAndGeneratePorts, Autosave, Save

\* Details are added, or a price set.
LEMMA DetailsKept ==
    ASSUME NEW t, Tabled(t), Rowed(t), NEW u,
           \/ u = t \/ \E D : u = [t EXCEPT !.details = @ \cup D]
           \/ \E D : u = [t EXCEPT !.package = D]
           \/ \E D : u = [t EXCEPT !.plan = D]
           \/ \E a, n : n # 0 /\ u = [t EXCEPT !.price[a] = n]
           \/ \E a : u = [t EXCEPT !.price[a] = IF @ = 0 THEN 0 ELSE 2]
           \/ \E a, S : u = [t EXCEPT !.segments[a] = S]
    PROVE  KeepsActs(t, u)
<1>1. u.act = t.act /\ u.made = t.made BY DEF Tabled, Fields
<1>2. \A a \in t.details : a \in u.details BY DEF Tabled, Fields
<1>3. DOMAIN u.price = Acts /\ \A a \in Acts : t.price[a] # 0 => u.price[a] # 0
  BY DEF Tabled, Fields, Rowed
<1> QED BY <1>1, <1>2, <1>3 DEF KeepsActs, Rowed, Stays, Remains

LEMMA ComponentKept ==
    ASSUME Tabled(db), Rowed(db), NEW r \in Requests, ComponentStep(r)
    PROVE  KeepsActs(db, db') \/ Positions(r)
BY ComponentWrites, DetailsKept

LEMMA ActivityKept ==
    ASSUME Tabled(db), Rowed(db), NEW r \in Requests, ActivityStep(r)
    PROVE  \/ KeepsActs(db, db') \/ Positions(r)
           \/ CreateInsert(r) \/ DuplicateCopy(r) \/ MoveActivityWrite(r)
           \/ ReorderActivitiesRow(r) \/ LinkChildrenWrite(r) \/ UnlinkChildrenWrite(r)
<1>2. CASE UpdateActivityWrite(r)
  <2>1. \/ db' = db \/ Positions(r)
        \/ \E x : db' = [db EXCEPT !.act[req[r].a].booked = x]
        \/ /\ Exists(req[r].a)
           /\ db' = [db EXCEPT !.act[req[r].a].kind = IF @ = "package" THEN "tour" ELSE "package"]
    BY <1>2, Reads, Zenon DEF UpdateActivityWrite, Positions
  <2>2. CASE db' = db BY <2>2, SameActsKept DEF SameActs
  <2>3. ASSUME NEW x, db' = [db EXCEPT !.act[req[r].a].booked = x] PROVE KeepsActs(db, db')
    <3> DEFINE a == req[r].a
    <3>1. /\ db'.act = [db.act EXCEPT ![a].booked = x] /\ db'.details = db.details
          /\ db'.price = db.price /\ db'.made = db.made
      BY <2>3 DEF Tabled, Fields
    <3> QED BY <3>1 DEF KeepsActs, Rowed, NoAct, Stays, Remains
  <2>4. CASE /\ Exists(req[r].a)
             /\ db' = [db EXCEPT !.act[req[r].a].kind = IF @ = "package" THEN "tour" ELSE "package"]
    <3> DEFINE a == req[r].a
    <3>1. \E x : /\ db'.act = [db.act EXCEPT ![a].kind = x] /\ db'.details = db.details
                 /\ db'.price = db.price /\ db'.made = db.made
      BY <2>4 DEF Tabled, Fields
    <3>2. db.act[a].kind # "none" BY <2>4 DEF Exists
    <3> QED BY <3>1, <3>2 DEF KeepsActs, Rowed, NoAct, Stays, Remains
  <2> QED BY <2>1, <2>2, <2>3, <2>4
<1> QED BY <1>2, ActivityWrites, DetailsKept, DropActsKept

LEMMA ScheduleKept ==
    ASSUME Tabled(db), Rowed(db), NEW r \in Requests, ScheduleStep(r)
    PROVE  KeepsActs(db, db') \/ InsertPorts(r)
BY ScheduleWrites, DetailsKept, DropActsKept, SameActsKept

LEMMA OrderKept ==
    ASSUME Tabled(db), NEW r \in Requests, OrderStep(r) PROVE SameActs(db, db')
<1>1. \/ db' = db
      \/ GenerateInsert(r) \/ FinalizeWrite(r) \/ SendEmailLog(r) \/ SendEmailFiltered(r)
      \/ ProviderSend(r) \/ SendEmailMark(r) \/ MarkSentWrite(r)
  BY Reads, Zenon
     DEF OrderStep, GenerateTripOrderSnapshot, GenerateReadTrip, GenerateNextVersion,
         FinalizeTripOrder, FinalizeFind, SendTripOrder, SendGet, SendPrepare, MarkSentFind
<1>2. CASE GenerateInsert(r) \/ FinalizeWrite(r)
  BY <1>2, Reads DEF GenerateInsert, FinalizeWrite, SameActs, Tabled, Fields, Counters
<1>3. CASE SendEmailLog(r) \/ SendEmailFiltered(r)
  BY <1>3, Reads DEF SendEmailLog, SendEmailFiltered, SameActs, Tabled, Fields
<1>4. CASE ProviderSend(r) \/ SendEmailMark(r) \/ MarkSentWrite(r)
  BY <1>4, Reads DEF ProviderSend, SendEmailMark, MarkSentWrite, SameActs, Tabled, Fields
<1>5. CASE db' = db BY <1>5 DEF SameActs
<1> QED BY <1>1, <1>2, <1>3, <1>4, <1>5

LEMMA TripKept ==
    ASSUME Tabled(db), Rowed(db), NEW r \in Requests, TripStep(r) PROVE KeepsActs(db, db')
<1>1. \/ db' = db
      \/ \E t : db' = DropTrip(db, t)
      \/ CreateTripInsert(r) \/ UpdateTripWrite(r) \/ BulkArchiveEach(r)
      \/ BulkChangeStatusEach(r) \/ PublishTripWrite(r) \/ UnpublishTripWrite(r)
  BY Reads, Zenon
     DEF TripStep, CreateTrip, UpdateTrip, UpdateTripFind, UpdateTripGroup, RemoveTrip,
         RemoveTripFind, RemoveTripDelete, BulkDelete, BulkArchive, BulkChangeStatus,
         BulkRequest, BulkRead, BulkDeleteEach, BulkEnd, PublishTrip, PublishTripFind,
         UnpublishTrip, DeleteTripRow
<1>0. db' = db => SameActs(db, db') BY DEF SameActs
<1>2. CASE CreateTripInsert(r)
  <2>1. \E t, row : db' = [db EXCEPT !.made.trip = t, !.trip[t] = row]
    BY <1>2, Zenon DEF CreateTripInsert
  <2> QED BY <2>1, SameActsKept DEF SameActs, Tabled, Fields, Counters
<1>3. CASE UpdateTripWrite(r)
  <2>1. db' = db \/ \E row : db' = [db EXCEPT !.trip[req[r].t] = row]
    BY <1>3, Reads, Zenon DEF UpdateTripWrite
  <2>2. SameActs(db, db') BY <2>1, <1>0 DEF SameActs, Tabled, Fields
  <2> QED BY <2>2, SameActsKept
<1>4. CASE BulkArchiveEach(r)
  BY <1>4, <1>0, SameActsKept DEF BulkArchiveEach, SameActs, Tabled, Fields
<1>5. CASE BulkChangeStatusEach(r)
  <2> DEFINE date == BookingDate(0, req[r].v = "booked")
  <2>1. \E w \in req[r].seen :
            \/ db' = db
            \/ db' = [db EXCEPT !.trip[w[1]].status = req[r].v,
                                !.trip[w[1]].date = IF date = 0 THEN @ ELSE date]
    BY <1>5, Reads, Zenon DEF BulkChangeStatusEach
  <2> HIDE DEF date
  <2>2. SameActs(db, db') BY <2>1, <1>0 DEF SameActs, Tabled, Fields
  <2> QED BY <2>2, SameActsKept
<1>6. CASE PublishTripWrite(r)
  <2>1. db' = db \/ \E row : db' = [db EXCEPT !.made.token = @ + 1, !.trip[req[r].t] = row]
    BY <1>6, Reads, Published, Zenon DEF PublishTripWrite
  <2>2. SameActs(db, db') BY <2>1, <1>0 DEF SameActs, Tabled, Fields, Counters
  <2> QED BY <2>2, SameActsKept
<1>7. CASE UnpublishTripWrite(r)
  BY <1>7, Reads, SameActsKept DEF UnpublishTripWrite, SameActs, Tabled, Fields
<1>8. CASE db' = db BY <1>8, SameActsKept DEF SameActs
<1> QED BY <1>1, <1>2, <1>3, <1>4, <1>5, <1>6, <1>7, <1>8, DropTripKept, Zenon

LEMMA HandlerKept == ASSUME Tabled(db), HandlerStep PROVE SameActs(db, db')
BY DEF HandlerStep, LogEvent, HandleTripBooked, SetFirstBookingDate, HandlerDies, SameActs,
       Tabled, Fields

-----------------------------------------------------------------------------
(* Copies in order                                                           *)

\* A finite set has an element where an integer function is highest: the elements above it
\* would be a smaller set of their own.
LEMMA Highest ==
    ASSUME NEW A, IsFiniteSet(A), A # {}, NEW f, \A a \in A : f[a] \in Int
    PROVE  \E a \in A : \A b \in A : f[b] <= f[a]
<1> DEFINE Above(a) == {b \in A : f[b] > f[a]}
           T == {Above(a) : a \in A}
<1>1. T \subseteq FiniteSubsetsOf(A) /\ T # {}
  <2>1. \A B \in SUBSET A : IsFiniteSet(B) BY FS_Subset
  <2>2. \A a \in A : Above(a) \in SUBSET A OBVIOUS
  <2> HIDE DEF Above
  <2> QED BY <2>1, <2>2 DEF FiniteSubsetsOf
<1>2. \E S \in T : \A R \in T : ~(<<R, S>> \in StrictSubsetOrdering(A))
  BY <1>1, FS_StrictSubsetOrderingWellFounded, WFMin
<1>3. PICK a \in A : \A b \in A : ~(<<Above(b), Above(a)>> \in StrictSubsetOrdering(A)) BY <1>2
<1>4. ASSUME NEW b \in A, f[b] > f[a] PROVE FALSE
  <2>1. Above(b) \subseteq Above(a) /\ b \in Above(a) /\ b \notin Above(b) BY <1>4
  <2>2. Above(b) \in SUBSET A /\ Above(a) \in SUBSET A /\ Above(b) # Above(a) BY <2>1
  <2>3. <<Above(b), Above(a)>> \in StrictSubsetOrdering(A)
    BY <2>1, <2>2 DEF StrictSubsetOrdering
  <2> QED BY <1>3, <2>3
<1> QED BY <1>4

LEMMA HighestSeqIs ==
    ASSUME NEW t, NEW d, \A a \in ActsOf(t, d) : t.act[a].seq \in Int
    PROVE  /\ HighestSeq(t, d) \in Int
           /\ \A a \in ActsOf(t, d) : t.act[a].seq <= HighestSeq(t, d)
<1> DEFINE A == ActsOf(t, d)
           f == [a \in A |-> t.act[a].seq]
           S == {t.act[a].seq : a \in A}
<1>1. IsFiniteSet(A)
  <2>1. IsFiniteSet(Acts) BY TripTreeAssumption, FS_Interval DEF Acts
  <2> QED BY <2>1, FS_Subset DEF ActsOf
<1>2. CASE A = {} BY <1>2 DEF HighestSeq, MaxOr
<1>3. CASE A # {}
  <2>0. \A a \in A : f[a] \in Int /\ f[a] = t.act[a].seq OBVIOUS
  <2> HIDE DEF f
  <2>1. PICK a \in A : \A b \in A : f[b] <= f[a] BY <1>1, <1>3, <2>0, Highest
  <2>2. f[a] \in S /\ \A y \in S : f[a] >= y BY <2>0, <2>1
  <2>3. Max(S) \in S /\ \A y \in S : Max(S) >= y BY <2>2, Zenon DEF Max
  <2>4. HighestSeq(t, d) = Max(S) BY <1>3 DEF HighestSeq, MaxOr
  <2> QED BY <2>0, <2>3, <2>4
<1> QED BY <1>2, <1>3

\* An activity keeps its place, and none comes.
KeepsPlaces(t, u) ==
    /\ Rowed(u) /\ u.made.act = t.made.act
    /\ \A a \in Acts : u.act[a].kind # "none" =>
            /\ t.act[a].kind # "none"
            /\ u.act[a].day = t.act[a].day /\ u.act[a].seq = t.act[a].seq

Placed(t) ==
    /\ Rowed(t) /\ t.made.act \in Nat
    /\ \A a \in AllActs(t) : t.act[a].seq \in Int
    /\ \A a, b \in AllActs(t) : a # b /\ t.act[a].day = t.act[b].day => t.act[a].seq # t.act[b].seq

\* The requests: a copy knows a position above all of its day.
Holds(q) == q.op = "duplicate" /\ q.pc \in {<<"maxSeq", "copy">>, <<"copy">>}
Plain(q) == q.by = "none" /\ q.op \notin Placing \cup {"duplicate"}
CopyRow(t, q) ==
    /\ q.by = "none" /\ q.op = "duplicate"
    /\ q.pc \in {<<"source", "lock", "maxSeq", "copy">>, <<"lock", "maxSeq", "copy">>,
                 <<"maxSeq", "copy">>, <<"copy">>}
    /\ q.pc = <<"copy">> => q.n \in Int /\ \A a \in ActsOf(t, q.d) : t.act[a].seq < q.n

Copying ==
    /\ form.kind = "none" /\ env.operations \cap Placing = {}
    /\ Placed(db)
    /\ \A r \in Requests : Plain(req[r]) \/ CopyRow(db, req[r])
    /\ \A r, q \in Requests : Holds(req[r]) /\ Holds(req[q]) /\ req[r].d = req[q].d => r = q

LEMMA KeptPlaces ==
    ASSUME NEW t, NEW u, KeepsActs(t, u) PROVE KeepsPlaces(t, u)
BY DEF KeepsActs, KeepsPlaces, Stays, Remains

LEMMA PlacedStays ==
    ASSUME NEW t, NEW u, Placed(t), KeepsPlaces(t, u)
    PROVE  /\ Placed(u)
           /\ \A q : CopyRow(t, q) => CopyRow(u, q)
<1>1. \A a \in AllActs(u) : /\ a \in AllActs(t) /\ u.act[a].day = t.act[a].day
                            /\ u.act[a].seq = t.act[a].seq
  BY DEF KeepsPlaces, AllActs
<1>2. Placed(u) BY <1>1 DEF Placed, KeepsPlaces
<1>3. ASSUME NEW q, CopyRow(t, q) PROVE CopyRow(u, q)
  BY <1>1, <1>3 DEF ActsOf, AllActs, CopyRow
<1> QED BY <1>2, <1>3

\* The slot of one request changes, and no activity its place.
LEMMA CopyingStays ==
    ASSUME Copying, NEW r \in Requests, Others(r), KeepsPlaces(db, db'), form'.kind = form.kind,
           env' = env, Plain(req'[r]) \/ CopyRow(db', req'[r]),
           \/ ~Holds(req'[r])
           \/ Holds(req[r]) /\ req'[r].d = req[r].d
           \/ \A q \in Requests : Holds(req[q]) => req[q].d # req'[r].d
    PROVE  Copying'
<1>1. Placed(db') /\ \A q \in Requests : CopyRow(db, req[q]) => CopyRow(db', req[q])
  BY PlacedStays DEF Copying
<1>2. \A q \in Requests : Plain(req'[q]) \/ CopyRow(db', req'[q]) BY <1>1 DEF Copying, Others
<1>3. ASSUME NEW p \in Requests, NEW q \in Requests, Holds(req'[p]), Holds(req'[q]),
             req'[p].d = req'[q].d
      PROVE  p = q
  BY <1>3 DEF Copying, Others
<1> QED BY <1>1, <1>2, <1>3 DEF Copying

LEMMA CopyPcs ==
    /\ Head(<<"source", "lock", "maxSeq", "copy">>) = "source"
    /\ Tail(<<"source", "lock", "maxSeq", "copy">>) = <<"lock", "maxSeq", "copy">>
    /\ Head(<<"lock", "maxSeq", "copy">>) = "lock"
    /\ Tail(<<"lock", "maxSeq", "copy">>) = <<"maxSeq", "copy">>
    /\ Head(<<"maxSeq", "copy">>) = "maxSeq" /\ Tail(<<"maxSeq", "copy">>) = <<"copy">>
    /\ Head(<<"copy">>) = "copy" /\ Len(<<"copy">>) = 1
    /\ <<"copy">> # <<"source", "lock", "maxSeq", "copy">>
    /\ <<"copy">> # <<"lock", "maxSeq", "copy">> /\ <<"copy">> # <<"maxSeq", "copy">>
    /\ <<"maxSeq", "copy">> # <<"lock", "maxSeq", "copy">>
    /\ <<"maxSeq", "copy">> # <<"source", "lock", "maxSeq", "copy">>
    /\ <<"copy">> # <<>> /\ <<"maxSeq", "copy">> # <<>> /\ <<"lock", "maxSeq", "copy">> # <<>>
<1>1. ASSUME NEW s, s = <<"copy">> \/ s = <<"maxSeq", "copy">> PROVE s # <<"lock", "maxSeq", "copy">>
  BY <1>1
<1>2. ASSUME NEW s, s = <<"copy">> \/ s = <<"maxSeq", "copy">>
      PROVE  s # <<"source", "lock", "maxSeq", "copy">>
  BY <1>2
<1>3. <<"copy">> # <<"maxSeq", "copy">>
  OBVIOUS
<1> QED BY <1>1, <1>2, <1>3

LEMMA PlainFacts ==
    /\ Plain(Idle) /\ \A q : Plain(q) => ~Holds(q)
    /\ \A t, q : CopyRow(t, q) => q.by = "none" /\ q.op = "duplicate"
BY IdleFacts DEF Plain, Placing, Holds, CopyRow

LEMMA PlainSlot ==
    ASSUME Copying, NEW r \in Requests PROVE req[r].by = "none" /\ req[r].op \notin Placing
BY DEF Copying, Plain, CopyRow, Placing

\* Whatever serves other operations leaves the places alone.
LEMMA ServesPlain ==
    ASSUME Copying, NEW r \in Requests, NEW ops, Serves(r, ops), "duplicate" \notin ops
    PROVE  Others(r) /\ Plain(req'[r])
BY PlainFacts, PlainSlot DEF Serves, Comes, Works, Plain, Copying

LEMMA OthersKeep ==
    ASSUME Framed, Copying, NEW r \in Requests,
           \/ ItineraryStep(r) \/ DayStep(r) \/ ComponentRequest(r) \/ ComponentStep(r)
           \/ ScheduleStep(r) \/ FormStep(r) \/ OrderStep(r) \/ TripStep(r) \/ Die(r)
    PROVE  Others(r) /\ Plain(req'[r]) /\ KeepsPlaces(db, db')
<1>1. Tabled(db) /\ Rowed(db) /\ KeepsActs(db, db)
  BY SameActsKept DEF Framed, Copying, Placed, SameActs
<1>2. CASE ItineraryStep(r)
  BY <1>1, <1>2, ItineraryServes, ServesPlain, ItineraryKept, KeptPlaces DEF ItineraryOps
<1>3. CASE DayStep(r) BY <1>1, <1>3, DayServes, ServesPlain, DayKept, KeptPlaces DEF DayOps
<1>4. CASE ComponentRequest(r)
  BY <1>4, ComponentRequestServes, <1>1, ServesPlain, KeptPlaces DEF Serves, Comes, ComponentOps
<1>5. CASE ComponentStep(r)
  BY <1>5, ComponentServes, <1>1, ServesPlain, ComponentKept, KeptPlaces, PlainSlot
     DEF Serves, GenerateOps, Positions, Placing
<1>6. CASE ScheduleStep(r)
  <2>1. ~InsertPorts(r) BY PlainSlot DEF InsertPorts, Due, Placing
  <2> QED
    BY <1>1, <1>6, <2>1, ScheduleServes, ServesPlain, ScheduleKept, KeptPlaces DEF GenerateOps
<1>7. CASE FormStep(r)
  BY <1>7, FormServes, PlainSlot, <1>1, PlainFacts, FormKeepsTables, KeptPlaces DEF Copying
<1>8. CASE OrderStep(r)
  BY <1>1, <1>8, OrderServes, ServesPlain, OrderKept, SameActsKept, KeptPlaces DEF OrderOps
<1>9. CASE TripStep(r) BY <1>1, <1>9, TripServes, ServesPlain, TripKept, KeptPlaces DEF TripOps
<1>10. CASE Die(r) BY <1>1, <1>10, DiesSlot, PlainSlot, PlainFacts, KeptPlaces
<1> QED BY <1>2, <1>3, <1>4, <1>5, <1>6, <1>7, <1>8, <1>9, <1>10

LEMMA LinkKeepsPlaces ==
    ASSUME Framed, Rowed(db), NEW r \in Requests, LinkChildrenWrite(r) \/ UnlinkChildrenWrite(r)
    PROVE  KeepsPlaces(db, db')
<1>1. db' = db \/ \E a, p : db' = [db EXCEPT !.act[a].parent = p]
  BY Reads, Zenon DEF LinkChildrenWrite, UnlinkChildrenWrite
<1>2. ASSUME NEW a, NEW p, db' = [db EXCEPT !.act[a].parent = p] PROVE KeepsPlaces(db, db')
  BY <1>2 DEF Framed, Tabled, Fields, KeepsPlaces, Rowed, NoAct
<1>3. CASE db' = db BY <1>3 DEF KeepsPlaces, Rowed
<1> QED BY <1>1, <1>2, <1>3

LEMMA CopyComes ==
    ASSUME Framed, Copying, NEW r \in Requests, ActivityStep(r), req[r] = Idle
    PROVE  /\ Others(r) /\ db' = db
           /\ Plain(req'[r]) \/ (CopyRow(db, req'[r]) /\ ~Holds(req'[r]))
<1>1. Comes(r, ActivityOps) BY ActivityServes
<1>2. CASE DuplicateActivity(r)
  <2>1. PICK a, d : Arrive(r, [Idle EXCEPT !.op = "duplicate", !.a = a, !.d = d,
                                           !.pc = <<"source", "lock", "maxSeq", "copy">>])
    BY <1>2 DEF DuplicateActivity
  <2> DEFINE row == [Idle EXCEPT !.op = "duplicate", !.a = a, !.d = d,
                                 !.pc = <<"source", "lock", "maxSeq", "copy">>]
  <2>2. row.op = "duplicate" /\ row.pc = <<"source", "lock", "maxSeq", "copy">> /\ row.by = "none"
    BY IdleFacts
  <2>3. req'[r] = row BY <2>1 DEF Arrive, Framed, Slotted
  <2> HIDE DEF row
  <2> QED BY <1>1, <2>2, <2>3, CopyPcs, Zenon DEF Comes, CopyRow, Holds
<1>3. CASE ~DuplicateActivity(r)
  <2>1. \/ CreateActivity(r) \/ UpdateActivity(r) \/ BookActivity(r) \/ RemoveActivity(r)
        \/ ReorderActivities(r) \/ MoveActivity(r) \/ LinkChildren(r) \/ UnlinkChildren(r)
    BY <1>3, IdleFacts
       DEF ActivityStep, VerifyDayExists, CreateMaxSeq, CreateInsert, CreatePrice,
           CreatePackageDetails, CreateScheduleConfig,
           UpdateActivityFind, PackageGuard, UpdateActivityWrite, UpdateActivityPrice, ActivityFind,
           RemoveActivityDelete, ReorderActivitiesVerify, ReorderActivitiesRow, MoveActivityFind,
           MoveActivityWrite, DuplicateFind, DuplicateLock, DuplicateCopy, LinkChildrenPackage,
           LinkChildrenRead, ValidateNoParentCycle, LinkChildrenWrite, UnlinkChildrenWrite, Due
  <2>2. Comes(r, ActivityOps \ {"duplicate"})
    BY <2>1, ComesAs, IdleFacts
       DEF CreateActivity, UpdateActivity, BookActivity, RemoveActivity, ReorderActivities,
           MoveActivity, LinkChildren, UnlinkChildren, ActivityOps
  <2> QED BY <2>2 DEF Comes, Copying, Plain
<1> QED BY <1>2, <1>3

\* A request of another operation goes on.
LEMMA OtherWorks ==
    ASSUME Framed, Copying, NEW r \in Requests, ActivityStep(r), req[r] # Idle,
           req[r].op # "duplicate"
    PROVE  Others(r) /\ Plain(req'[r]) /\ KeepsPlaces(db, db')
<1>1. Works(r) /\ Plain(req[r]) BY ActivityServes DEF Comes, Copying, CopyRow
<1>2. Plain(req'[r]) BY <1>1, PlainFacts DEF Works, Plain
<1>3. KeepsPlaces(db, db')
  <2>1. Tabled(db) /\ Rowed(db) BY DEF Framed, Copying, Placed
  <2>2. /\ ~CreateInsert(r) /\ ~MoveActivityWrite(r) /\ ~ReorderActivitiesRow(r)
        /\ ~DuplicateCopy(r) /\ ~Positions(r)
    BY <1>1 DEF CreateInsert, MoveActivityWrite, ReorderActivitiesRow, DuplicateCopy, Due, Plain,
                Placing, Positions
  <2> QED BY <2>1, <2>2, ActivityKept, KeptPlaces, LinkKeepsPlaces
<1> QED BY <1>1, <1>2, <1>3 DEF Works

LEMMA CopyWorks ==
    ASSUME Framed, Copying, NEW r \in Requests, ActivityStep(r), req[r].op = "duplicate"
    PROVE  DuplicateFind(r) \/ CreateMaxSeq(r) \/ DuplicateLock(r) \/ DuplicateCopy(r)
<1>1. CopyRow(db, req[r]) /\ req[r] # Idle BY IdleFacts DEF Copying, Plain
<1>2. ~VerifyDayExists(r) BY <1>1, CopyPcs, Zenon DEF VerifyDayExists, Due, CopyRow
<1>3. \A row : ~Arrive(r, row) BY <1>1 DEF Arrive
<1> QED
  BY <1>2, <1>3
     DEF ActivityStep, CreateActivity, UpdateActivity, BookActivity, RemoveActivity,
         ReorderActivities, MoveActivity, LinkChildren, UnlinkChildren, DuplicateActivity,
         CreateInsert, CreatePrice, CreatePackageDetails, CreateScheduleConfig,
         UpdateActivityFind, PackageGuard, UpdateActivityWrite, UpdateActivityPrice, ActivityFind,
         RemoveActivityDelete, ReorderActivitiesVerify, ReorderActivitiesRow, MoveActivityFind,
         MoveActivityWrite, LinkChildrenPackage,
         LinkChildrenRead, ValidateNoParentCycle, LinkChildrenWrite, UnlinkChildrenWrite, Due

\* A copy is refused, or made: its slot is free again.
LEMMA CopyEnds ==
    ASSUME Framed, Copying, NEW r \in Requests, req[r].op = "duplicate",
           \/ \E answer \in {"ok", "failed"} : Reply(r, answer)
           \/ Finish(r) /\ req[r].pc = <<"copy">>
    PROVE  Others(r) /\ req'[r] = Idle
<1>1. \E answer \in {"ok", "failed"} : Reply(r, answer) BY CopyPcs, Zenon DEF Finish
<1> QED BY <1>1, PlainSlot DEF Reply, Go, Others, Framed, Slotted

LEMMA CopyReads ==
    ASSUME Framed, Copying, NEW r \in Requests, req[r].op = "duplicate", env' = env,
           form'.kind = form.kind, DuplicateFind(r) \/ CreateMaxSeq(r) \/ DuplicateLock(r)
    PROVE  Copying'
<1>0. CopyRow(db, req[r]) /\ Tabled(db) /\ Rowed(db) BY DEF Copying, Plain, Framed, Placed
<1>1. CASE Refuse(r)
  BY <1>1, CopyEnds, <1>0, SameActsKept, KeptPlaces, PlainFacts, CopyingStays DEF Refuse, SameActs
<1>2. ASSUME NEW row, Go(r, row), db' = db, CopyRow(db, row),
             \/ ~Holds(row)
             \/ Holds(req[r]) /\ row.d = req[r].d
             \/ \A q \in Requests : Holds(req[q]) => req[q].d # row.d
      PROVE  Copying'
  BY <1>2, <1>0, SameActsKept, KeptPlaces, CopyingStays DEF Go, Others, Framed, Slotted, SameActs
<1>3. CASE DuplicateFind(r) /\ ~Refuse(r)
  <2> DEFINE row == [Next1(r) EXCEPT !.v = db.act[req[r].a].kind]
  <2>1. Due(r, "duplicate", "source") /\ Go(r, row) /\ db' = db BY <1>3, Zenon DEF DuplicateFind
  <2>2. /\ row.op = "duplicate" /\ row.by = "none" /\ row.pc = Tail(req[r].pc)
        /\ req[r].pc = <<"source", "lock", "maxSeq", "copy">>
    <3>1. Head(req[r].pc) = "source" BY <2>1 DEF Due
    <3>2. row.op = "duplicate" /\ row.by = req[r].by /\ row.pc = Tail(req[r].pc)
      BY NextSlot, IdleFacts
    <3>3. /\ Head(<<"lock", "maxSeq", "copy">>) # "source" /\ Head(<<"maxSeq", "copy">>) # "source"
          /\ Head(<<"copy">>) # "source"
      BY CopyPcs
    <3> HIDE DEF row
    <3> QED BY <1>0, <3>1, <3>2, <3>3, Zenon DEF CopyRow
  <2> HIDE DEF row
  <2>3. row.pc = <<"lock", "maxSeq", "copy">> BY <2>2, CopyPcs, Zenon
  <2>4. CopyRow(db, row) /\ ~Holds(row) BY <2>2, <2>3, CopyPcs, Zenon DEF CopyRow, Holds
  <2> QED BY <1>2, <2>1, <2>4
<1>4. CASE DuplicateLock(r)
  <2> DEFINE row == Next1(r)
  <2>1. Due(r, "duplicate", "lock") /\ Go(r, row) /\ db' = db /\ ~Locked(req[r].d)
    BY <1>4, Zenon DEF DuplicateLock
  <2>2. /\ row.op = "duplicate" /\ row.by = "none" /\ row.pc = Tail(req[r].pc)
        /\ req[r].pc = <<"lock", "maxSeq", "copy">> /\ row.d = req[r].d
    <3>1. Head(req[r].pc) = "lock" BY <2>1 DEF Due
    <3>2. row.op = "duplicate" /\ row.by = req[r].by /\ row.pc = Tail(req[r].pc) /\ row.d = req[r].d
      BY NextSlot, IdleFacts
    <3>3. /\ Head(<<"source", "lock", "maxSeq", "copy">>) # "lock"
          /\ Head(<<"maxSeq", "copy">>) # "lock" /\ Head(<<"copy">>) # "lock"
      BY CopyPcs
    <3> HIDE DEF row
    <3> QED BY <1>0, <3>1, <3>2, <3>3, Zenon DEF CopyRow
  <2> HIDE DEF row
  <2>3. row.pc = <<"maxSeq", "copy">> BY <2>2, CopyPcs, Zenon
  <2>4. CopyRow(db, row) BY <2>2, <2>3, CopyPcs, Zenon DEF CopyRow
  <2>5. \A q \in Requests : Holds(req[q]) => req[q].d # row.d
    BY <2>1, <2>2, Zenon DEF Locked, Holds
  <2> QED BY <1>2, <2>1, <2>4, <2>5
<1>5. CASE CreateMaxSeq(r)
  <2> DEFINE row == [Next1(r) EXCEPT !.n = HighestSeq(db, req[r].d) + 1]
  <2>0. ~GivenPlace(r) /\ req[r].op = "duplicate" BY <1>0 DEF GivenPlace, CopyRow
  <2>1. Due(r, "duplicate", "maxSeq") /\ Go(r, row) /\ db' = db
    BY <1>5, <2>0, Zenon DEF CreateMaxSeq
  <2>2. /\ row.op = "duplicate" /\ row.by = "none" /\ row.pc = Tail(req[r].pc)
        /\ req[r].pc = <<"maxSeq", "copy">> /\ row.d = req[r].d
        /\ row.n = HighestSeq(db, req[r].d) + 1
    <3>1. Head(req[r].pc) = "maxSeq" BY <2>1 DEF Due
    <3>2. /\ row.op = "duplicate" /\ row.by = req[r].by /\ row.pc = Tail(req[r].pc)
          /\ row.d = req[r].d /\ row.n = HighestSeq(db, req[r].d) + 1
      BY NextSlot, IdleFacts
    <3>3. /\ Head(<<"source", "lock", "maxSeq", "copy">>) # "maxSeq"
          /\ Head(<<"lock", "maxSeq", "copy">>) # "maxSeq" /\ Head(<<"copy">>) # "maxSeq"
      BY CopyPcs
    <3> HIDE DEF row
    <3> QED BY <1>0, <3>1, <3>2, <3>3, Zenon DEF CopyRow
  <2> HIDE DEF row
  <2>3. row.pc = <<"copy">> BY <2>2, CopyPcs, Zenon
  <2>4. row.n \in Int /\ \A a \in ActsOf(db, row.d) : db.act[a].seq < row.n
    BY HighestSeqIs, <2>2 DEF Copying, Placed, ActsOf, AllActs
  <2>5. CopyRow(db, row) BY <2>2, <2>3, <2>4, Zenon DEF CopyRow
  <2>6. Holds(req[r]) BY <2>2 DEF Holds
  <2> QED BY <1>2, <2>1, <2>2, <2>5, <2>6
<1> QED BY <1>1, <1>3, <1>4, <1>5

\* The copy comes after all of its day, and a copy of another day has nothing to do with it.
LEMMA CopyPlaces ==
    ASSUME Framed, Copying, NEW r \in Requests, env' = env, form'.kind = form.kind, DuplicateCopy(r)
    PROVE  Copying'
<1> DEFINE row == ActRow(req[r].v, req[r].d, 0, req[r].n)
           new == db.made.act + 1
           u == AddActs(db, <<row>>)
<1>0. /\ CopyRow(db, req[r]) /\ Tabled(db) /\ Placed(db) /\ Rowed(db) /\ db.made.act \in Nat
      /\ req[r].op = "duplicate" /\ req[r].by = "none"
  BY PlainSlot DEF DuplicateCopy, Due, Copying, Plain, Framed, Placed
<1>1. CASE Refuse(r)
  BY <1>0, <1>1, CopyEnds, SameActsKept, KeptPlaces, PlainFacts, CopyingStays DEF Refuse, SameActs
<1>2. CASE ~Refuse(r)
  <2>1. /\ Head(req[r].pc) = "copy" /\ Finish(r)
        /\ db' = [u EXCEPT !.details = IF req[r].a \in @ /\ req[r].v \in CopiedKinds
                                       THEN @ \cup {new} ELSE @,
                           !.price[new] = db.price[req[r].a]]
    BY <1>2, Zenon DEF DuplicateCopy, Due
  <2>2. req[r].pc = <<"copy">> BY <1>0, <2>1, CopyPcs, Zenon DEF CopyRow
  <2>3. Others(r) /\ req'[r] = Idle BY <1>0, <2>1, <2>2, CopyEnds
  <2>4. req[r].n \in Int /\ \A a \in ActsOf(db, req[r].d) : db.act[a].seq < req[r].n
    BY <1>0, <2>2, Zenon DEF CopyRow
  <2>5. /\ u.made.act = new /\ DOMAIN u.act = Acts
        /\ \A a \in Acts : u.act[a] = IF a = new THEN row ELSE db.act[a]
        /\ u.details = db.details /\ u.price = db.price
    BY <1>0, AddedAct
  <2>5a. DOMAIN u = Fields BY <1>0 DEF AddActs, Tabled
  <2>6. /\ row.kind = req[r].v /\ row.day = req[r].d /\ row.seq = req[r].n
        /\ DOMAIN row = DOMAIN NoAct
    BY DEF ActRow, NoAct
  <2> HIDE DEF row, u
  <2>7. /\ db'.made.act = new /\ DOMAIN db'.act = Acts
        /\ \A a \in Acts : db'.act[a] = IF a = new THEN row ELSE db.act[a]
        /\ DOMAIN db'.price = Acts
    BY <2>1, <2>5, <2>5a, <1>0 DEF Fields, Rowed
  <2>8. Placed(db')
    <3>1. Rowed(db') BY <1>0, <2>6, <2>7 DEF Rowed
    <3>2. \A a \in AllActs(db') : a = new \/ (a \in AllActs(db) /\ db'.act[a] = db.act[a])
      BY <2>7 DEF AllActs
    <3>3. \A a \in AllActs(db') : db'.act[a].seq \in Int
      BY <1>0, <2>4, <2>6, <2>7, <3>2 DEF Placed, AllActs
    <3>4. ASSUME NEW a \in AllActs(db'), NEW b \in AllActs(db'), a # b,
                 db'.act[a].day = db'.act[b].day
          PROVE  db'.act[a].seq # db'.act[b].seq
      <4>1. CASE a # new /\ b # new BY <1>0, <3>2, <3>4, <4>1 DEF Placed
      <4>2. \A c \in AllActs(db) : db.act[c].day = req[r].d => db.act[c].seq < req[r].n
        BY <2>4 DEF ActsOf, AllActs
      <4>3. \A c \in AllActs(db) : db.act[c].seq \in Int BY <1>0 DEF Placed
      <4>4. CASE a = new
        BY <2>7, <3>2, <3>4, <4>4, <2>4, <2>6, <4>2, <4>3 DEF AllActs
      <4>5. CASE b = new
        BY <2>7, <3>2, <3>4, <4>5, <2>4, <2>6, <4>2, <4>3 DEF AllActs
      <4> QED BY <4>1, <4>4, <4>5
    <3> QED BY <1>0, <2>7, <3>1, <3>3, <3>4 DEF Placed
  <2>9. ASSUME NEW q \in Requests \ {r}, CopyRow(db, req[q]) PROVE CopyRow(db', req[q])
    <3>1. CASE req[q].pc # <<"copy">> BY <2>9, <3>1, Zenon DEF CopyRow
    <3>2. CASE req[q].pc = <<"copy">>
      <4>0. /\ req[q].by = "none" /\ req[q].op = "duplicate" /\ req[q].n \in Int
            /\ \A a \in ActsOf(db, req[q].d) : db.act[a].seq < req[q].n
        BY <2>9, <3>2, Zenon DEF CopyRow
      <4>1. Holds(req[q]) /\ Holds(req[r]) BY <1>0, <2>2, <3>2, <4>0 DEF Holds
      <4>2. req[q].d # req[r].d BY <4>1 DEF Copying
      <4>3. \A a \in ActsOf(db', req[q].d) : db'.act[a].seq < req[q].n
        BY <2>6, <2>7, <4>0, <4>2 DEF ActsOf
      <4> QED BY <2>9, <3>2, <4>0, <4>3 DEF CopyRow
    <3> QED BY <3>1, <3>2
  <2>10. \A q \in Requests : Plain(req'[q]) \/ CopyRow(db', req'[q])
    BY <2>3, <2>9, PlainFacts DEF Copying, Others
  <2>11. \A p, q \in Requests :
            Holds(req'[p]) /\ Holds(req'[q]) /\ req'[p].d = req'[q].d => p = q
    BY <2>3, PlainFacts DEF Copying, Others
  <2> QED BY <2>8, <2>10, <2>11 DEF Copying
<1> QED BY <1>1, <1>2

LEMMA CopyingStep ==
    ASSUME Framed, FormShape, Copying, [Next]_vars
    PROVE  Copying'
<1>0. env' = env /\ FormShape' /\ form'.kind = form.kind BY FormStays, Zenon DEF Next, vars
<1>1. CASE vars' = vars BY <1>1 DEF vars, Copying
<1>2. ASSUME req' = req, SameActs(db, db') PROVE Copying'
  BY <1>2, SameActsKept, KeptPlaces, PlacedStays, <1>0 DEF Copying, Placed
<1>3. ASSUME NEW r \in Requests,
             \/ ItineraryStep(r) \/ DayStep(r) \/ ComponentRequest(r) \/ ComponentStep(r)
             \/ ScheduleStep(r) \/ FormStep(r) \/ OrderStep(r) \/ TripStep(r) \/ Die(r)
      PROVE  Copying'
  BY <1>0, <1>3, OthersKeep, CopyingStays, PlainFacts
<1>4. ASSUME NEW r \in Requests, ActivityStep(r) PROVE Copying'
  <2>1. CASE req[r] = Idle
    <3>1. KeepsPlaces(db, db) /\ Others(r) /\ db' = db
      BY <1>4, <2>1, CopyComes, SameActsKept, KeptPlaces DEF SameActs, Copying, Placed
    <3> QED BY <1>0, <1>4, <2>1, <3>1, CopyComes, CopyingStays, PlainFacts
  <2>2. CASE req[r] # Idle /\ req[r].op # "duplicate"
    BY <1>0, <1>4, <2>2, OtherWorks, CopyingStays, PlainFacts
  <2>3. CASE req[r].op = "duplicate" BY <1>0, <1>4, <2>3, CopyWorks, CopyReads, CopyPlaces
  <2> QED BY <2>1, <2>2, <2>3
<1>5. CASE HandlerStep
  <2>1. req' = req
    BY <1>5 DEF HandlerStep, LogEvent, HandleTripBooked, SetFirstBookingDate, HandlerDies
  <2>2. SameActs(db, db') BY <1>5, HandlerKept DEF Framed
  <2> QED BY <1>2, <2>1, <2>2
<1>6. CASE FormEffect BY <1>2, <1>6 DEF FormEffect, SameActs
<1> QED BY <1>1, <1>3, <1>4, <1>5, <1>6, Zenon DEF Next

CopyBook == Framed /\ FormShape /\ (env.copies => Copying)

LEMMA InitCopies == ASSUME CopiesAlone, Init PROVE CopyBook
<1>1. Framed BY InitFramed
<1>0. PICK e \in Environments : StartsFrom(e) BY DEF Init
<1>2. /\ env = e.rules /\ form = [NoForm EXCEPT !.kind = e.form]
      /\ req = [r \in Requests |-> Idle]
      /\ db.act = [a \in Acts |-> Row(e.acts, a, NoAct)] /\ db.made.act = Len(e.acts)
      /\ db.price = [a \in Acts |-> IF a \in 1 .. Len(e.acts) THEN 1 ELSE 0]
  BY <1>0 DEF StartsFrom
<1>3. FormShape /\ form.kind = e.form BY <1>2 DEF FormShape, NoForm
<1>4. /\ DOMAIN e.acts \subseteq Nat /\ Len(e.acts) \in Nat
      /\ \A a \in DOMAIN e.acts : /\ e.acts[a].seq \in Int /\ DOMAIN e.acts[a] = DOMAIN NoAct
  <2> DEFINE rows == [kind : STRING \ {"none"}, day : 0 .. Len(e.days), parent : Nat,
                       seq : Int, booked : BOOLEAN]
  <2>1. e.acts \in Seq(rows) BY StartAssumption
  <2>2. \A row \in rows : row.seq \in Int /\ DOMAIN row = DOMAIN NoAct BY DEF NoAct
  <2> HIDE DEF rows
  <2>3. /\ DOMAIN e.acts = 1 .. Len(e.acts) /\ Len(e.acts) \in Nat
        /\ \A a \in DOMAIN e.acts : e.acts[a] \in rows
    BY <2>1
  <2> QED BY <2>2, <2>3
<1>5. ASSUME env.copies PROVE Copying
  <2>1. /\ env.operations \cap Placing = {} /\ e.form = "none"
        /\ \A a, b \in DOMAIN e.acts :
                a # b /\ e.acts[a].day = e.acts[b].day => e.acts[a].seq # e.acts[b].seq
    BY <1>2, <1>5, Zenon DEF CopiesAlone
  <2>2. \A a \in AllActs(db) : a \in DOMAIN e.acts /\ db.act[a] = e.acts[a]
    BY <1>2 DEF AllActs, Row, NoAct
  <2>3. Rowed(db) BY <1>2, <1>4 DEF Rowed, Row
  <2>4. Placed(db) BY <1>2, <1>4, <2>1, <2>2, <2>3 DEF Placed
  <2> QED BY <1>2, <1>3, <2>1, <2>4, PlainFacts DEF Copying
<1> QED BY <1>1, <1>3, <1>5 DEF CopyBook

LEMMA CopyBookStep == ASSUME CopyBook, [Next]_vars PROVE CopyBook'
<1>1. Framed' /\ FormShape' BY FramedStep, FormStays DEF CopyBook
<1>2. env' = env BY Zenon DEF Next, vars
<1>3. env.copies => Copying' BY CopyingStep DEF CopyBook
<1> QED BY <1>1, <1>2, <1>3 DEF CopyBook

\* CopiesInOrder: the lock on the day keeps the position a copy read above all others until the
\* copy has it; activities removed meanwhile only leave gaps.
THEOREM CopiesKeepOrder == ASSUME CopiesAlone PROVE Spec => []CopiesInOrder
<1>1. CopyBook => CopiesInOrder BY DEF CopyBook, CopiesInOrder, Copying, Placed
<1> QED BY <1>1, InitCopies, CopyBookStep, PTL DEF Spec

-----------------------------------------------------------------------------
(* Activities come under new ids only                                        *)

\* Activities have the ids counted so far.
Counted(t) ==
    /\ Tabled(t) /\ Rowed(t) /\ t.made.act \in Nat
    /\ \A a \in AllActs(t) : a <= t.made.act
    /\ \A a \in Acts : t.act[a].parent \in 0 .. t.made.act

\* A step of the whole system: what was there and is there keeps what hangs on it, and what
\* comes has an id that was not used before.
Came(t, u, a) == a > t.made.act /\ a <= u.made.act
Evolves(t, u) ==
    /\ Rowed(u) /\ u.made.act \in Nat /\ u.made.act >= t.made.act
    /\ \A a \in AllActs(u) : Remains(t, u, a) \/ Came(t, u, a)
    /\ \A a \in Acts : u.act[a].parent \in 0 .. u.made.act

\* Nobody else gets a parent, and who comes has one that is there.
KeepsParents(t, u) ==
    \A a \in AllActs(u) :
        \/ u.act[a].parent = 0
        \/ ~Came(t, u, a) /\ u.act[a].parent = t.act[a].parent
        \/ Came(t, u, a) /\ u.act[a].parent \in AllActs(t)

LEMMA Kept ==
    ASSUME NEW t, NEW u, Counted(t), KeepsActs(t, u)
    PROVE  Evolves(t, u) /\ KeepsParents(t, u)
BY DEF Counted, KeepsActs, Evolves, KeepsParents, Stays, Came, AllActs, Acts, Remains

LEMMA StillCounted ==
    ASSUME NEW t, NEW u, Counted(t), Tabled(u), Evolves(t, u) PROVE Counted(u)
BY DEF Counted, Evolves, Came, Remains, AllActs, Acts

\* Activities are inserted, each with a parent that is there, or none.
LEMMA AddedActs ==
    ASSUME NEW t, Counted(t), NEW n \in Nat, NEW rows, DOMAIN rows = 1 .. n, NEW u,
           u = AddActs(t, rows),
           \A k \in 1 .. n : /\ DOMAIN rows[k] = DOMAIN NoAct
                             /\ rows[k].parent \in {0} \cup AllActs(t)
    PROVE  Evolves(t, u) /\ KeepsParents(t, u) /\ Tabled(u)
<1>1. Cardinality(DOMAIN rows) = n
  BY FS_Interval
<1>2. /\ u.made = [t.made EXCEPT !.act = @ + n]
      /\ u.act = [a \in Acts |-> IF a - t.made.act \in 1 .. n THEN rows[a - t.made.act] ELSE t.act[a]]
      /\ u.details = t.details /\ u.price = t.price
  BY <1>1 DEF AddActs, Counted, Tabled, Fields
<1>3. u.made.act = t.made.act + n BY <1>2 DEF Counted, Tabled, Counters
<1>4. Tabled(u) BY DEF AddActs, Counted, Tabled, Fields, Counters
<1>5. \A a \in Acts : /\ a - t.made.act \in 1 .. n <=> a > t.made.act /\ a <= t.made.act + n
                      /\ a - t.made.act \in 1 .. n => u.act[a] = rows[a - t.made.act]
                      /\ a - t.made.act \notin 1 .. n => u.act[a] = t.act[a]
  BY <1>2 DEF Counted, Acts
<1>6. Rowed(u) BY <1>2, <1>5 DEF Counted, Rowed
<1>7. ASSUME NEW a \in AllActs(u)
      PROVE  /\ Remains(t, u, a) \/ Came(t, u, a)
             /\ \/ ~Came(t, u, a) /\ u.act[a].parent = t.act[a].parent
                \/ Came(t, u, a) /\ u.act[a].parent \in {0} \cup AllActs(t)
  BY <1>3, <1>5, <1>2 DEF AllActs, Came, Remains
<1>8. ASSUME NEW a \in Acts PROVE u.act[a].parent \in 0 .. u.made.act
  <2>1. \A b \in AllActs(t) : b \in 0 .. t.made.act BY DEF Counted, AllActs, Acts
  <2>2. \A x \in 0 .. t.made.act : x \in 0 .. u.made.act BY <1>3 DEF Counted
  <2>3. CASE a - t.made.act \in 1 .. n BY <1>5, <2>1, <2>2, <2>3 DEF Counted
  <2>4. CASE a - t.made.act \notin 1 .. n BY <1>5, <2>2, <2>4 DEF Counted
  <2> QED BY <2>3, <2>4
<1> QED BY <1>3, <1>4, <1>6, <1>7, <1>8 DEF Evolves, KeepsParents, Counted

-----------------------------------------------------------------------------
(* What the requests know of the activities                                  *)

Creating == {"createActivity", "createComponent", "generateTour"}
SaveOps == {"createActivity", "createComponent", "updateActivity", "updateComponent",
            "generatePorts", "ok", "failed", "idle"}
Sound(q) ==
    /\ q.op \in Creating => q.s \in 0 .. MaxActs
    /\ q.op = "generatePorts" => IsFiniteSet(q.seen) /\ q.a \in 0 .. MaxActs
    /\ q.op = "updateComponent" => q.a \in Acts
    /\ q.by # "none" => q.op \in SaveOps /\ q.a \in 0 .. MaxActs
    /\ q.op \in {"ok", "failed"} => q.by # "none"
SoundForm == DOMAIN form = DOMAIN NoForm /\ form.id \in 0 .. MaxActs
Sounds == SoundForm /\ \A r \in Requests : Sound(req[r])

LEMMA SoundIdle == Sound(Idle) /\ Idle.a = 0 /\ Idle.s = 0 /\ 0 \in 0 .. MaxActs
BY TripTreeAssumption DEF Sound, Idle, Creating

\* The request goes on with what it knows, or ends.
Passes(r) ==
    \/ req'[r] = Idle
    \/ /\ req'[r].op \in {"ok", "failed"} /\ req'[r].by # "none"
       /\ req'[r].a = req[r].a /\ req'[r].by = req[r].by
    \/ /\ req'[r].op = req[r].op /\ req'[r].a = req[r].a /\ req'[r].by = req[r].by
       /\ req'[r].s = req[r].s /\ req'[r].seen = req[r].seen

LEMMA PassesOn ==
    ASSUME Framed, NEW r \in Requests
    PROVE  /\ Go(r, Next1(r)) => Passes(r)
           /\ \A answer \in {"ok", "failed"} : Reply(r, answer) => Passes(r)
           /\ Finish(r) \/ Refuse(r) => Passes(r)
           /\ \A x : Go(r, [Next1(r) EXCEPT !.n = x]) => Passes(r)
           /\ \A x : Go(r, [Next1(r) EXCEPT !.v = x]) => Passes(r)
           /\ \A x : Go(r, [Next1(r) EXCEPT !.i = x]) => Passes(r)
           /\ \A x : Go(r, [Next1(r) EXCEPT !.flag = x]) => Passes(r)
           /\ \A x : Go(r, [req[r] EXCEPT !.pc = x]) => Passes(r)
           /\ \A x, y : Go(r, [Next1(r) EXCEPT !.n = x, !.d = y]) => Passes(r)
<1>0. DOMAIN req = Requests BY DEF Framed, Slotted
<1>1. ASSUME NEW answer \in {"ok", "failed"}, Reply(r, answer) PROVE Passes(r)
  <2> DEFINE row == [Idle EXCEPT !.op = answer, !.by = req[r].by, !.a = req[r].a]
  <2>1. row.op = answer /\ row.a = req[r].a /\ row.by = req[r].by BY IdleFacts
  <2>2. req'[r] = Idle \/ (req'[r] = row /\ req[r].by # "none") BY <1>0, <1>1 DEF Reply, Go
  <2> HIDE DEF row
  <2> QED BY <2>1, <2>2 DEF Passes
<1>2. Go(r, Next1(r)) => Passes(r) BY <1>0, NextSlot DEF Go, Passes
<1>3. ASSUME NEW q, DOMAIN q = DOMAIN Idle, q.op = req[r].op, q.by = req[r].by, q.a = req[r].a,
             q.s = req[r].s, q.seen = req[r].seen
      PROVE  /\ \A x : Go(r, [q EXCEPT !.n = x]) => Passes(r)
             /\ \A x : Go(r, [q EXCEPT !.v = x]) => Passes(r)
             /\ \A x : Go(r, [q EXCEPT !.i = x]) => Passes(r)
             /\ \A x : Go(r, [q EXCEPT !.flag = x]) => Passes(r)
             /\ \A x : Go(r, [q EXCEPT !.pc = x]) => Passes(r)
             /\ \A x, y : Go(r, [q EXCEPT !.n = x, !.d = y]) => Passes(r)
  <2>1. ASSUME NEW row, row.op = q.op, row.by = q.by, row.a = q.a, row.s = q.s,
               row.seen = q.seen, Go(r, row)
        PROVE  Passes(r)
    BY <1>0, <1>3, <2>1 DEF Go, Passes
  <2> QED BY <1>3, <2>1, IdleFacts
<1>4. Finish(r) \/ Refuse(r) => Passes(r) BY <1>1, <1>2 DEF Finish, Refuse
<1> QED BY <1>1, <1>2, <1>3, <1>4, NextSlot, Zenon

LEMMA PassesSound ==
    ASSUME NEW r \in Requests, Sound(req[r]), Passes(r) PROVE Sound(req'[r])
BY SoundIdle DEF Passes, Sound, Creating, SaveOps

\* Services of other operations.
LEMMA ServesSound ==
    ASSUME NEW r \in Requests, NEW ops, Sound(req[r]), Serves(r, ops),
           \A x \in SaveOps \cup Creating : x \notin ops
    PROVE  Sound(req'[r])
<1>0. \A x \in ops : x \notin SaveOps \cup Creating BY Zenon
<1>1. CASE Comes(r, ops) BY <1>0, <1>1 DEF Comes, Sound, Creating, SaveOps
<1>2. CASE Works(r) /\ req[r].op \in ops
  BY <1>0, <1>2, SoundIdle DEF Sound, Works, SaveOps, Creating
<1> QED BY <1>1, <1>2 DEF Serves

LEMMA ActivitySound ==
    ASSUME Framed, InBounds', Counted(db), NEW r \in Requests, Sound(req[r]), ActivityStep(r)
    PROVE  Sound(req'[r])
<1>0. DOMAIN req = Requests BY DEF Framed, Slotted
<1>1. ASSUME NEW row, Arrive(r, row), row.by = "none",
             row.op \notin {"updateComponent", "generatePorts", "ok", "failed"},
             row.op \in Creating => row.s \in 0 .. MaxActs
      PROVE  Sound(req'[r])
  BY <1>0, <1>1 DEF Arrive, Sound
<1>2. CASE CreateActivity(r)
  <2>1. PICK kind \in {"tour", "package"}, d \in {0} \cup Days, parent \in {0} \cup AllActs(db),
             given \in BOOLEAN :
            Arrive(r, [Idle EXCEPT !.op = "createActivity", !.v = kind, !.d = d, !.s = parent,
                       !.flag = given,
                       !.pc = (IF d = 0 THEN <<>> ELSE <<"day", "maxSeq">>) \o <<"insert", "price">>
                              \o (IF kind = "package" THEN <<"package", "plan">> ELSE <<>>)])
    BY <1>2, Zenon DEF CreateActivity
  <2> DEFINE pc == (IF d = 0 THEN <<>> ELSE <<"day", "maxSeq">>) \o <<"insert", "price">>
                   \o (IF kind = "package" THEN <<"package", "plan">> ELSE <<>>)
  <2> HIDE DEF pc
  <2> DEFINE row == [Idle EXCEPT !.op = "createActivity", !.v = kind, !.d = d, !.s = parent,
                                 !.flag = given, !.pc = pc]
  <2>2. row.by = "none" /\ row.op = "createActivity" /\ row.s = parent BY IdleFacts
  <2>3. parent \in 0 .. MaxActs BY TripTreeAssumption DEF AllActs, Acts
  <2>4. Arrive(r, row) BY <2>1 DEF pc
  <2> HIDE DEF row
  <2> QED BY <1>1, <2>2, <2>3, <2>4
<1>3. CASE \/ UpdateActivity(r) \/ BookActivity(r) \/ RemoveActivity(r) \/ ReorderActivities(r)
           \/ MoveActivity(r) \/ DuplicateActivity(r) \/ LinkChildren(r) \/ UnlinkChildren(r)
  <2>1. Comes(r, ActivityOps \ {"createActivity"})
    BY <1>3, ComesAs, IdleFacts
       DEF UpdateActivity, BookActivity, RemoveActivity, ReorderActivities, MoveActivity,
           DuplicateActivity, LinkChildren, UnlinkChildren, ActivityOps
  <2> QED BY <2>1 DEF Comes, ActivityOps, Sound, Creating
<1>4. CASE CreateInsert(r) /\ ~Refuse(r)
  <2> DEFINE row == [Next1(r) EXCEPT !.a = db.made.act + 1]
             new == ActRow(req[r].v, req[r].d, req[r].s, req[r].n)
  <2>1. Go(r, row) /\ req[r].op \in Creating /\ db' = AddActs(db, <<new>>)
    BY <1>4, Zenon DEF CreateInsert, Creating
  <2>2. /\ row.op = req[r].op /\ row.by = req[r].by /\ row.s = req[r].s
        /\ row.a = db.made.act + 1
    BY NextSlot, IdleFacts
  <2> HIDE DEF row, new
  <2>3. db'.made.act = db.made.act + 1 BY <2>1, AddedAct DEF Counted
  <2>4. row.a \in 0 .. MaxActs BY <2>2, <2>3, TripTreeAssumption DEF InBounds, Counted
  <2>5. req'[r] = row BY <1>0, <2>1 DEF Go
  <2> QED BY <2>1, <2>2, <2>4, <2>5 DEF Sound, Creating, SaveOps
<1>5. CASE /\ \/ UpdateActivityFind(r) \/ ReorderActivitiesRow(r) \/ ValidateNoParentCycle(r)
           /\ ~Passes(r)
  <2>1. /\ req[r].op \in {"updateActivity", "book", "reorderActivities", "link"}
        /\ \/ \E x : Go(r, [Next1(r) EXCEPT !.s = x])
           \/ \E x : Go(r, [req[r] EXCEPT !.seen = x])
           \/ \E x, y : Go(r, [req[r] EXCEPT !.s = x, !.n = y])
    BY <1>5, PassesOn, Zenon
       DEF UpdateActivityFind, ReorderActivitiesRow, ValidateNoParentCycle, Due
  <2>2. req'[r].op = req[r].op /\ req'[r].by = req[r].by /\ req'[r].a = req[r].a
    <3>1. ASSUME NEW q, DOMAIN q = DOMAIN Idle, q.op = req[r].op, q.by = req[r].by,
                 q.a = req[r].a, NEW x, NEW y,
                 Go(r, [q EXCEPT !.s = x]) \/ Go(r, [q EXCEPT !.seen = x])
                    \/ Go(r, [q EXCEPT !.s = x, !.n = y])
          PROVE  req'[r].op = req[r].op /\ req'[r].by = req[r].by /\ req'[r].a = req[r].a
      BY <1>0, <3>1, IdleFacts DEF Go
    <3> QED BY <2>1, <3>1, NextSlot, Zenon
  <2> QED BY <2>1, <2>2 DEF Sound, Creating, SaveOps
<1>6. \/ CreateActivity(r) \/ UpdateActivity(r) \/ BookActivity(r) \/ RemoveActivity(r)
      \/ ReorderActivities(r) \/ MoveActivity(r) \/ DuplicateActivity(r) \/ LinkChildren(r)
      \/ UnlinkChildren(r)
      \/ CreateInsert(r) \/ UpdateActivityFind(r) \/ ReorderActivitiesRow(r)
      \/ ValidateNoParentCycle(r) \/ Passes(r)
  BY PassesOn, Zenon
     DEF ActivityStep, VerifyDayExists, CreateMaxSeq, CreatePrice, CreatePackageDetails,
         CreateScheduleConfig, PackageGuard, UpdateActivityWrite, UpdateActivityPrice, ActivityFind,
         RemoveActivityDelete, ReorderActivitiesVerify, MoveActivityFind, MoveActivityWrite,
         DuplicateFind, DuplicateLock, DuplicateCopy, LinkChildrenPackage, LinkChildrenRead,
         LinkChildrenWrite, UnlinkChildrenWrite
<1>7. Passes(r) \/ Refuse(r) => Sound(req'[r]) BY PassesOn, PassesSound
<1> QED BY <1>2, <1>3, <1>4, <1>5, <1>6, <1>7

LEMMA ComponentRequestSound ==
    ASSUME Framed, NEW r \in Requests, ComponentRequest(r) PROVE Sound(req'[r])
<1>0. DOMAIN req = Requests BY DEF Framed, Slotted
<1>1. \A kind, steps : Create(r, kind, 0, steps) => Sound(req'[r])
  BY <1>0, IdleFacts, SoundIdle DEF Create, Arrive, Sound, Creating
<1>2. \A kind, steps : Update(r, kind, steps) => Sound(req'[r])
  BY <1>0, IdleFacts DEF Update, Arrive, Sound, Creating
<1>3. \A kind : Delete(r, kind) => Sound(req'[r])
  BY <1>0, IdleFacts DEF Delete, Arrive, Sound, Creating
<1>4. CreatePortEntriesFromCruise(r) => Sound(req'[r])
  BY <1>0, IdleFacts, SoundIdle DEF CreatePortEntriesFromCruise, Arrive, Sound, Creating
<1> QED
  BY <1>1, <1>2, <1>3, <1>4, Zenon
     DEF ComponentRequest, CreateFlight, UpdateFlight, DeleteFlight, CreateLodging, UpdateLodging,
       DeleteLodging, CreateTransportation, UpdateTransportation, DeleteTransportation,
       CreateDining, UpdateDining, DeleteDining, CreateOptions, UpdateOptions, DeleteOptions,
       CreateCustomCruise, UpdateCustomCruise, DeleteCustomCruise, CreateCustomTour,
       UpdateCustomTour, DeleteCustomTour, CreatePortInfo, UpdatePortInfo, DeletePortInfo,
       CreateTourDay, UpdateTourDay, DeleteTourDay

LEMMA ComponentSound ==
    ASSUME Framed, NEW r \in Requests, Sound(req[r]), ComponentStep(r) PROVE Sound(req'[r])
<1>1. Passes(r)
  BY PassesOn, Zenon
     DEF ComponentStep, WriteBase, InsertDetails, InsertBadDetails, FindDetailsRow, WriteDetails,
         UpsertDetails, ClearSegments, InsertSegments, SetPrice, FindPriceRow, WritePrice
<1> QED BY <1>1, PassesSound

LEMMA PairsFinite ==
    ASSUME NEW i, NEW found, found \subseteq Dates, NEW f \in DayOfDate(db, i, found)
    PROVE  IsFiniteSet({<<date, f[date]>> : date \in found})
<1> DEFINE seen == {<<date, f[date]>> : date \in found}
<1>1. seen \subseteq Dates \X Days BY DEF DayOfDate, DaysOf
<1>2. IsFiniteSet(Dates \X Days)
  <2>1. IsFiniteSet(Dates) /\ IsFiniteSet(Days)
    BY TripTreeAssumption, FS_Interval DEF Dates, Days
  <2> QED BY <2>1, FS_Product
<1> HIDE DEF seen
<1>3. IsFiniteSet(seen) BY <1>1, <1>2, FS_Subset
<1> QED BY <1>3 DEF seen

LEMMA DatesFinite == IsFiniteSet(Dates)
BY TripTreeAssumption, FS_Interval DEF Dates

LEMMA DaysInOrderIs ==
    ASSUME NEW pairs, Cardinality(pairs) \in Nat
    PROVE  /\ DOMAIN DaysInOrder(pairs) = 1 .. Cardinality(pairs)
           /\ Len(DaysInOrder(pairs)) = Cardinality(pairs)
<1> DEFINE s == DaysInOrder(pairs)
           n == Cardinality(pairs)
<1>1. s = [k \in 1 .. n |-> s[k]] BY DEF DaysInOrder
<1> HIDE DEF s, n
<1>2. s \in [1 .. n -> {s[k] : k \in 1 .. n}] BY <1>1
<1>3. s \in Seq({s[k] : k \in 1 .. n}) BY <1>2 DEF n
<1> QED BY <1>2, <1>3 DEF s, n

LEMMA ScheduleSound ==
    ASSUME Framed, Counted(db), NEW r \in Requests, Sound(req[r]), ScheduleStep(r)
    PROVE  Sound(req'[r])
<1>0. DOMAIN req = Requests BY DEF Framed, Slotted
<1>1. CASE GeneratePorts(r) \/ GenerateTour(r)
  <2>0. \A a \in Acts : a \in 0 .. MaxActs BY TripTreeAssumption DEF Acts
  <2>1. \/ \E a \in Acts : \E x, y, pc :
              Arrive(r, [Idle EXCEPT !.op = "generatePorts", !.a = a, !.flag = x, !.v = y, !.pc = pc])
        \/ \E a \in Acts : \E x, pc :
              Arrive(r, [Idle EXCEPT !.op = "generateTour", !.a = a, !.s = a,
                                     !.v = "tour_day", !.flag = x, !.pc = pc])
    BY <1>1, Zenon DEF GeneratePorts, GenerateTour
  <2>2. ASSUME NEW a \in Acts, NEW x, NEW y, NEW pc,
               Arrive(r, [Idle EXCEPT !.op = "generatePorts", !.a = a, !.flag = x, !.v = y,
                                      !.pc = pc])
        PROVE  Sound(req'[r])
    BY <1>0, <2>0, <2>2, IdleFacts, FS_EmptySet DEF Arrive, Sound, Creating
  <2>3. ASSUME NEW a \in Acts, NEW x, NEW pc,
               Arrive(r, [Idle EXCEPT !.op = "generateTour", !.a = a, !.s = a, !.v = "tour_day",
                                      !.flag = x, !.pc = pc])
        PROVE  Sound(req'[r])
    BY <1>0, <2>0, <2>3, IdleFacts DEF Arrive, Sound
  <2> QED BY <2>1, <2>2, <2>3
\* The forms of the other steps of a generator.
<1>2. ASSUME NEW q, DOMAIN q = DOMAIN Idle, q.op = req[r].op, q.by = req[r].by, q.a = req[r].a,
             q.s = req[r].s
      PROVE  /\ \A x : Go(r, [q EXCEPT !.seen = x]) /\ IsFiniteSet(x) => Sound(req'[r])
             /\ \A x : Go(r, [q EXCEPT !.seen = x]) /\ q.op = "generateTour" => Sound(req'[r])
             /\ \A x, y, z : Go(r, [q EXCEPT !.seen = x, !.d = y, !.pc = z])
                                /\ q.op = "generateTour" => Sound(req'[r])
  <2>1. ASSUME NEW row, row.op = q.op, row.by = q.by, row.a = q.a, row.s = q.s, Go(r, row),
               IsFiniteSet(row.seen) \/ q.op = "generateTour"
        PROVE  Sound(req'[r])
    BY <1>0, <2>1, <1>2 DEF Go, Sound, Creating
  <2> QED BY <1>2, <2>1, IdleFacts
<1>3. CASE InsertPorts(r) /\ ~Refuse(r)
  <2> DEFINE n == Len(DaysInOrder(req[r].seen))
             x == db.made.act + 1 .. db.made.act + n
  <2>1. Go(r, [Next1(r) EXCEPT !.seen = x]) /\ req[r].op = "generatePorts"
    BY <1>3, Zenon DEF InsertPorts, Due
  <2>2. Cardinality(req[r].seen) \in Nat BY <2>1, FS_CardinalityType DEF Sound
  <2>3. n \in Nat BY <2>2, DaysInOrderIs
  <2> HIDE DEF n
  <2>4. IsFiniteSet(x) BY <2>3, FS_Interval DEF Counted
  <2> HIDE DEF x
  <2> QED BY <2>1, <2>4, <1>2, NextSlot
<1>4. CASE ReadDateRange(r)
  <2> DEFINE found == {date \in Dates : \E d \in DaysOf(db, req[r].i) : db.day[d].date = date}
  <2>1. PICK f \in DayOfDate(db, req[r].i, found) :
            Go(r, [Next1(r) EXCEPT !.seen = {<<date, f[date]>> : date \in found}])
    BY <1>4 DEF ReadDateRange
  <2>2. found \subseteq Dates OBVIOUS
  <2> HIDE DEF found
  <2>3. IsFiniteSet({<<date, f[date]>> : date \in found}) BY <2>2, PairsFinite
  <2> QED BY <2>1, <2>3, <1>2, NextSlot, Zenon
<1>5. CASE ~(GeneratePorts(r) \/ GenerateTour(r) \/ (InsertPorts(r) /\ ~Refuse(r)) \/ ReadDateRange(r))
  <2>1. \/ Passes(r)
        \/ \E x : Go(r, [Next1(r) EXCEPT !.seen = x]) /\ IsFiniteSet(x)
        \/ \E x : Go(r, [Next1(r) EXCEPT !.seen = x]) /\ req[r].op = "generateTour"
        \/ \E x : Go(r, [req[r] EXCEPT !.seen = x]) /\ req[r].op = "generateTour"
        \/ \E x, y, z : Go(r, [req[r] EXCEPT !.seen = x, !.d = y, !.pc = z])
                            /\ req[r].op = "generateTour"
    BY <1>5, PassesOn, DatesFinite, Zenon
       DEF ScheduleStep, GenerateValidate, GenerateHasChildren, GenerateBounds, GenerateDelete,
           GenerateDates, MaxOfDays, InsertDateRange, InsertPorts, InsertPortDetails, TourChildren,
           TourDeleteEach, TourMissing, TourNext, Due
  <2> QED BY <2>1, <1>2, NextSlot, PassesSound, Zenon
<1> QED BY <1>1, <1>3, <1>4, <1>5

\* A form sends the id it knows.
LEMMA SentSound ==
    ASSUME Framed, SoundForm, NEW r \in Requests, NEW by, Send(r, by)
    PROVE  /\ Sound(req'[r]) /\ req'[r].op \in SaveOps /\ Others(r)
           /\ form'.id = form.id /\ DOMAIN form' = DOMAIN NoForm
<1>0. DOMAIN req = Requests /\ req'[r] = SaveRow(by) /\ Others(r)
  BY DEF Framed, Slotted, Send, Others
<1>1. form'.id = form.id /\ DOMAIN form' = DOMAIN NoForm BY DEF Send, SoundForm, NoForm
<1>2. CASE form.id = 0
  <2> DEFINE pc == BaseCreate \o Writes(form.kind)
             op == IF form.kind \in {"tour", "package"} THEN "createActivity" ELSE "createComponent"
             row == [Idle EXCEPT !.op = op, !.v = form.kind, !.d = 1, !.by = by, !.seen = {left},
                                 !.pc = pc]
  <2>1. SaveRow(by) = row BY <1>2 DEF SaveRow
  <2> HIDE DEF pc
  <2>2. row.op = op /\ row.s = 0 /\ row.a = 0 BY IdleFacts, SoundIdle
  <2> HIDE DEF row
  <2> QED BY <1>0, <1>1, <2>1, <2>2, SoundIdle DEF Sound, Creating, SaveOps
<1>3. CASE form.id # 0
  <2> DEFINE pc == <<"find">> \o Rewrites(form.kind)
             op == IF form.kind \in {"tour", "package"} THEN "updateActivity" ELSE "updateComponent"
             row == [Idle EXCEPT !.op = op, !.v = "name", !.a = form.id, !.by = by, !.seen = {left},
                                 !.pc = pc]
  <2>1. SaveRow(by) = row BY <1>3 DEF SaveRow
  <2> HIDE DEF pc
  <2>2. row.op = op /\ row.a = form.id BY IdleFacts
  <2> HIDE DEF row
  <2>3. form.id \in Acts BY <1>3 DEF SoundForm, Acts
  <2> QED BY <1>0, <1>1, <2>1, <2>2, <2>3 DEF Sound, SoundForm, Creating, SaveOps
<1> QED BY <1>2, <1>3

LEMMA FormSound ==
    ASSUME Framed, Sounds, NEW r \in Requests, FormStep(r)
    PROVE  Sound(req'[r]) /\ req'[r].op \in SaveOps /\ SoundForm' /\ Others(r)
<1>0. DOMAIN req = Requests /\ SoundForm /\ Sound(req[r]) BY DEF Framed, Slotted, Sounds
<1>1. \A by : Send(r, by) =>
          Sound(req'[r]) /\ req'[r].op \in SaveOps /\ SoundForm' /\ Others(r)
  BY <1>0, SentSound DEF SoundForm
<1>2. CASE SaveAnswered(r)
  <2>1. req' = [req EXCEPT ![r] = Idle] /\ req[r].op \in {"ok", "failed"}
    BY <1>2 DEF SaveAnswered
  <2> DEFINE x == IF \/ req[r].op = "failed" \/ req[r].by = "ports"
                     \/ req[r].by = "auto" /\ form.id # 0
                  THEN form.id ELSE req[r].a
  <2>2. form' = [form EXCEPT !.id = x] BY <1>2, Zenon DEF SaveAnswered
  <2>3. x \in 0 .. MaxActs BY <1>0, <2>1 DEF Sound, SoundForm
  <2> HIDE DEF x
  <2> QED BY <1>0, <2>1, <2>2, <2>3, SoundIdle, IdleFacts DEF SoundForm, Others, NoForm, SaveOps
<1>3. CASE PortsAfterSave(r)
  <2> DEFINE row == [Idle EXCEPT !.op = "generatePorts", !.a = req[r].a, !.v = "dates", !.by = "ports",
                         !.pc = <<"validate", "bounds", "delete", "dates", "maxDays",
                                  "insertDays", "readDays", "insertPorts", "portDetails">>]
  <2>1. req' = [req EXCEPT ![r] = row] /\ form' = [form EXCEPT !.id = req[r].a]
        /\ req[r].by = "generate"
    BY <1>3 DEF PortsAfterSave
  <2>2. row.op = "generatePorts" /\ row.a = req[r].a /\ row.seen = {} /\ row.by = "ports"
    BY IdleFacts
  <2> HIDE DEF row
  <2>3. req[r].a \in 0 .. MaxActs BY <1>0, <2>1 DEF Sound
  <2> QED
    BY <1>0, <2>1, <2>2, <2>3, FS_EmptySet DEF SoundForm, Others, NoForm, Sound, Creating, SaveOps
<1> QED
  BY <1>1, <1>2, <1>3, Zenon
     DEF FormStep, FlightAutosave, FlightSave, DiningAutosave, DiningSave, OptionsAutosave,
         OptionsSave, TourAutosave, TourSave, PortInfoAutosave, PortInfoSave, PackageAutosave,
         PackageSave, CustomCruiseAutosave, CustomCruiseSave, LodgingAutosave, LodgingSave,
         TransportationAutosave, TransportationSave, SaveAndGeneratePorts, Autosave, Save

\* A link has a package and another activity.
LinkArgs(q) == q.op = "link" => q.a \in Acts /\ q.d \in Acts /\ q.a # q.d

LEMMA LinkArgsKept ==
    ASSUME Framed, NEW r \in Requests, LinkArgs(req[r]), ActivityStep(r) PROVE LinkArgs(req'[r])
<1>0. DOMAIN req = Requests /\ DOMAIN req[r] = DOMAIN Idle BY DEF Framed, Slotted
<1>1. CASE LinkChildren(r)
  <2>1. PICK p \in Acts, a \in Acts :
            /\ a # p
            /\ Arrive(r, [Idle EXCEPT !.op = "link", !.d = p, !.a = a, !.s = p,
                                      !.pc = <<"package", "children", "walk", "write">>])
    BY <1>1, Zenon DEF LinkChildren
  <2> DEFINE row == [Idle EXCEPT !.op = "link", !.d = p, !.a = a, !.s = p,
                                 !.pc = <<"package", "children", "walk", "write">>]
  <2>2. row.a = a /\ row.d = p BY IdleFacts
  <2>3. req'[r] = row BY <1>0, <2>1 DEF Arrive
  <2> HIDE DEF row
  <2> QED BY <2>1, <2>2, <2>3 DEF LinkArgs
<1>2. CASE CreateActivity(r)
  <2>1. \E kind, d, parent, given, pc :
            Arrive(r, [Idle EXCEPT !.op = "createActivity", !.v = kind, !.d = d, !.s = parent,
                                   !.flag = given, !.pc = pc])
    BY <1>2, Zenon DEF CreateActivity
  <2> QED BY <1>0, <2>1, IdleFacts DEF Arrive, LinkArgs
<1>3. CASE \/ UpdateActivity(r) \/ BookActivity(r) \/ RemoveActivity(r) \/ ReorderActivities(r)
           \/ MoveActivity(r) \/ DuplicateActivity(r) \/ UnlinkChildren(r)
  <2>1. Comes(r, ActivityOps \ {"link"})
    BY <1>3, ComesAs, IdleFacts
       DEF UpdateActivity, BookActivity, RemoveActivity, ReorderActivities, MoveActivity,
           DuplicateActivity, UnlinkChildren, ActivityOps
  <2> QED BY <2>1 DEF Comes, LinkArgs
<1>4. CASE Works(r) /\ req[r].op # "link" BY <1>4, IdleFacts DEF Works, LinkArgs
<1>5. CASE req[r].op = "link"
  <2>0. \A row : ~Arrive(r, row) BY <1>5, IdleFacts DEF Arrive
  <2>1. \/ Go(r, Next1(r)) \/ (\E x : Go(r, [Next1(r) EXCEPT !.n = x]))
        \/ (\E x, y : Go(r, [req[r] EXCEPT !.s = x, !.n = y]))
        \/ Reply(r, "failed") \/ Finish(r) \/ Refuse(r)
    BY <1>5, <2>0, Zenon
       DEF ActivityStep, CreateActivity, UpdateActivity, BookActivity, RemoveActivity,
           ReorderActivities, MoveActivity, LinkChildren, UnlinkChildren, DuplicateActivity,
           VerifyDayExists, CreateMaxSeq, CreateInsert, CreatePrice, CreatePackageDetails,
           CreateScheduleConfig, UpdateActivityFind, PackageGuard, UpdateActivityWrite,
           UpdateActivityPrice, ActivityFind, RemoveActivityDelete, ReorderActivitiesVerify,
           ReorderActivitiesRow, MoveActivityFind, MoveActivityWrite, DuplicateFind, DuplicateLock,
           DuplicateCopy, LinkChildrenPackage, LinkChildrenRead, ValidateNoParentCycle,
           LinkChildrenWrite, UnlinkChildrenWrite, Due
  <2>2. ASSUME NEW row, Go(r, row), row.a = req[r].a, row.d = req[r].d PROVE LinkArgs(req'[r])
    BY <1>0, <1>5, <2>2 DEF Go, LinkArgs
  <2>3. \A answer \in {"ok", "failed"} : Reply(r, answer) => LinkArgs(req'[r])
    BY <1>0, IdleFacts DEF Reply, Go, LinkArgs
  <2>4. Finish(r) \/ Refuse(r) => Reply(r, "ok") \/ Reply(r, "failed") \/ Go(r, Next1(r))
    BY DEF Finish, Refuse
  <2>5. /\ Go(r, Next1(r)) => LinkArgs(req'[r])
        /\ \A x : Go(r, [Next1(r) EXCEPT !.n = x]) => LinkArgs(req'[r])
        /\ \A x, y : Go(r, [req[r] EXCEPT !.s = x, !.n = y]) => LinkArgs(req'[r])
    BY <1>0, <2>2, NextSlot, IdleFacts
  <2> QED BY <2>1, <2>3, <2>4, <2>5
<1>6. CASE req[r].op # "link" /\ ~Works(r)
  <2>1. Comes(r, ActivityOps) BY <1>6, ActivityServes
  <2>2. \/ CreateActivity(r) \/ UpdateActivity(r) \/ BookActivity(r) \/ RemoveActivity(r)
        \/ ReorderActivities(r) \/ MoveActivity(r) \/ DuplicateActivity(r) \/ LinkChildren(r)
        \/ UnlinkChildren(r)
    BY <1>6, WorksOn, Zenon
       DEF ActivityStep, VerifyDayExists, CreateMaxSeq, CreateInsert, CreatePrice,
           CreatePackageDetails, CreateScheduleConfig,
           UpdateActivityFind, PackageGuard, UpdateActivityWrite, UpdateActivityPrice, ActivityFind,
           RemoveActivityDelete, ReorderActivitiesVerify, ReorderActivitiesRow, MoveActivityFind,
           MoveActivityWrite, DuplicateFind, DuplicateLock, DuplicateCopy, LinkChildrenPackage,
           LinkChildrenRead, ValidateNoParentCycle, LinkChildrenWrite, UnlinkChildrenWrite
  <2> QED BY <1>1, <1>2, <1>3, <2>2
<1> QED BY <1>4, <1>5, <1>6

LEMMA PositionEvolves ==
    ASSUME Counted(db), NEW r \in Requests, Positions(r)
    PROVE  Evolves(db, db') /\ KeepsParents(db, db')
<1>1. PICK a : db' = [db EXCEPT !.act[a].seq = 0] BY DEF Positions
<1>2. /\ db'.act = [db.act EXCEPT ![a].seq = 0] /\ db'.details = db.details
      /\ db'.price = db.price /\ db'.made = db.made
  BY <1>1 DEF Counted, Tabled, Fields
<1> QED
  BY <1>2 DEF Counted, Rowed, NoAct, Evolves, KeepsParents, Remains, Came, AllActs, Acts

LEMMA NothingCame ==
    ASSUME Counted(db), db' = db PROVE Evolves(db, db') /\ KeepsParents(db, db')
BY Kept, SameActsKept DEF SameActs, Counted

LEMMA InsertEvolves ==
    ASSUME Counted(db), NEW r \in Requests, Sound(req[r]), CreateInsert(r)
    PROVE  Evolves(db, db') /\ KeepsParents(db, db')
<1>1. CASE Refuse(r) BY <1>1, Reads, NothingCame
<1>2. CASE ~Refuse(r)
  <2> DEFINE row == ActRow(req[r].v, req[r].d, req[r].s, req[r].n)
  <2>1. /\ MayInsert(req[r].d, req[r].s) /\ db' = AddActs(db, <<row>>)
        /\ req[r].op \in Creating
    BY <1>2, Zenon DEF CreateInsert, Creating
  <2>2. DOMAIN row = DOMAIN NoAct /\ row.parent = req[r].s BY DEF ActRow, NoAct
  <2>3. row.parent \in {0} \cup AllActs(db)
    BY <2>1, <2>2 DEF MayInsert, Exists, AllActs, Acts, Sound
  <2> HIDE DEF row
  <2>4. DOMAIN <<row>> = 1 .. 1 /\ <<row>>[1] = row /\ 1 \in Nat OBVIOUS
  <2>5. \A k \in 1 .. 1 : DOMAIN <<row>>[k] = DOMAIN NoAct /\ <<row>>[k].parent \in {0} \cup AllActs(db)
    BY <2>2, <2>3, <2>4
  <2> QED BY <2>1, <2>4, <2>5, AddedActs
<1> QED BY <1>1, <1>2

LEMMA PortsEvolve ==
    ASSUME Counted(db), NEW r \in Requests, Sound(req[r]), InsertPorts(r)
    PROVE  Evolves(db, db') /\ KeepsParents(db, db')
<1>1. CASE Refuse(r) BY <1>1, Reads, NothingCame
<1>2. CASE ~Refuse(r)
  <2> DEFINE a == req[r].a
             days == DaysInOrder(req[r].seen)
             rows == [k \in DOMAIN days |-> ActRow("port_info", days[k], a, k - 1)]
             n == Cardinality(req[r].seen)
  <2>1. /\ Exists(a) /\ db' = AddActs(db, rows) /\ req[r].op = "generatePorts"
        /\ \A w \in req[r].seen : MayInsert(w[2], a)
    BY <1>2, Zenon DEF InsertPorts, Due
  <2>2. n \in Nat BY <2>1, FS_CardinalityType DEF Sound
  <2>3. DOMAIN days = 1 .. n BY <2>2, DaysInOrderIs
  <2>4. a \in {0} \cup AllActs(db) BY <2>1 DEF Exists, AllActs, Acts, Sound
  <2> HIDE DEF days, n
  <2>5. DOMAIN rows = 1 .. n BY <2>3
  <2>6. \A k \in 1 .. n : DOMAIN rows[k] = DOMAIN NoAct /\ rows[k].parent = a
    BY <2>3 DEF ActRow, NoAct
  <2> HIDE DEF rows, a
  <2> QED BY <2>1, <2>2, <2>4, <2>5, <2>6, AddedActs
<1> QED BY <1>1, <1>2

\* The same rows, with another place or parent, and more that hangs on the one that came.
LEMMA SameEvolve ==
    ASSUME Counted(db), Rowed(db'), db'.made.act = db.made.act, db'.details = db.details,
           db'.price = db.price,
           \A a \in Acts : /\ db'.act[a].kind = db.act[a].kind
                          /\ db'.act[a].parent \in 0 .. db.made.act
    PROVE  Evolves(db, db')
BY DEF Counted, Evolves, Remains, AllActs

LEMMA CopyEvolves ==
    ASSUME Counted(db), NEW r \in Requests, DuplicateCopy(r)
    PROVE  Evolves(db, db') /\ KeepsParents(db, db')
<1>1. CASE Refuse(r) BY <1>1, Reads, NothingCame
<1>2. CASE ~Refuse(r)
  <2> DEFINE row == ActRow(req[r].v, req[r].d, 0, req[r].n)
             new == db.made.act + 1
             u == AddActs(db, <<row>>)
  <2>1. db' = [u EXCEPT !.details = IF req[r].a \in @ /\ req[r].v \in CopiedKinds
                                    THEN @ \cup {new} ELSE @,
                        !.price[new] = db.price[req[r].a]]
    BY <1>2, Zenon DEF DuplicateCopy
  <2>2. DOMAIN row = DOMAIN NoAct /\ row.parent = 0 BY DEF ActRow, NoAct
  <2> HIDE DEF row
  <2>3. DOMAIN <<row>> = 1 .. 1 /\ 1 \in Nat
        /\ \A k \in 1 .. 1 : DOMAIN <<row>>[k] = DOMAIN NoAct /\ <<row>>[k].parent = 0
    BY <2>2
  <2>4. Evolves(db, u) /\ KeepsParents(db, u) /\ Tabled(u) BY <2>3, AddedActs
  <2>5. u.made.act = new /\ new \notin AllActs(db)
    BY AddedAct DEF Counted
  <2> HIDE DEF u
  <2>6. /\ db'.act = u.act /\ db'.made = u.made /\ \A a \in u.details : a \in db'.details
        /\ DOMAIN db'.price = Acts /\ \A a \in Acts : a # new => db'.price[a] = u.price[a]
    BY <2>1, <2>4 DEF Tabled, Fields, Evolves, Rowed
  <2>7. Rowed(db') BY <2>4, <2>6 DEF Evolves, Rowed
  <2>8. ASSUME NEW a \in AllActs(db') PROVE Remains(db, db', a) \/ Came(db, db', a)
    <3>1. a \in AllActs(u) /\ (Remains(db, u, a) \/ Came(db, u, a))
      BY <2>4, <2>6 DEF AllActs, Evolves
    <3>2. CASE Remains(db, u, a)
      BY <2>5, <3>1, <3>2, <2>6 DEF Remains, AllActs
    <3> QED BY <2>6, <3>1, <3>2 DEF Came
  <2> QED BY <2>4, <2>6, <2>7, <2>8 DEF Evolves, KeepsParents, Came, AllActs
<1> QED BY <1>1, <1>2

LEMMA MoveEvolves ==
    ASSUME Counted(db), NEW r \in Requests, MoveActivityWrite(r) \/ ReorderActivitiesRow(r)
    PROVE  Evolves(db, db') /\ KeepsParents(db, db')
<1>1. \/ db' = db
      \/ \E a, x, y : db' = [db EXCEPT !.act[a].day = x, !.act[a].seq = y]
      \/ \E a, y : db' = [db EXCEPT !.act[a].seq = y]
  BY Reads, Zenon DEF MoveActivityWrite, ReorderActivitiesRow
<1>2. ASSUME NEW a, NEW row, db'.act = [b \in Acts |-> IF b = a THEN row ELSE db.act[b]],
             a \in Acts => /\ DOMAIN row = DOMAIN NoAct /\ row.kind = db.act[a].kind
                           /\ row.parent = db.act[a].parent,
             db'.details = db.details, db'.price = db.price, db'.made = db.made
      PROVE  Evolves(db, db') /\ KeepsParents(db, db')
  BY <1>2, SameEvolve DEF Counted, Rowed, KeepsParents, AllActs, Acts, Came
<1>3. ASSUME NEW a, NEW x, NEW y,
             \/ db' = [db EXCEPT !.act[a].day = x, !.act[a].seq = y]
             \/ db' = [db EXCEPT !.act[a].seq = y]
      PROVE  Evolves(db, db') /\ KeepsParents(db, db')
  <2>1. /\ db'.details = db.details /\ db'.price = db.price /\ db'.made = db.made
        /\ \/ db'.act = [db.act EXCEPT ![a].day = x, ![a].seq = y]
           \/ db'.act = [db.act EXCEPT ![a].seq = y]
    BY <1>3 DEF Counted, Tabled, Fields
  <2> DEFINE both == [db.act[a] EXCEPT !.day = x, !.seq = y]
             one == [db.act[a] EXCEPT !.seq = y]
  <2>2. \/ db'.act = [b \in Acts |-> IF b = a THEN both ELSE db.act[b]]
        \/ db'.act = [b \in Acts |-> IF b = a THEN one ELSE db.act[b]]
    BY <2>1 DEF Counted, Rowed
  <2>3. a \in Acts => \A row \in {both, one} :
           /\ DOMAIN row = DOMAIN NoAct /\ row.kind = db.act[a].kind
           /\ row.parent = db.act[a].parent
    BY DEF Counted, Rowed, NoAct
  <2> HIDE DEF both, one
  <2> QED BY <1>2, <2>1, <2>2, <2>3
<1> QED BY <1>1, <1>3, NothingCame

LEMMA LinkEvolves ==
    ASSUME Counted(db), NEW r \in Requests, LinkChildrenWrite(r) \/ UnlinkChildrenWrite(r),
           LinkArgs(req[r])
    PROVE  Evolves(db, db') /\ (UnlinkChildrenWrite(r) => KeepsParents(db, db'))
<1>1. \/ db' = db
      \/ \E a : db' = [db EXCEPT !.act[a].parent = 0]
      \/ /\ LinkChildrenWrite(r) /\ ~UnlinkChildrenWrite(r)
         /\ \E a, p : /\ p \in Acts /\ Exists(p)
                       /\ db' = [db EXCEPT !.act[a].parent = p]
  BY Reads, Zenon DEF LinkChildrenWrite, UnlinkChildrenWrite, LinkArgs, Due
<1>2. ASSUME NEW a, NEW p, p = 0 \/ (p \in Acts /\ Exists(p)), db' = [db EXCEPT !.act[a].parent = p]
      PROVE  Evolves(db, db') /\ (p = 0 => KeepsParents(db, db'))
  <2>1. /\ db'.details = db.details /\ db'.price = db.price /\ db'.made = db.made
        /\ Rowed(db')
        /\ \A b \in Acts : /\ db'.act[b].kind = db.act[b].kind
                           /\ db'.act[b].parent \in {p, db.act[b].parent}
    BY <1>2 DEF Counted, Tabled, Fields, Rowed, NoAct
  <2>2. p \in 0 .. db.made.act BY <1>2 DEF Counted, Exists, AllActs, Acts
  <2> QED BY <2>1, <2>2, SameEvolve DEF KeepsParents, AllActs, Acts, Came, Counted
<1> QED BY <1>1, <1>2, NothingCame

\* What the requests and the form know, and how the activities go on, with every step.
Growing ==
    Framed /\ Sounds /\ Counted(db) /\ InBounds /\ \A r \in Requests : LinkArgs(req[r])
GrowsBy(r) ==
    /\ Sound(req'[r]) /\ LinkArgs(req'[r]) /\ Others(r) /\ Evolves(db, db')
    /\ KeepsParents(db, db') \/ LinkChildrenWrite(r)

LEMMA DieSound ==
    ASSUME Framed, NEW r \in Requests, Sound(req[r]), Die(r) PROVE Sound(req'[r])
<1>1. \/ req'[r] = Idle
      \/ req'[r] = [Idle EXCEPT !.op = "failed", !.by = req[r].by] /\ req[r].by # "none"
  BY DEF Die, Framed, Slotted
<1> QED BY <1>1, IdleFacts, SoundIdle DEF Sound, Creating, SaveOps

LEMMA OthersGrow ==
    ASSUME Growing, NEW r \in Requests,
           ItineraryStep(r) \/ DayStep(r) \/ TripStep(r) \/ OrderStep(r)
    PROVE  GrowsBy(r) /\ KeepsParents(db, db') /\ req'[r].op # "link"
<1>0. Framed /\ Sound(req[r]) /\ LinkArgs(req[r]) /\ Counted(db) /\ Tabled(db) /\ Rowed(db)
  BY DEF Growing, Sounds, Counted
<1>1. KeepsActs(db, db') BY <1>0, ItineraryKept, DayKept, TripKept, OrderKept, SameActsKept
<1>2. \/ Serves(r, ItineraryOps) \/ Serves(r, DayOps \cup {"createItinerary"})
      \/ Serves(r, TripOps) \/ Serves(r, OrderOps)
  BY <1>0, ItineraryServes, DayServes, TripServes, OrderServes
<1>3. \A x \in SaveOps \cup Creating :
          x \notin ItineraryOps \cup DayOps \cup {"createItinerary"} \cup TripOps \cup OrderOps
  BY DEF SaveOps, Creating, ItineraryOps, DayOps, TripOps, OrderOps
<1>4. Sound(req'[r]) BY <1>0, <1>2, <1>3, ServesSound
<1>5. Others(r) BY <1>2 DEF Serves, Comes, Works
<1>6. req'[r].op # "link"
  BY <1>2, IdleFacts DEF Serves, Comes, Works, ItineraryOps, DayOps, TripOps, OrderOps
<1> QED BY <1>0, <1>1, <1>4, <1>5, <1>6, Kept DEF GrowsBy, LinkArgs

LEMMA ActivityGrows ==
    ASSUME Growing, InBounds', NEW r \in Requests, ActivityStep(r) PROVE GrowsBy(r)
<1>0. Framed /\ Sound(req[r]) /\ LinkArgs(req[r]) /\ Counted(db) /\ Tabled(db) /\ Rowed(db)
  BY DEF Growing, Sounds, Counted
<1>1. Sound(req'[r]) BY <1>0, ActivitySound
<1>2. Others(r) BY <1>0, ActivityServes DEF Comes, Works
<1>3. Evolves(db, db') /\ (KeepsParents(db, db') \/ LinkChildrenWrite(r))
  BY <1>0, ActivityKept, Kept, InsertEvolves, CopyEvolves, MoveEvolves, LinkEvolves,
     PositionEvolves
<1>4. LinkArgs(req'[r]) BY <1>0, LinkArgsKept
<1> QED BY <1>1, <1>2, <1>3, <1>4 DEF GrowsBy

LEMMA RestGrows ==
    ASSUME Growing, NEW r \in Requests,
           \/ ComponentRequest(r) \/ ComponentStep(r) \/ ScheduleStep(r) \/ FormStep(r) \/ Die(r)
    PROVE  GrowsBy(r) /\ KeepsParents(db, db') /\ req'[r].op # "link"
<1>0. Framed /\ Sound(req[r]) /\ LinkArgs(req[r]) /\ Counted(db) /\ Tabled(db) /\ Rowed(db)
  BY DEF Growing, Sounds, Counted
<1>1. Sound(req'[r]) /\ Others(r)
  BY <1>0, ComponentRequestSound, ComponentRequestServes, ComponentSound, ComponentServes,
     ScheduleSound, ScheduleServes, FormSound, DieSound, DiesSlot
     DEF Growing, Comes, Works, Serves
<1>2. Evolves(db, db') /\ KeepsParents(db, db')
  BY <1>0, ComponentRequestServes, ComponentKept, ScheduleKept, FormKeepsTables, DiesSlot, Kept,
     PortsEvolve, NothingCame, PositionEvolves DEF Comes
<1>3. req'[r].op # "link"
  <2>1. CASE Die(r) BY <1>0, <2>1, DiesSlot, IdleFacts DEF Die, Framed, Slotted
  <2>2. CASE FormStep(r) BY <2>2, FormSound DEF SaveOps, Growing
  <2>3. CASE ComponentRequest(r) \/ ComponentStep(r) \/ ScheduleStep(r)
    BY <1>0, <2>3, ComponentRequestServes, ComponentServes, ScheduleServes, IdleFacts
       DEF Serves, Comes, Works, ComponentOps, GenerateOps
  <2> QED BY <2>1, <2>2, <2>3
<1> QED BY <1>1, <1>2, <1>3 DEF GrowsBy, LinkArgs

LEMMA FormStaysSound ==
    ASSUME Growing, [Next]_vars PROVE SoundForm'
<1>0. SoundForm /\ Framed BY DEF Growing, Sounds
<1>1. CASE form' = form BY <1>0, <1>1 DEF SoundForm
<1>2. CASE FormEffect
  BY <1>2, <1>0 DEF FormEffect, SoundForm, NoForm
<1>3. ASSUME NEW r \in Requests, FormStep(r) PROVE SoundForm'
  BY <1>3, <1>0, FormSound DEF Growing
<1> QED BY <1>0, <1>1, <1>2, <1>3, FormTouched

LEMMA GrowingStep ==
    ASSUME Growing, [Next]_vars
    PROVE  /\ Growing' /\ Evolves(db, db')
           /\ KeepsParents(db, db') \/ \E r \in Requests : LinkChildrenWrite(r)
<1>0. /\ Framed /\ Counted(db) /\ Tabled(db) /\ Rowed(db)
      /\ \A r \in Requests : Sound(req[r]) /\ LinkArgs(req[r])
      /\ Framed' /\ SoundForm'
  BY FramedStep, FormStaysSound DEF Growing, Sounds, Counted
<1> DEFINE Grows ==
        /\ \A q \in Requests : Sound(req'[q]) /\ LinkArgs(req'[q])
        /\ Evolves(db, db')
        /\ KeepsParents(db, db') \/ \E r \in Requests : LinkChildrenWrite(r)
<1>1. ASSUME req' = req, SameActs(db, db') PROVE Grows BY <1>0, <1>1, SameActsKept, Kept
<1>2. ASSUME NEW r \in Requests, GrowsBy(r) PROVE Grows
  <2>1. ASSUME NEW q \in Requests PROVE Sound(req'[q]) /\ LinkArgs(req'[q])
    BY <1>0, <1>2, q = r \/ q \in Requests \ {r}, Zenon DEF GrowsBy, Others
  <2> QED BY <1>2, <2>1 DEF GrowsBy
<1>3. ASSUME vars' = vars PROVE Grows BY <1>1, <1>3 DEF SameActs, vars
<1>4. ASSUME HandlerStep PROVE Grows
  <2>1. req' = req
    BY <1>4, Zenon DEF HandlerStep, LogEvent, HandleTripBooked, SetFirstBookingDate, HandlerDies
  <2>2. SameActs(db, db') BY <1>0, <1>4, HandlerKept
  <2> QED BY <1>1, <2>1, <2>2
<1>5. ASSUME FormEffect PROVE Grows BY <1>1, <1>5 DEF FormEffect, SameActs
<1>6. ASSUME NEW r \in Requests, Next,
             \/ ItineraryStep(r) \/ DayStep(r) \/ TripStep(r) \/ OrderStep(r) \/ ActivityStep(r)
             \/ ComponentRequest(r) \/ ComponentStep(r) \/ ScheduleStep(r) \/ FormStep(r) \/ Die(r)
      PROVE  Grows
  BY <1>6, <1>2, OthersGrow, ActivityGrows, RestGrows DEF Next
<1> HIDE DEF Grows
<1>7. Grows BY <1>3, <1>4, <1>5, <1>6, Zenon DEF Next
<1>8. InBounds'
  BY DEF vars, InBounds, Growing, Next
<1>9. Counted(db') BY <1>0, <1>7, StillCounted DEF Grows, Framed
<1> QED BY <1>0, <1>7, <1>8, <1>9 DEF Grows, Growing, Sounds

LEMMA InitGrowing == ASSUME Init PROVE Growing
<1>0. PICK e \in Environments : StartsFrom(e) BY DEF Init
<1>1. /\ form = [NoForm EXCEPT !.kind = e.form]
      /\ req = [r \in Requests |-> Idle]
      /\ db.act = [a \in Acts |-> Row(e.acts, a, NoAct)] /\ db.made.act = Len(e.acts)
      /\ db.price = [a \in Acts |-> IF a \in 1 .. Len(e.acts) THEN 1 ELSE 0]
  BY <1>0 DEF StartsFrom
<1>2. SoundForm BY <1>1, TripTreeAssumption DEF SoundForm, NoForm
<1>3. /\ DOMAIN e.acts = 1 .. Len(e.acts) /\ Len(e.acts) \in Nat
      /\ \A a \in DOMAIN e.acts : /\ DOMAIN e.acts[a] = DOMAIN NoAct
                                  /\ e.acts[a].parent \in 0 .. Len(e.acts)
  <2> DEFINE rows == [kind : STRING \ {"none"}, day : 0 .. Len(e.days), parent : Nat,
                       seq : Int, booked : BOOLEAN]
  <2>1. e.acts \in Seq(rows) BY StartAssumption
  <2>2. \A row \in rows : DOMAIN row = DOMAIN NoAct /\ row.parent \in Nat BY DEF NoAct
  <2> HIDE DEF rows
  <2>3. /\ DOMAIN e.acts = 1 .. Len(e.acts) /\ Len(e.acts) \in Nat
        /\ \A a \in DOMAIN e.acts : e.acts[a] \in rows
    BY <2>1
  <2>4. \A a \in DOMAIN e.acts : e.acts[a].parent < a BY StartAssumption
  <2> QED BY <2>2, <2>3, <2>4
<1>4. Rowed(db) /\ \A a \in AllActs(db) : a \in DOMAIN e.acts
  BY <1>1, <1>3 DEF Rowed, Row, AllActs, NoAct
<1>5. Framed /\ Tabled(db) BY InitFramed DEF Framed
<1>6. \A a \in Acts : db.act[a].parent \in 0 .. db.made.act
  BY <1>1, <1>3, TripTreeAssumption DEF Row, NoAct, Acts
<1>7. Counted(db) BY <1>1, <1>3, <1>4, <1>5, <1>6 DEF Counted, Acts, AllActs
<1>8. InBounds
  BY StartAssumption, <1>0 DEF StartsFrom, InBounds
<1> QED BY <1>1, <1>2, <1>5, <1>7, <1>8, SoundIdle, IdleFacts DEF Growing, Sounds, LinkArgs

-----------------------------------------------------------------------------
(* No activity is among its own ancestors                                    *)

\* A set of activities with all their ancestors, up to those in rest.
Upward(t, U, rest) == \A x \in AllActs(t) : x \in U \ rest => t.act[x].parent \in U
Nested(t) ==
    \A a \in AllActs(t) : \E U \in SUBSET (0 .. t.made.act) :
        t.act[a].parent \in U /\ Upward(t, U, {}) /\ a \notin U

\* What a link has read: the ancestors of its package so far, and the activity is not among
\* them, but may be the next one.
LinkPcs == {<<"package", "children", "walk", "write">>, <<"children", "walk", "write">>,
            <<"walk", "write">>, <<"write">>}
LinkRow(t, q) ==
    /\ q.pc \in LinkPcs
    /\ Head(q.pc) \in {"package", "children"} => q.s = q.d
    /\ Head(q.pc) # "package" => q.d \in 0 .. t.made.act
    /\ Head(q.pc) = "walk" => \E U \in SUBSET (0 .. t.made.act) :
            q.d \in U /\ q.s \in U /\ Upward(t, U, {q.s}) /\ q.a \notin U \ {q.s}
    /\ Head(q.pc) = "write" => \E U \in SUBSET (0 .. t.made.act) :
            q.d \in U /\ Upward(t, U, {}) /\ q.a \notin U
Linking ==
    /\ Nested(db)
    /\ \A r \in Requests : req[r].op = "link" => LinkRow(db, req[r])
    /\ \A p, q \in Requests : req[p].op = "link" /\ req[q].op = "link" => p = q

LEMMA LinkPcFacts ==
    /\ \A pc \in LinkPcs : pc # <<>>
    /\ Head(<<"package", "children", "walk", "write">>) = "package"
    /\ Tail(<<"package", "children", "walk", "write">>) = <<"children", "walk", "write">>
    /\ Head(<<"children", "walk", "write">>) = "children"
    /\ Tail(<<"children", "walk", "write">>) = <<"walk", "write">>
    /\ Head(<<"walk", "write">>) = "walk" /\ Tail(<<"walk", "write">>) = <<"write">>
    /\ Head(<<"write">>) = "write" /\ Len(<<"write">>) = 1
BY DEF LinkPcs

LEMMA NestedHasNoCycle ==
    ASSUME NEW t, Nested(t), NEW a \in AllActs(t)
    PROVE  a \notin WithChildren(t, ChildrenOf(t, a))
<1>1. PICK U \in SUBSET (0 .. t.made.act) :
          t.act[a].parent \in U /\ Upward(t, U, {}) /\ a \notin U
  BY DEF Nested
<1> DEFINE S == {x \in AllActs(t) : x \notin U /\ t.act[x].parent \notin U}
<1>2. \A c \in ChildrenOf(t, a) \cup S : c \in AllActs(t) /\ c \notin U
  BY <1>1 DEF ChildrenOf, Upward
<1>3. \A c \in ChildrenOf(t, a) \cup S : ChildrenOf(t, c) \subseteq S
  BY <1>1, <1>2 DEF ChildrenOf, Upward
<1>4. S \in SUBSET AllActs(t) /\ a \notin S /\ a \notin ChildrenOf(t, a) BY <1>1 DEF ChildrenOf
<1> HIDE DEF S
<1> QED BY <1>3, <1>4 DEF WithChildren

\* Who comes is in none of these sets, and parents only go.
LEMMA UpwardKept ==
    ASSUME NEW t, NEW u, Counted(t), Evolves(t, u), KeepsParents(t, u),
           NEW U \in SUBSET (0 .. t.made.act), NEW rest, Upward(t, U, rest)
    PROVE  U \cup {0} \in SUBSET (0 .. u.made.act) /\ Upward(u, U \cup {0}, rest)
<1>1. U \cup {0} \in SUBSET (0 .. u.made.act) BY DEF Counted, Evolves
<1>2. ASSUME NEW x \in AllActs(u), x \in (U \cup {0}) \ rest
      PROVE  u.act[x].parent \in U \cup {0}
  BY <1>2 DEF AllActs, Acts, Came, Counted, Evolves, Remains, KeepsParents, Upward
<1> QED BY <1>1, <1>2 DEF Upward

LEMMA NestedKept ==
    ASSUME NEW t, NEW u, Counted(t), Evolves(t, u), KeepsParents(t, u), Nested(t)
    PROVE  Nested(u)
<1>1. ASSUME NEW a \in AllActs(u)
      PROVE  \E U \in SUBSET (0 .. u.made.act) :
                u.act[a].parent \in U /\ Upward(u, U, {}) /\ a \notin U
  <2>0. a \in Acts /\ a # 0 BY DEF AllActs, Acts
  <2>1. CASE ~Came(t, u, a)
    BY <2>1, UpwardKept, <2>0 DEF Evolves, Remains, AllActs, Nested, KeepsParents
  <2>2. CASE Came(t, u, a)
    <3> DEFINE U == 0 .. t.made.act
    <3>0. Upward(t, U, {}) /\ 0 \in U BY DEF Upward, Counted, AllActs
    <3>1. U \in SUBSET (0 .. t.made.act) OBVIOUS
    <3>2. a \notin U /\ u.act[a].parent \in U
      BY <2>2 DEF Came, KeepsParents, Counted, AllActs, Acts
    <3> HIDE DEF U
    <3>3. U \cup {0} \in SUBSET (0 .. u.made.act) /\ Upward(u, U \cup {0}, {})
      BY <3>0, <3>1, UpwardKept
    <3> QED BY <2>0, <3>2, <3>3
  <2> QED BY <2>1, <2>2
<1> QED BY <1>1 DEF Nested

LEMMA LinkRowKept ==
    ASSUME NEW t, NEW u, Counted(t), Evolves(t, u), KeepsParents(t, u), NEW q, q.a \in Acts,
           LinkRow(t, q)
    PROVE  LinkRow(u, q)
<1>0. q.a # 0 /\ \A x \in 0 .. t.made.act : x \in 0 .. u.made.act BY DEF Acts, Counted, Evolves
<1>1. ASSUME Head(q.pc) = "walk"
      PROVE  \E U \in SUBSET (0 .. u.made.act) :
                q.d \in U /\ q.s \in U /\ Upward(u, U, {q.s}) /\ q.a \notin U \ {q.s}
  <2>1. PICK U \in SUBSET (0 .. t.made.act) :
            q.d \in U /\ q.s \in U /\ Upward(t, U, {q.s}) /\ q.a \notin U \ {q.s}
    BY <1>1 DEF LinkRow
  <2>2. U \cup {0} \in SUBSET (0 .. u.made.act) /\ Upward(u, U \cup {0}, {q.s})
    BY <2>1, UpwardKept
  <2> QED BY <1>0, <2>1, <2>2
<1>2. ASSUME Head(q.pc) = "write"
      PROVE  \E U \in SUBSET (0 .. u.made.act) : q.d \in U /\ Upward(u, U, {}) /\ q.a \notin U
  BY <1>2, UpwardKept, <1>0 DEF LinkRow
<1> QED BY <1>0, <1>1, <1>2, Zenon DEF LinkRow

LEMMA LinkComes ==
    ASSUME Framed, NEW r \in Requests, ActivityStep(r), req[r].op # "link", req'[r].op = "link"
    PROVE  LinkChildren(r) /\ LinkRow(db, req'[r]) /\ db' = db
<1>0. DOMAIN req = Requests BY DEF Framed, Slotted
<1>1. ~Works(r) /\ Comes(r, ActivityOps) BY ActivityServes, IdleFacts DEF Works
<1>2. \/ CreateActivity(r) \/ UpdateActivity(r) \/ BookActivity(r) \/ RemoveActivity(r)
      \/ ReorderActivities(r) \/ MoveActivity(r) \/ DuplicateActivity(r) \/ LinkChildren(r)
      \/ UnlinkChildren(r)
  BY <1>1, WorksOn, Zenon
     DEF ActivityStep, VerifyDayExists, CreateMaxSeq, CreateInsert, CreatePrice,
         CreatePackageDetails, CreateScheduleConfig,
         UpdateActivityFind, PackageGuard, UpdateActivityWrite, UpdateActivityPrice, ActivityFind,
         RemoveActivityDelete, ReorderActivitiesVerify, ReorderActivitiesRow, MoveActivityFind,
         MoveActivityWrite, DuplicateFind, DuplicateLock, DuplicateCopy, LinkChildrenPackage,
         LinkChildrenRead, ValidateNoParentCycle, LinkChildrenWrite, UnlinkChildrenWrite
<1>3. ~CreateActivity(r)
  <2>1. CreateActivity(r) => \E kind, d, parent, given, pc :
            Arrive(r, [Idle EXCEPT !.op = "createActivity", !.v = kind, !.d = d, !.s = parent,
                                   !.flag = given, !.pc = pc])
    BY Zenon DEF CreateActivity
  <2> QED BY <1>0, <2>1, IdleFacts DEF Arrive
<1>4. \/ UpdateActivity(r) \/ BookActivity(r) \/ RemoveActivity(r) \/ ReorderActivities(r)
      \/ MoveActivity(r) \/ DuplicateActivity(r) \/ UnlinkChildren(r)
      => Comes(r, ActivityOps \ {"link"})
  BY ComesAs, IdleFacts
     DEF UpdateActivity, BookActivity, RemoveActivity, ReorderActivities, MoveActivity,
         DuplicateActivity, UnlinkChildren, ActivityOps
<1>5. LinkChildren(r) BY <1>2, <1>3, <1>4 DEF Comes
<1>6. PICK p \in Acts, a \in Acts :
          /\ a # p
          /\ Arrive(r, [Idle EXCEPT !.op = "link", !.d = p, !.a = a, !.s = p,
                                    !.pc = <<"package", "children", "walk", "write">>])
  BY <1>5, Zenon DEF LinkChildren
<1> DEFINE row == [Idle EXCEPT !.op = "link", !.d = p, !.a = a, !.s = p,
                               !.pc = <<"package", "children", "walk", "write">>]
<1>7. row.s = row.d /\ row.pc = <<"package", "children", "walk", "write">> BY IdleFacts
<1>8. req'[r] = row BY <1>0, <1>6 DEF Arrive
<1> HIDE DEF row
<1>9. LinkRow(db, req'[r]) BY <1>7, <1>8, LinkPcFacts, Zenon DEF LinkRow, LinkPcs
<1> QED BY <1>1, <1>5, <1>9 DEF Comes

LEMMA LinkWorks ==
    ASSUME Framed, NEW r \in Requests, ActivityStep(r), req[r].op = "link", LinkRow(db, req[r])
    PROVE  \/ LinkChildrenPackage(r) \/ LinkChildrenRead(r) \/ ValidateNoParentCycle(r)
           \/ LinkChildrenWrite(r)
<1>1. Head(req[r].pc) # "day" /\ Head(req[r].pc) # "maxSeq" BY LinkPcFacts DEF LinkRow, LinkPcs
<1>2. \A row : ~Arrive(r, row) BY IdleFacts DEF Arrive
<1> QED
  BY <1>1, <1>2, Zenon
     DEF ActivityStep, CreateActivity, UpdateActivity, BookActivity, RemoveActivity,
         ReorderActivities, MoveActivity, LinkChildren, UnlinkChildren, DuplicateActivity,
         VerifyDayExists, CreateMaxSeq, CreateInsert, CreatePrice, CreatePackageDetails,
         CreateScheduleConfig, UpdateActivityFind, PackageGuard, UpdateActivityWrite,
         UpdateActivityPrice, ActivityFind, RemoveActivityDelete, ReorderActivitiesVerify,
         ReorderActivitiesRow, MoveActivityFind, MoveActivityWrite, DuplicateFind, DuplicateLock,
         DuplicateCopy, UnlinkChildrenWrite, Due

\* The walk: each read adds the parent of the last one; a package that is there counts.
LEMMA LinkReads ==
    ASSUME Growing, NEW r \in Requests, req[r].op = "link", LinkRow(db, req[r]),
           LinkChildrenPackage(r) \/ LinkChildrenRead(r) \/ ValidateNoParentCycle(r)
    PROVE  db' = db /\ (req'[r].op = "link" => LinkRow(db, req'[r]))
<1> DEFINE q == req[r]
<1>0. /\ DOMAIN req = Requests /\ q.by = "none" /\ q.a \in Acts /\ q.d \in Acts /\ q.a # q.d
      /\ DOMAIN q = DOMAIN Idle /\ db.made.act \in Nat
      /\ \A a \in AllActs(db) : a \in 0 .. db.made.act
      /\ \A a \in Acts : db.act[a].parent \in 0 .. db.made.act
  BY DEF Growing, Sounds, Sound, SaveOps, LinkArgs, Framed, Slotted, Counted, AllActs, Acts
<1>f. Framed /\ db.made.act <= MaxActs BY DEF Growing, InBounds
<1>1. ASSUME Reply(r, "failed") PROVE req'[r].op # "link" BY <1>0, <1>1, IdleFacts DEF Reply, Go
<1>2. ASSUME Go(r, Next1(r))
      PROVE  /\ req'[r].pc = Tail(q.pc) /\ req'[r].a = q.a /\ req'[r].d = q.d
             /\ req'[r].s = q.s
  BY <1>0, <1>f, <1>2, NextSlot DEF Go
<1>3. CASE LinkChildrenPackage(r)
  <2>1. q.pc = <<"package", "children", "walk", "write">> /\ q.s = q.d
    BY <1>3, LinkPcFacts, Zenon DEF LinkChildrenPackage, Due, LinkRow, LinkPcs
  <2>2. \/ Refuse(r) /\ Reply(r, "failed") /\ db' = db
        \/ IsPackage(q.d) /\ Go(r, Next1(r)) /\ db' = db
    BY <1>3, Zenon DEF LinkChildrenPackage, Refuse
  <2>3. IsPackage(q.d) => q.d \in 0 .. db.made.act BY <1>0 DEF IsPackage, AllActs
  <2>4. ASSUME Go(r, Next1(r)), IsPackage(q.d) PROVE LinkRow(db, req'[r])
    BY <1>2, <2>1, <2>3, <2>4, LinkPcFacts, Zenon DEF LinkRow, LinkPcs
  <2> QED BY <1>1, <2>2, <2>4
<1>4. CASE LinkChildrenRead(r)
  <2>1. q.pc = <<"children", "walk", "write">> /\ q.s = q.d /\ q.d \in 0 .. db.made.act
    BY <1>4, LinkPcFacts, Zenon DEF LinkChildrenRead, Due, LinkRow, LinkPcs
  <2>2. (Reply(r, "failed") \/ Go(r, Next1(r))) /\ db' = db
    BY <1>4, Zenon DEF LinkChildrenRead, Refuse
  <2>3. ASSUME Go(r, Next1(r)) PROVE LinkRow(db, req'[r])
    BY <2>1, <1>2, <2>3, LinkPcFacts DEF Upward, LinkRow, LinkPcs
  <2> QED BY <1>1, <2>2, <2>3
<1>5. CASE ValidateNoParentCycle(r)
  <2>1. q.pc = <<"walk", "write">> /\ q.d \in 0 .. db.made.act
    BY <1>5, LinkPcFacts, Zenon DEF ValidateNoParentCycle, Due, LinkRow, LinkPcs
  <2>2. PICK U \in SUBSET (0 .. db.made.act) :
            q.d \in U /\ q.s \in U /\ Upward(db, U, {q.s}) /\ q.a \notin U \ {q.s}
    BY <2>1, LinkPcFacts, Zenon DEF LinkRow
  <2>0. q.s \in 0 .. db.made.act BY <2>2, Zenon
  <2>3. /\ db' = db
        /\ \/ q.s = 0 /\ Go(r, Next1(r))
           \/ Reply(r, "failed")
           \/ /\ q.s # 0 /\ q.s # q.a
              /\ Go(r, [q EXCEPT !.s = db.act[q.s].parent, !.n = q.n + 1])
    BY <1>5 DEF ValidateNoParentCycle
  <2>4. ASSUME q.s = 0, Go(r, Next1(r)) PROVE LinkRow(db, req'[r])
    BY <1>0, <2>2, <2>4, <1>2, <2>1, LinkPcFacts DEF Upward, AllActs, Acts, LinkRow, LinkPcs
  <2>5. ASSUME q.s # 0, q.s # q.a, Go(r, [q EXCEPT !.s = db.act[q.s].parent, !.n = q.n + 1])
        PROVE  LinkRow(db, req'[r])
    <3> DEFINE s == db.act[q.s].parent
               V == U \cup {s}
    <3>2. s \in 0 .. db.made.act BY <1>0, <1>f, <2>0, <2>5, TripTreeAssumption DEF Acts
    <3>3. /\ V \in SUBSET (0 .. db.made.act) /\ q.d \in V /\ s \in V /\ q.a \notin V \ {s}
          /\ Upward(db, V, {s})
      BY <2>2, <2>5, <3>2 DEF Upward
    <3>4. /\ req'[r].pc = <<"walk", "write">> /\ req'[r].a = q.a /\ req'[r].d = q.d
          /\ req'[r].s = s
      BY <1>0, <2>1, <2>5, IdleFacts DEF Go
    <3> HIDE DEF s, V
    <3> QED BY <2>1, <3>3, <3>4, LinkPcFacts, Zenon DEF LinkRow, LinkPcs
  <2> QED BY <1>1, <2>3, <2>4, <2>5
<1> QED BY <1>3, <1>4, <1>5

\* The write: whoever had the activity among its ancestors has those of the package as well.
LEMMA LinkWrites ==
    ASSUME Growing, NEW r \in Requests, LinkRow(db, req[r]), LinkChildrenWrite(r), Nested(db)
    PROVE  Nested(db') /\ req'[r] = Idle
<1> DEFINE q == req[r]
<1>0. /\ DOMAIN req = Requests /\ q.by = "none" /\ q.a \in Acts /\ q.op = "link"
      /\ Tabled(db) /\ Rowed(db) /\ db.made.act \in Nat
  <2>1. q.op = "link" BY DEF LinkChildrenWrite, Due
  <2> QED BY <2>1 DEF Growing, Sounds, Sound, SaveOps, LinkArgs, Framed, Slotted, Counted
<1>1. q.pc = <<"write">> BY LinkPcFacts, Zenon DEF LinkChildrenWrite, Due, LinkRow, LinkPcs
<1>2. req'[r] = Idle /\ (db' = db \/ db' = [db EXCEPT !.act[q.a].parent = q.d])
  BY <1>1, LinkPcFacts, <1>0 DEF LinkChildrenWrite, Refuse, Finish, Reply, Go
<1>3. PICK W \in SUBSET (0 .. db.made.act) : q.d \in W /\ Upward(db, W, {}) /\ q.a \notin W
  BY <1>1, LinkPcFacts, Zenon DEF LinkRow
<1>4. ASSUME db' = [db EXCEPT !.act[q.a].parent = q.d] PROVE Nested(db')
  <2>1. /\ AllActs(db') = AllActs(db) /\ db'.made.act = db.made.act
        /\ db'.act[q.a].parent = q.d
        /\ \A x \in Acts : x # q.a => db'.act[x].parent = db.act[x].parent
    BY <1>0, <1>4 DEF Tabled, Fields, Rowed, NoAct, AllActs
  <2>2. ASSUME NEW U, Upward(db, U, {}), q.a \notin U PROVE Upward(db', U, {})
    BY <2>1, <2>2 DEF Upward, AllActs
  <2>3. ASSUME NEW b \in AllActs(db)
        PROVE  \E U \in SUBSET (0 .. db.made.act) :
                    db'.act[b].parent \in U /\ Upward(db', U, {}) /\ b \notin U
    <3>1. PICK U \in SUBSET (0 .. db.made.act) :
              db.act[b].parent \in U /\ Upward(db, U, {}) /\ b \notin U
      BY DEF Nested
    <3>2. CASE b = q.a BY <1>3, <2>1, <2>2, <3>2
    <3>3. CASE b # q.a /\ q.a \notin U BY <2>1, <2>2, <3>1, <3>3 DEF AllActs
    <3>4. CASE b # q.a /\ b \in W
      <4>1. Upward(db, U \cap W, {}) /\ q.a \notin U \cap W BY <1>3, <3>1 DEF Upward
      <4>2. db.act[b].parent \in U \cap W BY <1>3, <3>1, <3>4 DEF Upward
      <4> QED BY <2>1, <2>2, <3>1, <3>4, <4>1, <4>2 DEF AllActs
    <3>5. CASE b # q.a /\ b \notin W
      <4>1. Upward(db', U \cup W, {}) BY <1>3, <2>1, <3>1 DEF Upward, AllActs
      <4> QED BY <2>1, <3>1, <3>5, <4>1 DEF AllActs
    <3> QED BY <3>2, <3>3, <3>4, <3>5
  <2> QED BY <2>1, <2>3 DEF Nested
<1> QED BY <1>2, <1>4

LEMMA LinkingStep ==
    ASSUME Growing, Linking, env.isolated, [Next]_vars PROVE Linking'
<1>0. /\ Framed /\ Counted(db) /\ Evolves(db, db')
      /\ \A r \in Requests : LinkArgs(req[r])
      /\ KeepsParents(db, db') \/ \E r \in Requests : LinkChildrenWrite(r)
      /\ Nested(db) /\ \A r \in Requests : req[r].op = "link" => LinkRow(db, req[r])
      /\ \A p, q \in Requests : req[p].op = "link" /\ req[q].op = "link" => p = q
  BY GrowingStep DEF Growing, Linking
<1>1. ASSUME KeepsParents(db, db')
      PROVE  /\ Nested(db')
             /\ \A r \in Requests : req[r].op = "link" => LinkRow(db', req[r])
  BY <1>0, <1>1, NestedKept, LinkRowKept DEF LinkArgs
<1>2. ASSUME KeepsParents(db, db'), req' = req PROVE Linking' BY <1>0, <1>1, <1>2 DEF Linking
<1>3. ASSUME NEW r \in Requests, KeepsParents(db, db'), Others(r),
             req'[r].op = "link" => /\ LinkRow(db', req'[r])
                                    /\ req[r].op = "link" \/ \A q \in Requests : req[q] = Idle
      PROVE  Linking'
  BY <1>3, <1>1, <1>0, IdleFacts DEF Others, Linking
<1>4. ASSUME NEW r \in Requests,
             \/ ItineraryStep(r) \/ DayStep(r) \/ TripStep(r) \/ OrderStep(r)
             \/ ComponentRequest(r) \/ ComponentStep(r) \/ ScheduleStep(r) \/ FormStep(r) \/ Die(r)
      PROVE  Linking'
  BY <1>4, OthersGrow, RestGrows, <1>3 DEF GrowsBy
<1>5. ASSUME NEW r \in Requests, ActivityStep(r), Next PROVE Linking'
  <2>0. Others(r) BY <1>0, <1>5, ActivityServes DEF Comes, Works
  <2>1. CASE LinkChildrenWrite(r)
    BY <2>1, <1>0, LinkWrites, <2>0, IdleFacts DEF LinkChildrenWrite, Due, Others, Linking
  <2>2. CASE ~LinkChildrenWrite(r)
    <3>1. KeepsParents(db, db')
      BY <1>5, <2>2, ActivityGrows DEF Next, GrowsBy
    <3>2. CASE req[r].op = "link"
      BY <1>0, <1>5, <2>2, <3>2, LinkWorks, LinkReads, <1>3, <2>0, <3>1
    <3>3. CASE req[r].op # "link" /\ req'[r].op = "link"
      BY <1>0, <1>5, <3>3, LinkComes, <1>3, <2>0, <3>1 DEF LinkChildren, Arrive
    <3> QED BY <1>3, <2>0, <3>1, <3>2, <3>3
  <2> QED BY <2>1, <2>2
<1>6. CASE vars' = vars BY <1>0, <1>2, <1>6, NothingCame DEF vars
<1>7. CASE HandlerStep
  <2>1. req' = req
    BY <1>7, Zenon DEF HandlerStep, LogEvent, HandleTripBooked, SetFirstBookingDate, HandlerDies
  <2>2. SameActs(db, db') BY <1>0, <1>7, HandlerKept DEF Framed
  <2> QED BY <1>0, <1>2, <2>1, <2>2, Kept, SameActsKept DEF Counted
<1>8. CASE FormEffect
  BY <1>8, <1>0, <1>2, NothingCame DEF FormEffect
<1> QED BY <1>4, <1>5, <1>6, <1>7, <1>8, Zenon DEF Next

ParentBook == Growing /\ (env.isolated => Linking)

LEMMA InitParents == ASSUME Init PROVE ParentBook
<1>0. PICK e \in Environments : StartsFrom(e) BY DEF Init
<1>1. /\ req = [r \in Requests |-> Idle]
      /\ db.act = [a \in Acts |-> Row(e.acts, a, NoAct)] /\ db.made.act = Len(e.acts)
  BY <1>0 DEF StartsFrom
<1>2. Growing BY InitGrowing
<1>3. \A a \in AllActs(db) : db.act[a].parent \in Nat /\ db.act[a].parent < a
  <2>1. \A a \in AllActs(db) : a \in DOMAIN e.acts /\ db.act[a] = e.acts[a]
    BY <1>1 DEF AllActs, Row, NoAct
  <2>2. \A a \in DOMAIN e.acts : e.acts[a].parent < a BY StartAssumption
  <2> QED BY <1>2, <2>1, <2>2 DEF Growing, Counted, AllActs
<1>4. ASSUME NEW a \in AllActs(db)
      PROVE  \E U \in SUBSET (0 .. db.made.act) :
                db.act[a].parent \in U /\ Upward(db, U, {}) /\ a \notin U
  <2> DEFINE U == 0 .. a - 1
  <2>1. a \in Nat /\ a <= db.made.act /\ db.made.act \in Nat
    BY <1>2 DEF Growing, Counted, AllActs, Acts
  <2>2. U \in SUBSET (0 .. db.made.act) /\ a \notin U BY <2>1
  <2>3. db.act[a].parent \in U /\ Upward(db, U, {}) BY <1>3, <2>1 DEF Upward, AllActs, Acts
  <2> QED BY <2>2, <2>3
<1> QED BY <1>1, <1>2, <1>4, IdleFacts DEF ParentBook, Linking, Nested

\* Links that do not overlap never close a cycle of parents: validateNoParentCycle has read all
\* the ancestors of the package when the update is made.
THEOREM LinksMakeNoCycle == Spec => []NoParentCycle
<1>1. ParentBook /\ [Next]_vars => ParentBook'
  <2> SUFFICES ASSUME ParentBook, [Next]_vars PROVE ParentBook' OBVIOUS
  <2>1. env' = env BY Zenon DEF Next, vars
  <2> QED BY <2>1, GrowingStep, LinkingStep DEF ParentBook
<1>2. ParentBook => NoParentCycle BY NestedHasNoCycle DEF ParentBook, Linking, NoParentCycle
<1> QED BY <1>1, <1>2, InitParents, PTL DEF Spec

-----------------------------------------------------------------------------
(* Itineraries                                                               *)

\* What the tables say of the itineraries.
Approved(t) == {i \in Itins : t.itin[i].status = "approved"}
ItinTable(t) ==
    /\ DOMAIN t.itin = Itins /\ t.made.itin \in Nat
    /\ \A i \in Itins : DOMAIN t.itin[i] = DOMAIN NoItin
Ordered(t) ==
    /\ ItinTable(t) /\ \A i, j \in Approved(t) : i = j
    /\ t.made.itin > 0 /\ t.trip[TheTrip] # NoTrip => ItinsOf(t) # {}

\* The steps that remain of a request that approves, adds or removes an itinerary, and what it
\* knows before its last write.
LastSteps == {<<"insert">>, <<"insert", "clearDays", "fillDays">>, <<"clearDays", "fillDays">>,
              <<"fillDays">>}
CreatePcs(v) ==
    LastSteps \cup
        IF v = "approved"
        THEN {<<"count", "archive", "insert">>, <<"archive", "insert">>,
              <<"count", "archive", "insert", "clearDays", "fillDays">>,
              <<"archive", "insert", "clearDays", "fillDays">>}
        ELSE {<<"count", "insert">>, <<"count", "insert", "clearDays", "fillDays">>}
UpdatePcs(v) ==
    IF v = "approved" THEN {<<"find", "archive", "approve">>, <<"archive", "approve">>, <<"approve">>}
                      ELSE {<<"find", "write">>, <<"write">>}
RemovePcs == {<<"find", "count", "delete">>, <<"count", "delete">>, <<"delete">>}

ItinRow(t, q) ==
    /\ q.op = "createItinerary" =>
            /\ q.v \in {"draft", "approved"} /\ q.pc \in CreatePcs(q.v)
            /\ q.v = "approved" /\ Head(q.pc) = "insert" => Approved(t) = {}
    /\ q.op = "updateItinerary" =>
            /\ q.v \in {"none", "draft", "approved", "archived"} /\ q.pc \in UpdatePcs(q.v)
            /\ Head(q.pc) = "approve" => Approved(t) \subseteq {q.i}
    /\ q.op = "removeItinerary" =>
            /\ q.pc \in RemovePcs
            /\ Head(q.pc) = "delete" /\ t.trip[TheTrip] # NoTrip => ItinsOf(t) \ {q.i} # {}
PlanOps == {"createItinerary", "updateItinerary", "removeItinerary"}
Planned ==
    /\ Ordered(db) /\ \A r \in Requests : ItinRow(db, req[r])
    /\ \A p, q \in Requests : req[p].op \in PlanOps /\ req[q].op \in PlanOps => p = q

LEMMA PlanSteps ==
    /\ Head(<<"count", "archive", "insert">>) = "count"
    /\ Tail(<<"count", "archive", "insert">>) = <<"archive", "insert">>
    /\ Head(<<"archive", "insert">>) = "archive" /\ Tail(<<"archive", "insert">>) = <<"insert">>
    /\ Head(<<"insert">>) = "insert" /\ Len(<<"insert">>) = 1
    /\ Head(<<"count", "archive", "insert", "clearDays", "fillDays">>) = "count"
    /\ Tail(<<"count", "archive", "insert", "clearDays", "fillDays">>)
            = <<"archive", "insert", "clearDays", "fillDays">>
    /\ Head(<<"archive", "insert", "clearDays", "fillDays">>) = "archive"
    /\ Tail(<<"archive", "insert", "clearDays", "fillDays">>) = <<"insert", "clearDays", "fillDays">>
    /\ Head(<<"insert", "clearDays", "fillDays">>) = "insert"
    /\ Tail(<<"insert", "clearDays", "fillDays">>) = <<"clearDays", "fillDays">>
    /\ Head(<<"clearDays", "fillDays">>) = "clearDays"
    /\ Tail(<<"clearDays", "fillDays">>) = <<"fillDays">>
    /\ Head(<<"fillDays">>) = "fillDays" /\ Len(<<"fillDays">>) = 1
    /\ Head(<<"count", "insert">>) = "count" /\ Tail(<<"count", "insert">>) = <<"insert">>
    /\ Head(<<"count", "insert", "clearDays", "fillDays">>) = "count"
    /\ Tail(<<"count", "insert", "clearDays", "fillDays">>) = <<"insert", "clearDays", "fillDays">>
    /\ Head(<<"find", "archive", "approve">>) = "find"
    /\ Tail(<<"find", "archive", "approve">>) = <<"archive", "approve">>
    /\ Head(<<"archive", "approve">>) = "archive" /\ Tail(<<"archive", "approve">>) = <<"approve">>
    /\ Head(<<"approve">>) = "approve" /\ Len(<<"approve">>) = 1
    /\ Head(<<"find", "write">>) = "find" /\ Tail(<<"find", "write">>) = <<"write">>
    /\ Head(<<"write">>) = "write" /\ Len(<<"write">>) = 1
    /\ Head(<<"find", "count", "delete">>) = "find"
    /\ Tail(<<"find", "count", "delete">>) = <<"count", "delete">>
    /\ Head(<<"count", "delete">>) = "count" /\ Tail(<<"count", "delete">>) = <<"delete">>
    /\ Head(<<"delete">>) = "delete" /\ Len(<<"delete">>) = 1
OBVIOUS

LEMMA CreatePcFacts ==
    ASSUME NEW v, NEW pc \in CreatePcs(v)
    PROVE  /\ Head(pc) \in {"count", "archive", "insert", "clearDays", "fillDays"}
           /\ Head(pc) = "count" => /\ Tail(pc) \in CreatePcs(v)
                                    /\ Head(Tail(pc)) = IF v = "approved" THEN "archive" ELSE "insert"
           /\ Head(pc) = "archive" => Tail(pc) \in CreatePcs(v)
           /\ Head(pc) = "insert" /\ Len(pc) # 1 => /\ Tail(pc) \in CreatePcs(v)
                                                    /\ Head(Tail(pc)) = "clearDays"
           /\ Head(pc) = "clearDays" => Tail(pc) \in CreatePcs(v) /\ Head(Tail(pc)) = "fillDays"
           /\ Head(pc) = "fillDays" => Len(pc) = 1
BY PlanSteps, Zenon DEF CreatePcs, LastSteps

LEMMA UpdatePcFacts ==
    ASSUME NEW v, NEW pc \in UpdatePcs(v)
    PROVE  /\ Head(pc) \in {"find", "archive", "approve", "write"}
           /\ Head(pc) = "find" => /\ Tail(pc) \in UpdatePcs(v)
                                   /\ Head(Tail(pc)) = IF v = "approved" THEN "archive" ELSE "write"
           /\ Head(pc) = "archive" => Tail(pc) \in UpdatePcs(v)
           /\ Head(pc) \in {"approve", "write"} => Len(pc) = 1
           /\ Head(pc) = "write" => v # "approved"
BY PlanSteps, Zenon DEF UpdatePcs

LEMMA RemovePcFacts ==
    ASSUME NEW pc \in RemovePcs
    PROVE  /\ Head(pc) \in {"find", "count", "delete"}
           /\ Head(pc) = "find" => Tail(pc) \in RemovePcs /\ Head(Tail(pc)) = "count"
           /\ Head(pc) = "count" => Tail(pc) \in RemovePcs
           /\ Head(pc) = "delete" => Len(pc) = 1
BY PlanSteps, Zenon DEF RemovePcs

LEMMA CreateJoined ==
    /\ <<"count">> \o <<"archive">> \o <<"insert">> \o <<"clearDays", "fillDays">>
            = <<"count", "archive", "insert", "clearDays", "fillDays">>
    /\ <<"count">> \o <<"archive">> \o <<"insert">> \o <<>> = <<"count", "archive", "insert">>
    /\ <<"count">> \o <<>> \o <<"insert">> \o <<"clearDays", "fillDays">>
            = <<"count", "insert", "clearDays", "fillDays">>
    /\ <<"count">> \o <<>> \o <<"insert">> \o <<>> = <<"count", "insert">>
<1> DEFINE S == {"count", "archive", "insert", "clearDays", "fillDays"}
           a == <<"count">>
           x == <<"archive">>
           y == <<"insert">>
           b == <<"count", "archive">>
           c == <<"count", "archive", "insert">>
           d == <<"count", "insert">>
           days == <<"clearDays", "fillDays">>
           e == <<"count", "archive", "insert", "clearDays", "fillDays">>
           f == <<"count", "insert", "clearDays", "fillDays">>
<1>1. /\ a \in Seq(S) /\ b \in Seq(S) /\ c \in Seq(S) /\ d \in Seq(S) /\ days \in Seq(S)
      /\ e \in Seq(S) /\ f \in Seq(S) /\ x \in Seq(S) /\ y \in Seq(S)
  OBVIOUS
<1>2. Joins(a, x, b) /\ Joins(b, y, c) /\ Joins(a, y, d) BY DEF Joins
<1>3. Joins(c, days, e) /\ Joins(d, days, f) BY DEF Joins
<1> HIDE DEF S, a, b, c, d, e, f, x, y, days
<1>4. a \o x = b /\ b \o y = c /\ a \o y = d /\ c \o days = e /\ d \o days = f
  BY <1>1, <1>2, <1>3, Joined, Zenon
<1>5. a \o <<>> = a /\ c \o <<>> = c /\ d \o <<>> = d BY <1>1, ConcatEmptySeq
<1>6. /\ a \o x \o y \o days = e /\ a \o x \o y \o <<>> = c
      /\ a \o <<>> \o y \o days = f /\ a \o <<>> \o y \o <<>> = d
  BY <1>4, <1>5, Zenon
<1> QED BY <1>6 DEF a, c, d, e, f, x, y, days

\* A statement that is not about itineraries, or takes them all with their trip, keeps what the
\* tables say and what requests know.
KeepsPlan(t, u) ==
    /\ ItinTable(u) /\ u.made.itin = t.made.itin
    /\ u.trip[TheTrip] # NoTrip => t.trip[TheTrip] # NoTrip
    /\ \/ \A i \in Itins : u.itin[i].status = t.itin[i].status
       \/ Approved(u) \subseteq Approved(t) /\ u.trip[TheTrip] = NoTrip

LEMMA PlanKept ==
    ASSUME NEW t, NEW u, Ordered(t), KeepsPlan(t, u)
    PROVE  Ordered(u) /\ \A q : ItinRow(t, q) => ItinRow(u, q)
<1>1. Approved(u) \subseteq Approved(t) BY DEF KeepsPlan, Approved
<1>2. u.trip[TheTrip] # NoTrip => ItinsOf(u) = ItinsOf(t) BY DEF KeepsPlan, ItinsOf
<1>3. Ordered(u) BY <1>1, <1>2 DEF Ordered, KeepsPlan
<1>4. ASSUME NEW q, ItinRow(t, q) PROVE ItinRow(u, q)
  BY <1>1, <1>2, <1>4, Zenon DEF ItinRow, KeepsPlan
<1> QED BY <1>3, <1>4

LEMMA PlanEnds ==
    ASSUME Framed, NEW r \in Requests, req[r].op \in PlanOps
    PROVE  /\ \A answer \in {"ok", "failed"} : Reply(r, answer) => req'[r].op \notin PlanOps
           /\ Refuse(r) => req'[r].op \notin PlanOps /\ db' = db
           /\ Finish(r) /\ Len(req[r].pc) = 1 => req'[r].op \notin PlanOps
<1>1. ASSUME NEW answer \in {"ok", "failed"}, Reply(r, answer) PROVE req'[r].op \notin PlanOps
  BY <1>1, IdleFacts DEF Reply, Go, Framed, Slotted, PlanOps
<1> QED BY <1>1 DEF Refuse, Finish

\* A request that approves, adds or removes an itinerary comes.
LEMMA PlanArrives ==
    ASSUME Framed, NEW r \in Requests,
           CreateItinerary(r) \/ UpdateItinerary(r) \/ RemoveItinerary(r)
    PROVE  ItinRow(db, req'[r]) /\ db' = db
<1>0. DOMAIN req = Requests BY DEF Framed, Slotted
<1>1. CASE CreateItinerary(r)
  <2>1. PICK status \in {"draft", "approved"}, dated \in BOOLEAN :
            Arrive(r, [Idle EXCEPT !.op = "createItinerary", !.v = status,
                !.pc = <<"count">> \o (IF status = "approved" THEN <<"archive">> ELSE <<>>)
                       \o <<"insert">> \o (IF dated THEN <<"clearDays", "fillDays">> ELSE <<>>)])
    BY <1>1, Zenon DEF CreateItinerary
  <2> DEFINE pc == <<"count">> \o (IF status = "approved" THEN <<"archive">> ELSE <<>>)
                       \o <<"insert">> \o (IF dated THEN <<"clearDays", "fillDays">> ELSE <<>>)
  <2>2. pc \in CreatePcs(status) /\ Head(pc) = "count"
    BY CreateJoined, PlanSteps DEF CreatePcs
  <2>3. /\ req'[r] = [Idle EXCEPT !.op = "createItinerary", !.v = status, !.pc = pc]
        /\ db' = db
    BY <1>0, <2>1 DEF Arrive
  <2> HIDE DEF pc
  <2>4. /\ req'[r].op = "createItinerary" /\ req'[r].v = status /\ req'[r].pc = pc
    BY <2>3 DEF Idle
  <2> QED BY <2>2, <2>3, <2>4 DEF ItinRow
<1>2. CASE UpdateItinerary(r)
  <2>1. PICK i \in Itins, status \in {"none", "draft", "approved", "archived"} :
            Arrive(r, [Idle EXCEPT !.op = "updateItinerary", !.i = i, !.v = status,
                !.pc = IF status = "approved" THEN <<"find", "archive", "approve">>
                                              ELSE <<"find", "write">>])
    BY <1>2, Zenon DEF UpdateItinerary
  <2> DEFINE pc == IF status = "approved" THEN <<"find", "archive", "approve">>
                                          ELSE <<"find", "write">>
  <2>2. pc \in UpdatePcs(status) /\ Head(pc) = "find"
    BY PlanSteps DEF UpdatePcs
  <2>3. /\ req'[r] = [Idle EXCEPT !.op = "updateItinerary", !.i = i, !.v = status, !.pc = pc]
        /\ db' = db
    BY <1>0, <2>1 DEF Arrive
  <2> HIDE DEF pc
  <2>4. /\ req'[r].op = "updateItinerary" /\ req'[r].v = status /\ req'[r].pc = pc
    BY <2>3 DEF Idle
  <2> QED BY <2>2, <2>3, <2>4 DEF ItinRow
<1>3. CASE RemoveItinerary(r)
  BY <1>0, <1>3, PlanSteps DEF RemoveItinerary, Arrive, Idle, ItinRow, RemovePcs
<1> QED BY <1>1, <1>2, <1>3

\* The steps of create.
LEMMA Archived ==
    ASSUME NEW t, Tabled(t), Ordered(t), NEW i
    PROVE  LET u == ArchiveApproved(t, i)
           IN  Ordered(u) /\ Approved(u) = {j \in Approved(t) : j = i}
<1> DEFINE u == ArchiveApproved(t, i)
<1>1. /\ u.itin = [j \in Itins |-> IF j # i /\ t.itin[j].status = "approved"
                                  THEN [status |-> "archived", selected |-> FALSE] ELSE t.itin[j]]
      /\ u.trip = t.trip /\ u.made = t.made
  BY DEF ArchiveApproved, Tabled, Fields
<1> HIDE DEF u
<1>2. /\ ItinTable(u) /\ Approved(u) = {j \in Approved(t) : j = i} /\ ItinsOf(u) = ItinsOf(t)
  BY <1>1 DEF ItinTable, Ordered, NoItin, Approved, ItinsOf
<1> QED BY <1>1, <1>2 DEF Ordered, u

LEMMA CreateSteps ==
    ASSUME Framed, Ordered(db), NEW r \in Requests, ItinRow(db, req[r]), InBounds',
           CreateItineraryCount(r) \/ CreateItineraryArchive(r) \/ CreateItineraryInsert(r)
    PROVE  Ordered(db') /\ ItinRow(db', req'[r])
<1> DEFINE pc == req[r].pc
           v == req[r].v
<1>0. /\ req[r].op = "createItinerary" /\ pc \in CreatePcs(v) /\ v \in {"draft", "approved"}
      /\ v = "approved" /\ Head(pc) = "insert" => Approved(db) = {}
      /\ DOMAIN req = Requests /\ Tabled(db) /\ req[r].op \in PlanOps
  BY DEF CreateItineraryCount, CreateItineraryArchive, CreateItineraryInsert, Due, ItinRow, Framed,
         Slotted, PlanOps
<1>1. /\ Head(pc) = "count" => /\ Tail(pc) \in CreatePcs(v)
                               /\ Head(Tail(pc)) = IF v = "approved" THEN "archive" ELSE "insert"
      /\ Head(pc) = "archive" => Tail(pc) \in CreatePcs(v)
      /\ Head(pc) = "insert" /\ Len(pc) # 1 => /\ Tail(pc) \in CreatePcs(v)
                                               /\ Head(Tail(pc)) = "clearDays"
  BY <1>0, CreatePcFacts
<1>2. ASSUME NEW row, Go(r, row), row.op = "createItinerary", row.v = v, row.pc = Tail(pc)
      PROVE  req'[r].op = "createItinerary" /\ req'[r].v = v /\ req'[r].pc = Tail(pc)
  BY <1>0, <1>2 DEF Go
<1>3. ASSUME req'[r].op \notin PlanOps PROVE ItinRow(db', req'[r]) BY <1>3 DEF PlanOps, ItinRow
<1>4. CASE CreateItineraryCount(r)
  <2>1. CASE Refuse(r) BY <2>1, <1>0, <1>3, PlanEnds
  <2>2. CASE Go(r, [Next1(r) EXCEPT !.n = Cardinality(ItinsOf(db))]) /\ db' = db
    BY <1>0, <1>2, <2>2, NextSlot, IdleFacts, <1>4, <1>1 DEF CreateItineraryCount, Due, ItinRow
  <2> QED BY <1>4, <2>1, <2>2 DEF CreateItineraryCount
<1>5. CASE CreateItineraryArchive(r)
  <2>1. db' = ArchiveApproved(db, 0) /\ Go(r, Next1(r)) /\ Head(pc) = "archive"
    BY <1>5 DEF CreateItineraryArchive, Due
  <2>2. req'[r].op = "createItinerary" /\ req'[r].v = v /\ req'[r].pc = Tail(pc)
    BY <1>0, <1>2, <2>1, NextSlot
  <2>3. Ordered(db') /\ Approved(db') = {} BY <1>0, <2>1, Archived DEF Approved, Itins
  <2> QED BY <1>0, <1>1, <2>1, <2>2, <2>3 DEF ItinRow
<1>6. CASE CreateItineraryInsert(r)
  <2>0. Head(pc) = "insert" BY <1>6 DEF CreateItineraryInsert, Due
  <2>1. CASE Refuse(r) BY <2>1, <1>0, <1>3, PlanEnds
  <2>2. CASE ~Refuse(r)
    <3> DEFINE row == [status |-> v, selected |-> v = "approved" \/ req[r].n = 0]
               i == db.made.itin + 1
    <3>1. /\ db' = AddItin(db, row)
          /\ IF Len(pc) = 1 THEN Reply(r, "ok") ELSE Go(r, [Next1(r) EXCEPT !.i = i])
      BY <1>6, <2>2 DEF CreateItineraryInsert
    <3>2. /\ db'.itin = [db.itin EXCEPT ![i] = row] /\ db'.made.itin = i /\ db'.trip = db.trip
      BY <1>0, <3>1 DEF AddItin, Tabled, Fields, Counters
    <3>3. i \in Itins BY <3>2, TripTreeAssumption DEF InBounds, Ordered, ItinTable, Itins
    <3>4. \A j \in Itins : db'.itin[j] = IF j = i THEN row ELSE db.itin[j]
      BY <3>2, <3>3 DEF Ordered, ItinTable
    <3>5. ItinTable(db') BY <3>2, <3>3, <3>4 DEF Ordered, ItinTable, NoItin
    <3>6. i \in ItinsOf(db') BY <1>0, <3>3, <3>4 DEF ItinsOf
    <3>7. \A j, k \in Approved(db') : j = k
      <4>1. row.status = v OBVIOUS
      <4> HIDE DEF row
      <4>2. Approved(db') \subseteq Approved(db) \cup (IF v = "approved" THEN {i} ELSE {})
        BY <3>4, <4>1 DEF Approved
      <4> QED BY <1>0, <2>0, <4>2 DEF Ordered
    <3>8. Ordered(db') BY <3>5, <3>6, <3>7 DEF Ordered
    <3>9. CASE Len(pc) = 1 BY <1>0, <1>3, <3>1, <3>8, <3>9, PlanEnds
    <3>10. CASE Len(pc) # 1
      BY <1>0, <1>2, <3>1, <3>10, NextSlot, IdleFacts, <1>1, <2>0, <3>8 DEF ItinRow
    <3> QED BY <3>9, <3>10
  <2> QED BY <2>1, <2>2
<1> QED BY <1>4, <1>5, <1>6

\* The steps of update.
LEMMA UpdateSteps ==
    ASSUME Framed, Ordered(db), NEW r \in Requests, ItinRow(db, req[r]),
           \/ UpdateItineraryFind(r) \/ UpdateItineraryArchive(r) \/ UpdateItineraryApprove(r)
           \/ UpdateItineraryWrite(r)
    PROVE  Ordered(db') /\ ItinRow(db', req'[r])
<1> DEFINE pc == req[r].pc
           v == req[r].v
           i == req[r].i
<1>0. /\ req[r].op = "updateItinerary" /\ pc \in UpdatePcs(v)
      /\ v \in {"none", "draft", "approved", "archived"}
      /\ Head(pc) = "approve" => Approved(db) \subseteq {i}
      /\ DOMAIN req = Requests /\ Tabled(db) /\ req[r].op \in PlanOps
  BY DEF UpdateItineraryFind, UpdateItineraryArchive, UpdateItineraryApprove, UpdateItineraryWrite,
         Due, ItinRow, Framed, Slotted, PlanOps
<1>1. /\ Head(pc) = "find" => /\ Tail(pc) \in UpdatePcs(v)
                              /\ Head(Tail(pc)) = IF v = "approved" THEN "archive" ELSE "write"
      /\ Head(pc) = "archive" => Tail(pc) \in UpdatePcs(v)
      /\ Head(pc) \in {"approve", "write"} => Len(pc) = 1
      /\ Head(pc) = "write" => v # "approved"
  <2> HIDE DEF pc, v
  <2>1. pc \in UpdatePcs(v) BY <1>0
  <2> QED BY <2>1, UpdatePcFacts
<1>2. ASSUME NEW row, Go(r, row), row.op = "updateItinerary", row.v = v, row.pc = Tail(pc),
             row.i = i
      PROVE  /\ req'[r].op = "updateItinerary" /\ req'[r].v = v /\ req'[r].pc = Tail(pc)
             /\ req'[r].i = i
  BY <1>0, <1>2 DEF Go
<1>3. ASSUME req'[r].op \notin PlanOps PROVE ItinRow(db', req'[r]) BY <1>3 DEF PlanOps, ItinRow
<1>4. CASE Refuse(r) BY <1>0, <1>3, <1>4, PlanEnds
<1>5. CASE UpdateItineraryFind(r) /\ ~Refuse(r)
  BY <1>5, <1>0, <1>2, NextSlot, IdleFacts, <1>1 DEF UpdateItineraryFind, Due, ItinRow
<1>6. CASE UpdateItineraryArchive(r)
  BY <1>6, <1>0, <1>2, NextSlot, Archived, <1>1 DEF UpdateItineraryArchive, Due, ItinRow
<1>7. ASSUME Finish(r), Len(pc) = 1, Ordered(db') PROVE Ordered(db') /\ ItinRow(db', req'[r])
  BY <1>0, <1>3, <1>7, PlanEnds
<1>8. CASE UpdateItineraryApprove(r) /\ ~Refuse(r)
  <2>1. /\ db' = [db EXCEPT !.itin[i] = [status |-> "approved", selected |-> TRUE]]
        /\ Finish(r) /\ Head(pc) = "approve" /\ i \in ItinsOf(db)
    BY <1>8 DEF UpdateItineraryApprove, Due
  <2>2. /\ db'.trip = db.trip /\ db'.made = db.made /\ DOMAIN db'.itin = Itins
        /\ \A j \in Itins : db'.itin[j] = IF j = i THEN [status |-> "approved", selected |-> TRUE]
                                                   ELSE db.itin[j]
    BY <1>0, <2>1 DEF Tabled, Fields, Ordered, ItinTable
  <2>3. Approved(db') \subseteq {i} /\ i \in ItinsOf(db') /\ ItinTable(db')
    BY <1>0, <2>1, <2>2 DEF Approved, ItinsOf, Ordered, ItinTable, NoItin
  <2> QED BY <1>1, <1>7, <2>1, <2>3 DEF Ordered
<1>9. CASE UpdateItineraryWrite(r) /\ ~Refuse(r)
  <2> DEFINE status == IF v = "none" THEN db.itin[i].status ELSE v
             selected == db.itin[i].selected /\ (v = "none" \/ ~req[r].flag)
  <2>1. /\ db' = [db EXCEPT !.itin[i].status = status, !.itin[i].selected = selected]
        /\ Finish(r) /\ Head(pc) = "write" /\ i \in ItinsOf(db)
    BY <1>9 DEF UpdateItineraryWrite, Due
  <2> HIDE DEF selected
  <2>2. /\ db'.trip = db.trip /\ db'.made = db.made /\ DOMAIN db'.itin = Itins
        /\ \A j \in Itins : j # i => db'.itin[j] = db.itin[j]
        /\ db'.itin[i].status = status /\ DOMAIN db'.itin[i] = DOMAIN NoItin
    BY <1>0, <2>1 DEF Tabled, Fields, Ordered, ItinTable, ItinsOf, NoItin
  <2>3. /\ Approved(db') \subseteq Approved(db) /\ ItinsOf(db') = ItinsOf(db) /\ ItinTable(db')
    BY <1>0, <1>1, <2>1, <2>2 DEF Approved, ItinsOf, Ordered, ItinTable
  <2> QED BY <1>1, <1>7, <2>1, <2>2, <2>3 DEF Ordered
<1> QED BY <1>4, <1>5, <1>6, <1>8, <1>9

\* The steps of remove: the itinerary counted beside the one that goes is still there.
LEMMA RemoveSteps ==
    ASSUME Framed, Ordered(db), NEW r \in Requests, ItinRow(db, req[r]),
           req[r].op = "removeItinerary",
           ItineraryFind(r) \/ RemoveItineraryCount(r) \/ RemoveItineraryDelete(r)
    PROVE  Ordered(db') /\ ItinRow(db', req'[r])
<1> DEFINE pc == req[r].pc
           i == req[r].i
<1>0. /\ pc \in RemovePcs
      /\ Head(pc) = "delete" /\ db.trip[TheTrip] # NoTrip => ItinsOf(db) \ {i} # {}
      /\ DOMAIN req = Requests /\ Tabled(db) /\ req[r].op \in PlanOps
  BY DEF ItinRow, Framed, Slotted, PlanOps
<1>1. /\ Head(pc) = "find" => Tail(pc) \in RemovePcs /\ Head(Tail(pc)) = "count"
      /\ Head(pc) = "count" => Tail(pc) \in RemovePcs
      /\ Head(pc) = "delete" => Len(pc) = 1
  BY <1>0, RemovePcFacts
<1>2. ASSUME Go(r, Next1(r))
      PROVE  req'[r].op = "removeItinerary" /\ req'[r].pc = Tail(pc) /\ req'[r].i = i
  BY <1>0, <1>2, NextSlot DEF Go
<1>3. ASSUME req'[r].op \notin PlanOps PROVE ItinRow(db', req'[r]) BY <1>3 DEF PlanOps, ItinRow
<1>4. CASE Refuse(r) BY <1>0, <1>3, <1>4, PlanEnds
<1>5. CASE ItineraryFind(r) /\ ~Refuse(r)
  BY <1>5, <1>1, <1>2 DEF ItineraryFind, Due, ItinRow
<1>6. CASE RemoveItineraryCount(r) /\ ~Refuse(r)
  <2>1. Go(r, Next1(r)) /\ db' = db /\ Head(pc) = "count" /\ Cardinality(ItinsOf(db)) > 1
    BY <1>6 DEF RemoveItineraryCount, Due
  <2>2. ItinsOf(db) \ {i} # {}
    <3>1. SUFFICES ASSUME ItinsOf(db) \subseteq {i} PROVE FALSE OBVIOUS
    <3>2. IsFiniteSet({i}) /\ Cardinality({i}) = 1 BY FS_Singleton
    <3>3. Cardinality(ItinsOf(db)) <= 1 BY <3>1, <3>2, FS_Subset
    <3>4. Cardinality(ItinsOf(db)) \in Nat BY <3>1, <3>2, FS_Subset, FS_CardinalityType
    <3> QED BY <2>1, <3>3, <3>4
  <2> QED BY <1>1, <1>2, <2>1, <2>2 DEF ItinRow
<1>7. CASE RemoveItineraryDelete(r) /\ ~Refuse(r)
  <2>1. db' = DropItin(db, i) /\ Finish(r) /\ Head(pc) = "delete"
    BY <1>7 DEF RemoveItineraryDelete, Due
  <2>2. ItinsGo(db, db', {i}) /\ db'.trip = db.trip
    BY <1>0, <2>1, DropItinsWrite DEF DropItin, PlanWrite, SameTrips
  <2>3. /\ ItinTable(db') /\ Approved(db') \subseteq Approved(db)
        /\ ItinsOf(db') = ItinsOf(db) \ {i}
    BY <2>2 DEF ItinsGo, Ordered, ItinTable, Approved, ItinsOf, NoItin
  <2>4. Ordered(db') BY <1>0, <2>1, <2>2, <2>3 DEF Ordered
  <2> QED BY <1>0, <1>1, <1>3, <2>1, <2>4, PlanEnds
<1> QED BY <1>4, <1>5, <1>6, <1>7

\* The steps of select and of the list change only which itinerary is shown.
LEMMA SelectSteps ==
    ASSUME Framed, Ordered(db), NEW r \in Requests, ItineraryStep(r), req[r].op \notin PlanOps,
           ~(CreateItinerary(r) \/ UpdateItinerary(r) \/ RemoveItinerary(r))
    PROVE  KeepsPlan(db, db') /\ req'[r].op \notin PlanOps
<1>0. Tabled(db) /\ DOMAIN req = Requests BY DEF Framed, Slotted
<1>1. \/ ListSelected(r) \/ ListSelectedRead(r) \/ ListAllRead(r) \/ SelectItinerary(r)
      \/ SelectItineraryDeselect(r) \/ SelectItineraryWrite(r) \/ ItineraryFind(r)
  BY DEF ItineraryStep, CreateItineraryCount, CreateItineraryArchive, CreateItineraryInsert,
         UpdateItineraryFind, UpdateItineraryArchive, UpdateItineraryApprove, UpdateItineraryWrite,
         RemoveItineraryCount, RemoveItineraryDelete, Due, PlanOps
<1>2. req'[r].op \notin PlanOps
  <2>1. CASE ListSelected(r) \/ SelectItinerary(r)
    BY <1>0, <2>1, IdleFacts DEF ListSelected, SelectItinerary, Arrive, PlanOps
  <2>2. CASE ~(ListSelected(r) \/ SelectItinerary(r))
    <3>1. Works(r)
      BY <1>1, <2>2, WorksOn, Zenon
         DEF ListSelectedRead, ListAllRead, SelectItineraryDeselect, SelectItineraryWrite, ItineraryFind
    <3> QED BY <3>1 DEF Works, PlanOps
  <2> QED BY <2>1, <2>2
<1>3. CASE db' = db BY <1>2, <1>3 DEF KeepsPlan, Ordered
<1>4. CASE SelectItineraryDeselect(r)
  <2>1. /\ db'.itin = [j \in Itins |-> IF j = req[r].i THEN db.itin[j]
                                       ELSE [db.itin[j] EXCEPT !.selected = FALSE]]
        /\ db'.trip = db.trip /\ db'.made = db.made
    BY <1>0, <1>4 DEF SelectItineraryDeselect, Tabled, Fields
  <2>2. ItinTable(db') /\ \A j \in Itins : db'.itin[j].status = db.itin[j].status
    BY <2>1 DEF Ordered, ItinTable, NoItin
  <2> QED BY <1>2, <2>1, <2>2 DEF KeepsPlan
<1>5. CASE SelectItineraryWrite(r) /\ db' # db
  <2>1. db' = [db EXCEPT !.itin[req[r].i].selected = TRUE]
    BY <1>5, Reads DEF SelectItineraryWrite
  <2>2. /\ \A j \in Itins : db'.itin[j].status = db.itin[j].status /\ DOMAIN db'.itin[j] = DOMAIN NoItin
        /\ DOMAIN db'.itin = Itins /\ db'.trip = db.trip /\ db'.made = db.made
    BY <1>0, <2>1 DEF Tabled, Fields, Ordered, ItinTable, NoItin
  <2> QED BY <1>2, <2>2 DEF KeepsPlan, Ordered, ItinTable
<1>6. db' = db \/ SelectItineraryDeselect(r) \/ SelectItineraryWrite(r)
  BY <1>1, Reads, Zenon DEF ListSelected, ListSelectedRead, ListAllRead, SelectItinerary, ItineraryFind
<1> QED BY <1>3, <1>4, <1>5, <1>6

\* What each step leaves: it keeps what the tables say, or is one of the three operations.
PlanStays(r) == KeepsPlan(db, db') /\ Others(r) /\ req'[r].op \notin PlanOps
PlanGoesOn(r) ==
    /\ Ordered(db') /\ ItinRow(db', req'[r]) /\ Others(r)
    /\ req[r].op \in PlanOps \/ \A q \in Requests : req[q] = Idle

LEMMA SamePlan ==
    ASSUME NEW t, NEW u, Ordered(t), u.itin = t.itin, u.made.itin = t.made.itin,
           u.trip[TheTrip] # NoTrip => t.trip[TheTrip] # NoTrip
    PROVE  KeepsPlan(t, u)
BY DEF KeepsPlan, Ordered, ItinTable

LEMMA PlanItineraries ==
    ASSUME Framed, Ordered(db), NEW r \in Requests, ItinRow(db, req[r]), InBounds', env.isolated,
           ItineraryStep(r)
    PROVE  PlanStays(r) \/ PlanGoesOn(r)
<1>1. Others(r) BY ItineraryServes DEF Serves, Comes, Works
<1>2. CASE CreateItinerary(r) \/ UpdateItinerary(r) \/ RemoveItinerary(r)
  <2>1. ItinRow(db, req'[r]) /\ db' = db BY <1>2, PlanArrives
  <2>2. \A q \in Requests : req[q] = Idle
    BY <1>2 DEF CreateItinerary, UpdateItinerary, RemoveItinerary, Arrive
  <2> QED BY <1>1, <2>1, <2>2 DEF PlanGoesOn
<1>3. CASE /\ req[r].op \notin PlanOps
           /\ ~(CreateItinerary(r) \/ UpdateItinerary(r) \/ RemoveItinerary(r))
  BY <1>1, <1>3, SelectSteps DEF PlanStays
<1>4. CASE /\ req[r].op \in PlanOps
           /\ ~(CreateItinerary(r) \/ UpdateItinerary(r) \/ RemoveItinerary(r))
  <2>1. \/ CreateItineraryCount(r) \/ CreateItineraryArchive(r) \/ CreateItineraryInsert(r)
        \/ UpdateItineraryFind(r) \/ UpdateItineraryArchive(r) \/ UpdateItineraryApprove(r)
        \/ UpdateItineraryWrite(r)
        \/ /\ req[r].op = "removeItinerary"
           /\ ItineraryFind(r) \/ RemoveItineraryCount(r) \/ RemoveItineraryDelete(r)
    <3>1. ~ListSelected(r) /\ ~SelectItinerary(r)
      BY <1>4, IdleFacts DEF ListSelected, SelectItinerary, Arrive, PlanOps
    <3>2. ~ListSelectedRead(r) /\ ~ListAllRead(r) /\ ~SelectItineraryDeselect(r)
          /\ ~SelectItineraryWrite(r)
      BY <1>4 DEF ListSelectedRead, ListAllRead, SelectItineraryDeselect, SelectItineraryWrite, Due,
                  PlanOps
    <3>3. (ItineraryFind(r) \/ RemoveItineraryCount(r) \/ RemoveItineraryDelete(r))
            => req[r].op = "removeItinerary"
      BY <1>4 DEF ItineraryFind, RemoveItineraryCount, RemoveItineraryDelete, Due, PlanOps
    <3> QED BY <1>4, <3>1, <3>2, <3>3 DEF ItineraryStep
  <2>2. Ordered(db') /\ ItinRow(db', req'[r]) BY <2>1, CreateSteps, UpdateSteps, RemoveSteps
  <2> QED BY <1>1, <1>4, <2>2 DEF PlanGoesOn
<1> QED BY <1>2, <1>3, <1>4

LEMMA PlanDays ==
    ASSUME Framed, Ordered(db), NEW r \in Requests, ItinRow(db, req[r]), DayStep(r)
    PROVE  PlanStays(r) \/ PlanGoesOn(r)
<1>0. Tabled(db) /\ DOMAIN req = Requests BY DEF Framed, Slotted
<1>1. Serves(r, DayOps \cup {"createItinerary"}) /\ (req'[r].op \in DayOps \/ req[r] # Idle)
  BY DayServes
<1>2. Others(r) BY <1>1 DEF Serves, Comes, Works
<1>3. KeepsPlan(db, db') BY <1>0, DayWrites, SamePlan DEF SameItins, PlanWrite, SameTrips
<1>4. CASE req[r].op # "createItinerary"
  BY <1>1, <1>4, IdleFacts, <1>2, <1>3 DEF Serves, Comes, Works, DayOps, PlanOps, PlanStays
<1>5. CASE req[r].op = "createItinerary"
  <2> DEFINE pc == req[r].pc
             v == req[r].v
  <2>0. /\ pc \in CreatePcs(v) /\ v \in {"draft", "approved"} /\ req[r].op \in PlanOps
        /\ Ordered(db')
    BY <1>3, <1>5, PlanKept DEF ItinRow, PlanOps
  <2>1. AutoGenerateClear(r) \/ AutoGenerateFill(r)
    <3>1. ~(\/ CreateDay(r) \/ UpdateDay(r) \/ RemoveDay(r) \/ ReorderDays(r) \/ AutoGenerate(r)
            \/ BatchCreate(r) \/ FindOrCreateByDate(r))
      <4>1. \A row : ~Arrive(r, row) BY <1>5, IdleFacts DEF Arrive
      <4> QED
        BY <4>1, Zenon
           DEF CreateDay, UpdateDay, RemoveDay, ReorderDays, AutoGenerate, BatchCreate,
               FindOrCreateByDate
    <3>2. \A op, step : Due(r, op, step) => op = "createItinerary" BY <1>5 DEF Due
    <3> QED
      BY <3>1, <3>2
         DEF DayStep, CreateDayDuplicate, CreateDayMaxSeq, CreateDayInsert, UpdateDayFind,
             UpdateDayConflict, UpdateDayWrite, RemoveDayFind, RemoveDayDelete, RemoveDaySelect,
             RemoveDayRow, ReorderDaysVerify, ReorderDaysRow, BatchCreateRead, BatchCreateEnd,
             BatchCreateStart, DayByDateFind, DayByDatePosition, DayByDateInsert
  <2>2. ASSUME req'[r].op \notin PlanOps PROVE PlanStays(r) BY <1>2, <1>3, <2>2 DEF PlanStays
  <2>3. CASE Refuse(r) BY <2>0, <2>2, <2>3, PlanEnds
  <2>4. CASE AutoGenerateClear(r) /\ ~Refuse(r)
    <3>1. Go(r, Next1(r)) /\ Head(pc) = "clearDays" BY <2>4 DEF AutoGenerateClear, Due
    <3>2. req'[r].op = "createItinerary" /\ req'[r].v = v /\ req'[r].pc = Tail(pc)
      BY <1>0, <1>5, <3>1, NextSlot DEF Go
    <3>3. Tail(pc) \in CreatePcs(v) /\ Head(Tail(pc)) = "fillDays" BY <2>0, <3>1, CreatePcFacts
    <3> QED BY <1>2, <2>0, <3>2, <3>3 DEF PlanGoesOn, ItinRow
  <2>5. CASE AutoGenerateFill(r) /\ ~Refuse(r)
    <3>1. Finish(r) /\ Head(pc) = "fillDays"
      <4>1. PICK rows : InsertDays(r, rows) BY <2>5, Zenon DEF AutoGenerateFill
      <4>2. Finish(r) \/ Refuse(r) BY <4>1, Zenon DEF InsertDays
      <4>3. \E op : Due(r, op, "fillDays") BY <2>5, Zenon DEF AutoGenerateFill
      <4>4. Head(pc) = "fillDays" BY <4>3 DEF Due
      <4>5. ~Refuse(r) BY <2>5
      <4> HIDE DEF pc
      <4> QED BY <4>2, <4>4, <4>5
    <3>2. Len(pc) = 1 BY <2>0, <3>1, CreatePcFacts
    <3> QED BY <2>0, <2>2, <3>1, <3>2, PlanEnds
  <2> QED BY <2>1, <2>3, <2>4, <2>5
<1> QED BY <1>4, <1>5

\* Whoever takes a trip takes its itineraries, and a trip that is gone does not come back.
LEMMA PlanTrips ==
    ASSUME Framed, Ordered(db), NEW r \in Requests, TripStep(r), TripTables(env, db), OldRows(env, db, db'),
           1 <= db.made.trip
    PROVE  PlanStays(r)
<1>1. Others(r) /\ req'[r].op \notin PlanOps /\ TripWrite(db, db')
  BY TripStepMoves DEF Moved, Others, TripOps, PlanOps
<1>2. /\ TheTrip \in Trips /\ DOMAIN db.trip = Trips
      /\ db'.trip[TheTrip] # NoTrip => db.trip[TheTrip] # NoTrip
  BY StartAssumption DEF TripTables, OldRows, RowMove, TheTrip
<1>3. CASE db'.itin = db.itin BY <1>1, <1>2, <1>3, SamePlan DEF PlanStays, TripWrite
<1>4. CASE PlanGoes(db, db')
  <2>1. PICK x, I : /\ ItinsGo(db, db', I) /\ db'.trip = [db.trip EXCEPT ![x] = NoTrip]
                    /\ I = {} \/ x = TheTrip
    BY <1>4, Zenon DEF PlanGoes
  <2>2. /\ ItinTable(db') /\ Approved(db') \subseteq Approved(db)
        /\ I = {} => \A i \in Itins : db'.itin[i].status = db.itin[i].status
    BY <2>1 DEF ItinsGo, Ordered, ItinTable, Approved, NoItin
  <2>3. x = TheTrip => db'.trip[TheTrip] = NoTrip BY <1>2, <2>1
  <2> QED BY <1>1, <1>2, <2>1, <2>2, <2>3 DEF KeepsPlan, PlanStays, ItinsGo
<1> QED BY <1>1, <1>3, <1>4 DEF TripWrite

LEMMA PlanOthers ==
    ASSUME Framed, Growing, Ordered(db), NEW r \in Requests, ItinRow(db, req[r]),
           \/ ActivityStep(r) \/ ComponentRequest(r) \/ ComponentStep(r) \/ ScheduleStep(r)
           \/ FormStep(r) \/ OrderStep(r) \/ Die(r)
    PROVE  PlanStays(r)
<1>0. Tabled(db) /\ DOMAIN req = Requests /\ Sounds BY DEF Framed, Slotted, Growing
<1>1. CASE ActivityStep(r)
  <2>1. KeepsPlan(db, db')
    BY <1>0, <1>1, ActivityWrites, SamePlan DEF SameItins, PlanWrite, SameTrips
  <2>2. Others(r) BY <1>1, ActivityServes DEF Comes, Works
  <2>3. req'[r].op \notin PlanOps
    <3>1. CASE req[r].op \in PlanOps
      <4>1. ~(VerifyDayExists(r) \/ CreateMaxSeq(r))
        <5>1. Head(req[r].pc) \notin {"day", "maxSeq"}
          <6>1. \/ req[r].pc \in CreatePcs(req[r].v) \/ req[r].pc \in UpdatePcs(req[r].v)
                \/ req[r].pc \in RemovePcs
            BY <3>1 DEF ItinRow, PlanOps
          <6>2. Head(req[r].pc) \in {"count", "archive", "insert", "clearDays", "fillDays", "find",
                                     "approve", "write", "delete"}
            BY <6>1, CreatePcFacts, UpdatePcFacts, RemovePcFacts
          <6> QED BY <6>2
        <5> QED BY <5>1 DEF VerifyDayExists, CreateMaxSeq, Due
      <4> QED
        BY <1>1, <3>1, <4>1, ActivityServes, IdleFacts
           DEF PlanOps, ActivityOps, ComponentOps, GenerateOps, Comes
    <3>2. CASE req[r].op \notin PlanOps
      BY <1>1, <3>2, ActivityServes DEF Comes, Works, Notes, Sees, ActivityOps, PlanOps
    <3> QED BY <3>1, <3>2
  <2> QED BY <2>1, <2>2, <2>3 DEF PlanStays
<1>2. CASE ComponentRequest(r) \/ ComponentStep(r) \/ ScheduleStep(r)
  <2>1. Others(r) /\ req'[r].op \notin PlanOps
    BY <1>2, ComponentRequestServes, ComponentServes, ScheduleServes
       DEF Serves, Comes, Works, ComponentOps, GenerateOps, PlanOps
  <2>2. /\ db'.itin = db.itin /\ db'.made.itin = db.made.itin /\ db'.trip = db.trip
    BY <1>0, <1>2, ComponentRequestServes, ComponentWrites, ScheduleWrites, InsertSegmentsMoves
       DEF Comes, SameItins, PlanWrite, SameTrips
  <2> QED BY <2>1, <2>2, SamePlan DEF PlanStays
<1>3. CASE FormStep(r)
  BY <1>0, <1>3, FormSound, FormKeepsTables, SamePlan DEF PlanStays, SaveOps, PlanOps
<1>4. CASE OrderStep(r)
  BY <1>4, OrderStepMoves, SamePlan DEF PlanStays, Moved, Others, OrderOps, PlanOps, OrderWrite
<1>5. CASE Die(r)
  BY <1>5, DiesMoves, SamePlan DEF Others, PlanStays, PlanOps
<1> QED BY <1>1, <1>2, <1>3, <1>4, <1>5

LEMMA PlannedStep ==
    ASSUME TripBook, Growing, Planned, 1 <= db.made.trip, env.isolated, [Next]_vars
    PROVE  Planned'
<1>0. /\ Framed /\ TripTables(env, db) /\ OldRows(env, db, db') /\ Ordered(db)
      /\ \A r \in Requests : ItinRow(db, req[r])
      /\ \A p, q \in Requests : req[p].op \in PlanOps /\ req[q].op \in PlanOps => p = q
  BY TripBookStep DEF Growing, StepRules, Planned
<1>1. ASSUME NEW r \in Requests, PlanStays(r) PROVE Planned'
  BY <1>0, <1>1, PlanKept DEF PlanStays, ItinRow, PlanOps, Planned, Others
<1>2. ASSUME NEW r \in Requests, PlanGoesOn(r) PROVE Planned'
  BY <1>0, <1>2, IdleFacts DEF PlanGoesOn, Others, PlanOps, ItinRow, Planned
<1>3. CASE req' = req /\ db'.itin = db.itin /\ db'.made = db.made /\ db'.trip = db.trip
  BY <1>0, <1>3, SamePlan, PlanKept DEF Planned
<1>4. CASE vars' = vars \/ FormEffect BY <1>3, <1>4 DEF vars, FormEffect
<1>5. CASE HandlerStep BY <1>0, <1>3, <1>5, HandlerWrites
<1>6. ASSUME NEW r \in Requests, TripStep(r) PROVE Planned' BY <1>0, <1>1, <1>6, PlanTrips
<1>7. ASSUME NEW r \in Requests, Next, ItineraryStep(r) \/ DayStep(r) PROVE Planned'
  BY <1>7, <1>0, <1>1, <1>2, PlanItineraries, PlanDays DEF Next
<1>8. ASSUME NEW r \in Requests,
             \/ ActivityStep(r) \/ ComponentRequest(r) \/ ComponentStep(r) \/ ScheduleStep(r)
             \/ FormStep(r) \/ OrderStep(r) \/ Die(r)
      PROVE  Planned'
  BY <1>0, <1>1, <1>8, PlanOthers
<1> QED BY <1>4, <1>5, <1>6, <1>7, <1>8, Zenon DEF Next

PlanBook == TripBook /\ Growing /\ 1 <= db.made.trip /\ (env.isolated => Planned)

LEMMA InitPlan == ASSUME Init PROVE PlanBook
<1>0. PICK e \in Environments : StartsFrom(e) BY DEF Init
<1>1. /\ req = [r \in Requests |-> Idle] /\ env = e.rules
      /\ db.itin = [i \in Itins |-> Row(e.itins, i, NoItin)] /\ db.made.itin = Len(e.itins)
      /\ db.made.trip = 1
  BY <1>0 DEF StartsFrom
<1>2. /\ e.itins \in Seq([status : {"draft", "approved", "archived"}, selected : BOOLEAN])
      /\ e.rules.isolated => \A i, j \in DOMAIN e.itins :
                e.itins[i].status = "approved" /\ e.itins[j].status = "approved" => i = j
      /\ Len(e.itins) <= MaxItins
  BY StartAssumption, Zenon
<1>3. /\ Len(e.itins) \in Nat /\ DOMAIN e.itins = 1 .. Len(e.itins)
      /\ \A i \in DOMAIN e.itins : /\ DOMAIN e.itins[i] = DOMAIN NoItin
                                   /\ e.itins[i].status \in {"draft", "approved", "archived"}
  <2> DEFINE S == [status : {"draft", "approved", "archived"}, selected : BOOLEAN]
  <2>1. e.itins \in Seq(S) BY <1>2
  <2>2. \A row \in S : DOMAIN row = DOMAIN NoItin /\ row.status \in {"draft", "approved", "archived"}
    BY DEF NoItin
  <2> HIDE DEF S
  <2>3. /\ Len(e.itins) \in Nat /\ DOMAIN e.itins = 1 .. Len(e.itins)
        /\ \A i \in DOMAIN e.itins : e.itins[i] \in S
    BY <2>1, LenProperties
  <2> QED BY <2>2, <2>3
<1>4. ItinTable(db) BY <1>1, <1>3 DEF ItinTable, Row
<1>5. ASSUME env.isolated PROVE \A i, j \in Approved(db) : i = j
  BY <1>1, <1>2, <1>5 DEF Approved, Row, NoItin
<1>6. db.made.itin > 0 => ItinsOf(db) # {}
  <2> SUFFICES ASSUME Len(e.itins) > 0 PROVE 1 \in ItinsOf(db) BY <1>1
  <2>1. 1 \in DOMAIN e.itins /\ 1 \in Itins BY <1>2, <1>3, TripTreeAssumption DEF Itins
  <2> QED BY <1>1, <1>3, <2>1 DEF ItinsOf, Row
<1>7. \A r \in Requests : ItinRow(db, req[r]) /\ req[r].op \notin PlanOps
  BY <1>1, IdleFacts DEF ItinRow, PlanOps
<1>8. env.isolated => Planned BY <1>4, <1>5, <1>6, <1>7 DEF Planned, Ordered
<1> QED BY <1>1, <1>8, InitTrips, InitGrowing DEF PlanBook

\* ItineraryRules: the itineraries read by create, update and remove are those they write about.
THEOREM ItinerariesFollowRules == Spec => []ItineraryRules
<1>1. PlanBook /\ [Next]_vars => PlanBook'
  <2> SUFFICES ASSUME PlanBook, [Next]_vars PROVE PlanBook' OBVIOUS
  <2>1. env' = env BY Zenon DEF Next, vars
  <2>2. TripBook' /\ StepRules BY TripBookStep DEF PlanBook
  <2>3. 1 <= db'.made.trip
    BY <2>2 DEF PlanBook, StepRules, OldRows, TripBook, TripsOk, TripTables
  <2> QED BY <2>1, <2>2, <2>3, GrowingStep, PlannedStep DEF PlanBook
<1>2. PlanBook => ItineraryRules
  <2> SUFFICES ASSUME PlanBook, env.isolated
               PROVE  /\ Cardinality(Approved(db)) <= 1
                      /\ db.made.itin > 0 /\ Existing(TheTrip) => ItinsOf(db) # {}
    BY DEF ItineraryRules, Approved
  <2>1. Ordered(db) BY DEF PlanBook, Planned
  <2>2. Cardinality(Approved(db)) <= 1
    <3>1. CASE Approved(db) = {} BY <3>1, FS_EmptySet
    <3>2. CASE Approved(db) # {}
      <4>0. PICK i : i \in Approved(db) BY <3>2
      <4>1. Approved(db) = {i} BY <2>1, <4>0 DEF Ordered
      <4>2. Cardinality({i}) = 1 BY FS_Singleton
      <4> QED BY <4>1, <4>2
    <3> QED BY <3>1, <3>2
  <2> QED BY <2>1, <2>2 DEF Ordered, Existing
<1> QED BY <1>1, <1>2, InitPlan, PTL DEF Spec

=============================================================================
