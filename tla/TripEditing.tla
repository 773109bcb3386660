------------------------------ MODULE TripEditing ------------------------------
(* The services that edit a trip together, and a form of the admin application  *)
(* in front of them: several requests at a time, each a sequence of statements. *)
EXTENDS Itineraries, ActivityForms, TripOrders

Row(rows, k, none) == IF k \in DOMAIN rows THEN rows[k] ELSE none

\* The instance has the trip of the itineraries.  The rows an environment starts with fit the
\* instance, and refer to rows before them; where requests do not overlap, none did before.
ASSUME StartAssumption ==
    /\ TheTrip \in Trips
    /\ \A e \in Environments :
        /\ e.itins \in Seq([status : {"draft", "approved", "archived"}, selected : BOOLEAN])
        /\ e.days \in Seq([itin : 1 .. Len(e.itins), number : Nat, seq : Int, date : 0 .. MaxDate])
        /\ e.acts \in Seq([kind : STRING \ {"none"}, day : 0 .. Len(e.days), parent : Nat,
                             seq : Int, booked : BOOLEAN])
        /\ \A a \in DOMAIN e.acts : e.acts[a].parent < a
        /\ e.rules.isolated => \A i, j \in DOMAIN e.itins :
                e.itins[i].status = "approved" /\ e.itins[j].status = "approved" => i = j
        /\ Len(e.itins) <= MaxItins /\ Len(e.days) <= MaxDays /\ Len(e.acts) <= MaxActs

\* A trip of the contact, that was logged; activities are whole, a flight has its segments.
StartsFrom(e) ==
    LET acts == 1 .. Len(e.acts)
        OfKind(kinds) == {a \in acts : e.acts[a].kind \in kinds}
    IN  /\ env = e.rules
        /\ db = [trip |-> [t \in Trips |-> IF t = TheTrip
                              THEN [NoTrip EXCEPT !.status = "draft", !.contact = 1] ELSE NoTrip],
                 first |-> 0, log |-> {<<"trip.created", TheTrip>>},
                 order |-> [o \in Orders |-> NoOrder], mail |-> <<>>,
                 itin |-> [i \in Itins |-> Row(e.itins, i, NoItin)],
                 day |-> [d \in Days |-> Row(e.days, d, NoDay)],
                 act |-> [a \in Acts |-> Row(e.acts, a, NoAct)],
                 details |-> acts \ OfKind({"tour", "package"}),
                 price |-> [a \in Acts |-> IF a \in acts THEN 1 ELSE 0],
                 segments |-> [a \in Acts |-> IF a \in OfKind({"flight"})
                                                THEN SegmentsOf(0) ELSE {}],
                 package |-> OfKind({"package"}), plan |-> OfKind({"package"}),
                 made |-> [trip |-> 1, order |-> 0, token |-> 0, itin |-> Len(e.itins),
                           day |-> Len(e.days), act |-> Len(e.acts)]]
        /\ req = [r \in Requests |-> Idle]
        /\ form = [NoForm EXCEPT !.kind = e.form] /\ events = {}
        /\ left = e.rules.requests /\ faults = 0

Init == \E e \in Environments : StartsFrom(e)

ItineraryStep(r) ==
    \/ CreateItinerary(r) \/ CreateItineraryCount(r) \/ CreateItineraryArchive(r)
    \/ CreateItineraryInsert(r) \/ ListSelected(r) \/ ListSelectedRead(r) \/ ListAllRead(r)
    \/ UpdateItinerary(r) \/ UpdateItineraryFind(r) \/ UpdateItineraryArchive(r)
    \/ UpdateItineraryApprove(r) \/ UpdateItineraryWrite(r) \/ SelectItinerary(r)
    \/ SelectItineraryDeselect(r) \/ SelectItineraryWrite(r) \/ RemoveItinerary(r)
    \/ ItineraryFind(r) \/ RemoveItineraryCount(r) \/ RemoveItineraryDelete(r)

DayStep(r) ==
    \/ CreateDay(r) \/ CreateDayDuplicate(r) \/ CreateDayMaxSeq(r) \/ CreateDayInsert(r)
    \/ UpdateDay(r) \/ UpdateDayFind(r) \/ UpdateDayConflict(r) \/ UpdateDayWrite(r)
    \/ RemoveDay(r) \/ RemoveDayFind(r) \/ RemoveDayDelete(r) \/ RemoveDaySelect(r)
    \/ RemoveDayRow(r) \/ ReorderDays(r) \/ ReorderDaysVerify(r) \/ ReorderDaysRow(r)
    \/ AutoGenerate(r) \/ AutoGenerateClear(r) \/ AutoGenerateFill(r)
    \/ BatchCreate(r) \/ BatchCreateRead(r) \/ BatchCreateEnd(r) \/ BatchCreateStart(r)
    \/ FindOrCreateByDate(r) \/ DayByDateFind(r) \/ DayByDatePosition(r) \/ DayByDateInsert(r)

ActivityStep(r) ==
    \/ CreateActivity(r) \/ VerifyDayExists(r) \/ CreateMaxSeq(r) \/ CreateInsert(r)
    \/ CreatePrice(r) \/ CreatePackageDetails(r) \/ CreateScheduleConfig(r)
    \/ UpdateActivity(r) \/ UpdateActivityFind(r) \/ PackageGuard(r) \/ UpdateActivityWrite(r)
    \/ UpdateActivityPrice(r) \/ BookActivity(r) \/ RemoveActivity(r) \/ ActivityFind(r)
    \/ RemoveActivityDelete(r) \/ ReorderActivities(r) \/ ReorderActivitiesVerify(r)
    \/ ReorderActivitiesRow(r) \/ MoveActivity(r) \/ MoveActivityFind(r) \/ MoveActivityWrite(r)
    \/ DuplicateActivity(r) \/ DuplicateFind(r) \/ DuplicateLock(r) \/ DuplicateCopy(r)
    \/ LinkChildren(r) \/ LinkChildrenPackage(r) \/ LinkChildrenRead(r)
    \/ ValidateNoParentCycle(r) \/ LinkChildrenWrite(r) \/ UnlinkChildren(r)
    \/ UnlinkChildrenWrite(r)

ComponentRequest(r) ==
    \/ CreateFlight(r) \/ UpdateFlight(r) \/ DeleteFlight(r)
    \/ CreateLodging(r) \/ UpdateLodging(r) \/ DeleteLodging(r)
    \/ CreateTransportation(r) \/ UpdateTransportation(r) \/ DeleteTransportation(r)
    \/ CreateDining(r) \/ UpdateDining(r) \/ DeleteDining(r)
    \/ CreateOptions(r) \/ UpdateOptions(r) \/ DeleteOptions(r)
    \/ CreateCustomCruise(r) \/ UpdateCustomCruise(r) \/ DeleteCustomCruise(r)
    \/ CreateCustomTour(r) \/ UpdateCustomTour(r) \/ DeleteCustomTour(r)
    \/ CreatePortInfo(r) \/ UpdatePortInfo(r) \/ DeletePortInfo(r)
    \/ CreateTourDay(r) \/ UpdateTourDay(r) \/ DeleteTourDay(r)
    \/ CreatePortEntriesFromCruise(r)

ComponentStep(r) ==
    \/ WriteBase(r) \/ InsertDetails(r) \/ InsertBadDetails(r) \/ FindDetailsRow(r)
    \/ WriteDetails(r) \/ UpsertDetails(r) \/ ClearSegments(r) \/ InsertSegments(r)
    \/ SetPrice(r) \/ FindPriceRow(r) \/ WritePrice(r)

ScheduleStep(r) ==
    \/ GeneratePorts(r) \/ GenerateValidate(r) \/ GenerateHasChildren(r) \/ GenerateBounds(r)
    \/ GenerateDelete(r) \/ GenerateDates(r) \/ MaxOfDays(r) \/ InsertDateRange(r)
    \/ ReadDateRange(r) \/ InsertPorts(r) \/ InsertPortDetails(r)
    \/ GenerateTour(r) \/ TourChildren(r) \/ TourDeleteEach(r) \/ TourMissing(r) \/ TourNext(r)

FormStep(r) ==
    \/ FlightAutosave(r) \/ FlightSave(r) \/ DiningAutosave(r) \/ DiningSave(r)
    \/ OptionsAutosave(r) \/ OptionsSave(r) \/ TourAutosave(r) \/ TourSave(r)
    \/ PortInfoAutosave(r) \/ PortInfoSave(r) \/ PackageAutosave(r) \/ PackageSave(r)
    \/ CustomCruiseAutosave(r) \/ CustomCruiseSave(r) \/ LodgingAutosave(r) \/ LodgingSave(r)
    \/ TransportationAutosave(r) \/ TransportationSave(r)
    \/ SaveAndGeneratePorts(r) \/ SaveAnswered(r) \/ PortsAfterSave(r)

TripStep(r) ==
    \/ CreateTrip(r) \/ CreateTripInsert(r) \/ UpdateTrip(r) \/ UpdateTripFind(r)
    \/ UpdateTripWrite(r) \/ UpdateTripGroup(r) \/ RemoveTrip(r) \/ RemoveTripFind(r)
    \/ RemoveTripDelete(r) \/ BulkDelete(r) \/ BulkArchive(r) \/ BulkChangeStatus(r)
    \/ BulkRead(r) \/ BulkDeleteEach(r) \/ BulkArchiveEach(r) \/ BulkChangeStatusEach(r)
    \/ BulkEnd(r) \/ PublishTrip(r) \/ PublishTripFind(r) \/ PublishTripWrite(r)
    \/ UnpublishTrip(r) \/ UnpublishTripWrite(r)

OrderStep(r) ==
    \/ GenerateTripOrderSnapshot(r) \/ GenerateReadTrip(r) \/ GenerateNextVersion(r)
    \/ GenerateInsert(r) \/ FinalizeTripOrder(r) \/ FinalizeFind(r) \/ FinalizeWrite(r)
    \/ SendTripOrder(r) \/ SendGet(r) \/ SendPrepare(r) \/ SendEmailLog(r)
    \/ SendEmailFiltered(r) \/ ProviderSend(r) \/ SendEmailMark(r) \/ MarkSentFind(r)
    \/ MarkSentWrite(r)

\* The bounds of an instance: no step inserts a row beyond them.
InBounds == db.made.itin <= MaxItins /\ db.made.day <= MaxDays /\ db.made.act <= MaxActs

\* Only trips emit events that a handler hears.
Next ==
    /\ \/ \E r \in Requests : TripStep(r)
       \/ HandlerStep
       \/ /\ \/ \E r \in Requests :
                   \/ ItineraryStep(r) \/ DayStep(r) \/ ActivityStep(r) \/ OrderStep(r)
                   \/ ComponentRequest(r) \/ ComponentStep(r) \/ ScheduleStep(r)
                   \/ FormStep(r) \/ Die(r)
             \/ FormEffect
          /\ UNCHANGED events
    /\ UNCHANGED env
    /\ InBounds'

Spec == Init /\ [][Next]_vars

-----------------------------------------------------------------------------
(* Properties                                                                *)

TypeOK ==
    /\ db \in Tables
    /\ \A a \in AllActs(db) : db.act[a].day = 0 \/ db.day[db.act[a].day] # NoDay
    /\ \A a \in AllActs(db) : db.act[a].parent = 0 \/ db.act[a].parent \in AllActs(db)
    /\ db.details \cup db.package \cup db.plan \subseteq AllActs(db)
    /\ \A r \in Requests : DOMAIN req[r] = DOMAIN Idle
    /\ Existing(TheTrip) \/ ItinsOf(db) = {}
    /\ \A o \in Orders : OrderExists(o) => Existing(db.order[o].trip)
    /\ form.id \in 0 .. MaxActs
    /\ left \in 0 .. env.requests /\ faults \in 0 .. env.faults

\* Requests that do not overlap keep the itineraries of the trip in order, whatever dies in
\* between: one at most is approved (create and update archive the others in a statement of its
\* own, before they approve), and a trip that has an itinerary keeps one (remove counts first).
ItineraryRules ==
    env.isolated =>
        /\ Cardinality({i \in Itins : db.itin[i].status = "approved"}) <= 1
        /\ db.made.itin > 0 /\ Existing(TheTrip) => ItinsOf(db) # {}

\* After requests that do not overlap, none of which died, the days of an itinerary have
\* distinct numbers: days are appended, put in front, moved and removed with renumbering, by
\* the operations that number with the rows in view.
DayNumbers ==
    env.isolated /\ env.numbered /\ Quiet /\ faults = 0 =>
        \A d, e \in Days : d # e /\ db.day[d].itin = db.day[e].itin /\ db.day[d].itin # 0
                             => db.day[d].number # db.day[e].number

\* However saves of one flight overlap or break off, its segments never mix two of them: each
\* save deletes and inserts them in two statements, and the second insert of two is refused.
SegmentsOfOneSave ==
    \A a \in Acts : Cardinality({w[2] : w \in db.segments[a]}) <= 1

\* An update that sends everything completes what an interrupted create left: after its last
\* statement the activity, if it is still there, has details and a price row.
Updated(r) ==
    /\ req[r].op = "updateComponent" /\ req[r].pc = <<"writePrice">> /\ req'[r].pc = <<>>
    /\ db'.act[req[r].a].kind # "none" /\ faults' = faults
UpdateCompletes(r) == Updated(r) => req[r].a \in db'.details /\ db'.price[req[r].a] # 0

\* A generation that ends leaves exactly one entry with details, on the one day, for every
\* date of the cruise or tour: also after generations that were refused or died half way, as
\* long as requests do not overlap and the index on the dates is there.
Generated(r) ==
    \/ req[r].op = "generatePorts" /\ req[r].pc = <<"portDetails">> /\ db' # db
    \/ req[r].op = "generateTour" /\ req[r].pc = <<"tourNext">> /\ req'[r] = Idle /\ faults' = faults
GeneratedFor(r) == IF req[r].op = "generateTour" THEN req[r].s ELSE req[r].a
EntriesOn(a, date) == {c \in ChildrenOf(db', a) : db'.day[db'.act[c].day].date = date}
ScheduleWhole(r) ==
    env.isolated /\ env.dateIndex /\ Generated(r) =>
        \A date \in Dates :
            /\ Cardinality(EntriesOn(GeneratedFor(r), date)) = 1
            /\ EntriesOn(GeneratedFor(r), date) \subseteq db'.details
            /\ Cardinality({d \in DaysOf(db', req[r].i) : db'.day[d].date = date}) = 1

\* A request about components or schedules that reaches its end made up for those that did
\* not (component-orchestration): a repeated update or generation leaves everything whole.
RepeatsMakeWhole == [][\A r \in Requests : UpdateCompletes(r) /\ ScheduleWhole(r)]_vars

\* Links that do not overlap never close a cycle of parents, also where create nests packages
\* ("Validate no cycles in parent hierarchy", linkChildrenToPackage).
NoParentCycle ==
    env.isolated => \A a \in AllActs(db) : a \notin WithChildren(db, ChildrenOf(db, a))

\* Where copies are made, nobody places activities in another way, and those of the start have
\* positions of their own: createActivity and move read the highest position without the lock,
\* and a client may send a position with any create, move or update.
Placing == {"createActivity", "createComponent", "updateActivity", "updateComponent", "move",
            "reorderActivities", "generatePorts", "generateTour"}
CopiesAlone ==
    \A e \in Environments : e.rules.copies =>
        /\ e.rules.operations \cap Placing = {} /\ e.form = "none"
        /\ \A a, b \in DOMAIN e.acts :
                a # b /\ e.acts[a].day = e.acts[b].day => e.acts[a].seq # e.acts[b].seq

\* Copies made at the same time get positions of their own: duplicate reads the highest
\* position and inserts under a lock on the day.
CopiesInOrder ==
    env.copies => \A a, b \in AllActs(db) :
        a # b /\ db.act[a].day = db.act[b].day => db.act[a].seq # db.act[b].seq

\* While a form is open on a new activity nobody else edits, and no request of it dies: the form
\* would not hear of an activity that was created, and create another.
FormsAlone ==
    \A e \in Environments : e.form # "none" =>
        e.rules.operations = {} /\ e.rules.faults = 0 /\ e.acts = <<>>

\* A form makes one activity, however its timer and its button alternate: true of every form
\* that only saves by itself, and of the transportation form, whose button waits.
OneActivityPerForm ==
    form.kind = "transportation" \/ (form.kind # "none" /\ ~env.manual)
        => Cardinality(AllActs(db)) <= 1

\* Whatever requests overlap, the status of a trip follows the workflow: the trigger checks what
\* a service read too early, and who books a trip dates it.  When requests do not overlap, only
\* drafts and quotes are removed ("Only trips with status 'draft' or 'quoted' can be deleted",
\* TripsService.remove), the link of a published trip is good as long as the trip is published,
\* and the first booking date of a contact stays.
TripRules ==
    [][/\ \A t \in Trips :
            LET from == db.trip[t].status
                to == db'.trip[t].status
            IN  /\ from # "none" /\ to \notin {"none", from} => to \in TRIP_STATUS_TRANSITIONS[from]
                /\ to = "booked" /\ from # "booked" => db'.trip[t].date # 0
       /\ env.isolated =>
            /\ \A t \in Trips : Existing(t) =>
                /\ db'.trip[t] = NoTrip => db.trip[t].status \in {"draft", "quoted"}
                /\ db.trip[t].published /\ db.trip[t].token # 0 /\ db'.trip[t].published
                       => db'.trip[t].token = db.trip[t].token
            /\ db.first # 0 => db'.first = db.first]_vars

\* A booked trip has its date, however requests overlap (update and bulkChangeStatus set it with
\* the status), where no client sends a null for it.  When all is done and nothing died, every
\* trip is in the log, and the contact of a booked trip has a first booking date where no client
\* changes the contact of a trip (the event is of the booking only), though handlers run beside
\* the requests.
BookingRecorded ==
    /\ "date" \notin env.patches =>
        \A t \in Trips : db.trip[t].status = "booked" => db.trip[t].date # 0
    /\ Quiet /\ faults = 0 =>
        \A t \in Trips : Existing(t) =>
            /\ <<"trip.created", t>> \in db.log
            /\ "contact" \notin env.patches /\ db.trip[t].status = "booked" /\ db.trip[t].contact # 0
                => db.first # 0

\* Whatever overlaps or fails, the orders of a trip have distinct versions, an order is marked
\* as sent only after the provider took a mail with it, an order that went out is no draft any
\* more, and the log calls sent only what the provider took.  When requests do not overlap and
\* nothing failed, an order that went out is marked as sent.
OrdersTruthful ==
    /\ \A o, p \in Orders : o # p /\ OrderExists(o) /\ db.order[o].trip = db.order[p].trip
            => db.order[o].version # db.order[p].version
    /\ \A o \in Orders :
        LET went == \E m \in DOMAIN db.mail : db.mail[m].order = o /\ db.mail[m].accepted
        IN  /\ db.order[o].status = "sent" => went
            /\ went => db.order[o].status # "draft"
            /\ went /\ env.isolated /\ Quiet /\ faults = 0 => db.order[o].status \in {"none", "sent"}
    /\ \A m \in DOMAIN db.mail :
        db.mail[m].log = "sent" => db.mail[m].accepted

\* "Only trips with status 'draft' or 'quoted' can be deleted" (trips.service.ts:465).
OnlyDraftsRemoved ==
    [][\A t \in Trips : Existing(t) /\ db'.trip[t] = NoTrip
                            => db.trip[t].status \in {"draft", "quoted"}]_vars

\* A change of the group of a trip is in its log when all is done ("Wildcard pattern 'audit.*'
\* catches: audit.created, audit.updated, audit.deleted, audit.status_changed",
\* activity-logs.service.ts:249).
GroupChangesLogged ==
    Quiet /\ faults = 0 =>
        \A t \in Trips : db.trip[t].group # 0 => <<"audit.moved_to_group", t>> \in db.log

\* Deleting a package leaves the activities linked to it ("Linked activities will be unlinked
\* but not deleted", packages-list.tsx:786).
DeletedPackageKeepsChildren ==
    [][\A p, a \in Acts :
        db.act[p].kind = "package" /\ db.act[a].parent = p /\ db'.act[p].kind = "none"
            => db'.act[a].kind # "none"]_vars
=============================================================================
