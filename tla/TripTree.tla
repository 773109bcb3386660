------------------------------- MODULE TripTree -------------------------------
(***************************************************************************)
(* The trips of a contact, and the tables under one of them: its            *)
(* itineraries, their days, the activities of the days, and the rows that   *)
(* hang on an activity.  The modules of the operations (Trips, Itineraries, *)
(* ItineraryDays, Activities, Components, ...) share these tables and the   *)
(* slots of the requests in progress; an action of theirs is the code       *)
(* between two awaits, so one statement at most.                            *)
(***************************************************************************)
EXTENDS Integers, Sequences, FiniteSets, SequencesExt

CONSTANTS
    Requests,      \* slots for requests in progress
    MaxTrips, MaxOrders, MaxItins, MaxDays, MaxActs,  \* how many rows there may ever be
    MaxDate,       \* dates are 1 .. MaxDate
    Environments   \* what happens around the services and the rows at the start, see env

Trips == 1 .. MaxTrips
Orders == 1 .. MaxOrders
Itins == 1 .. MaxItins
Days == 1 .. MaxDays
Acts == 1 .. MaxActs
Dates == 1 .. MaxDate

TheTrip == 1   \* the trip of the itineraries

\* 0 stands for null: no itinerary, no day, no activity, no date, no contact, no group.
NoTrip == [status |-> "none", date |-> 0, contact |-> 0, archived |-> FALSE, published |-> FALSE,
           token |-> 0, group |-> 0]
NoOrder == [trip |-> 0, version |-> 0, status |-> "none"]
NoItin == [status |-> "none", selected |-> FALSE]
NoDay == [itin |-> 0, number |-> 0, seq |-> 0, date |-> 0]
NoAct == [kind |-> "none", day |-> 0, parent |-> 0, seq |-> 0, booked |-> FALSE]

ASSUME TripTreeAssumption ==
    /\ {MaxTrips, MaxOrders, MaxItins, MaxDays, MaxActs, MaxDate} \subseteq Nat /\ MaxDate # 0
    /\ \A e \in Environments :
        /\ {e.rules.requests, e.rules.faults} \subseteq Nat
        /\ {e.rules.isolated, e.rules.dateIndex} \subseteq BOOLEAN

VARIABLES
    env,     \* rigid: the operations clients use, how many requests they make, whether
             \* requests are isolated (never overlap), how many die, whether the unique
             \* index on the dates of an itinerary's days is there, which columns of a
             \* trip (patches) clients write next to its status and its date
    db,      \* the tables, a record: a statement is one update of it
    req,     \* requests in progress
    form,    \* the forms open in the admin application
    events,  \* the handlers of events that have not ended: they run beside the requests
    left,    \* how many requests clients still make
    faults   \* how many requests or handlers died

vars == <<env, db, req, form, events, left, faults>>

TripStatuses == {"draft", "quoted", "booked", "in_progress", "completed", "cancelled"}

\* made counts the rows ever inserted: an id is not used again.  first is the first booking
\* date of contact 1; a mail is an entry of email_logs with what the provider did.
Tables == [trip : [Trips -> [status : {"none"} \cup TripStatuses, date : 0 .. MaxDate,
                             contact : {0, 1}, archived : BOOLEAN, published : BOOLEAN,
                             token : Nat, group : {0, 1}]],
           first : 0 .. MaxDate, log : SUBSET (STRING \X Trips),
           order : [Orders -> [trip : 0 .. MaxTrips, version : Nat,
                               status : {"none", "draft", "finalized", "sent"}]],
           mail : Seq([order : Orders, log : {"pending", "sent", "failed", "filtered"},
                       accepted : BOOLEAN]),
           itin : [Itins -> [status : {"none", "draft", "approved", "archived"},
                             selected : BOOLEAN]],
           day : [Days -> [itin : 0 .. MaxItins, number : Nat, seq : Int, date : 0 .. MaxDate]],
           act : [Acts -> [kind : STRING, day : 0 .. MaxDays, parent : 0 .. MaxActs,
                           seq : Int, booked : BOOLEAN]],
           details : SUBSET Acts, price : [Acts -> 0 .. 3], segments : [Acts -> SUBSET (Nat \X Nat)],
           package : SUBSET Acts, plan : SUBSET Acts,
           made : [trip : 0 .. MaxTrips, order : 0 .. MaxOrders, token : Nat, itin : 0 .. MaxItins, day : 0 .. MaxDays, act : 0 .. MaxActs]]

Idle == [op |-> "idle", pc |-> <<>>, t |-> 0, o |-> 0, i |-> 0, d |-> 0, a |-> 0, n |-> 0, s |-> 0, v |-> "none",
         flag |-> FALSE, seen |-> {}, by |-> "none"]

-----------------------------------------------------------------------------
(* Rows and cascades                                                         *)

MaxOr(S, default) == IF S = {} THEN default ELSE Max(S)

ItinsOf(t) == {i \in Itins : t.itin[i].status # "none"}
DaysOf(t, i) == {d \in Days : t.day[d].itin = i}
ActsOf(t, d) == {a \in Acts : t.act[a].kind # "none" /\ t.act[a].day = d}
AllActs(t) == {a \in Acts : t.act[a].kind # "none"}
ChildrenOf(t, a) == {b \in AllActs(t) : t.act[b].parent = a}

HighestNumber(t, i) == MaxOr({t.day[d].number : d \in DaysOf(t, i)}, 0)
HighestDaySeq(t, i) == MaxOr({t.day[d].seq : d \in DaysOf(t, i)}, -1)
HighestSeq(t, d) == MaxOr({t.act[a].seq : a \in ActsOf(t, d)}, -1)

\* Fault: the children of a deleted activity stay.
WithoutChildren(t, A) == A

\* The foreign keys cascade: the children of a row that goes, at any depth, go with it.  Those
\* below A are the rows in every set that holds the children of A and of its own rows.
WithChildren(t, A) ==
    A \cup {b \in AllActs(t) :
                \A S \in SUBSET AllActs(t) :
                    (\A a \in A \cup S : ChildrenOf(t, a) \subseteq S) => b \in S}

DropActs(t, A) ==
    LET gone == WithChildren(t, A)
    IN  [t EXCEPT !.act = [a \in Acts |-> IF a \in gone THEN NoAct ELSE @[a]],
                  !.details = @ \ gone, !.package = @ \ gone, !.plan = @ \ gone,
                  !.price = [a \in Acts |-> IF a \in gone THEN 0 ELSE @[a]],
                  !.segments = [a \in Acts |-> IF a \in gone THEN {} ELSE @[a]]]

DropDays(t, D) ==
    [DropActs(t, UNION {ActsOf(t, d) : d \in D}) EXCEPT
        !.day = [d \in Days |-> IF d \in D THEN NoDay ELSE @[d]]]

DropItins(t, I) ==
    [DropDays(t, UNION {DaysOf(t, i) : i \in I}) EXCEPT
        !.itin = [i \in Itins |-> IF i \in I THEN NoItin ELSE @[i]]]
DropItin(t, i) == DropItins(t, {i})

\* The plan, the orders and the log of a trip go with it; email_logs keeps its entries.
DropTrip(t, x) ==
    [DropItins(t, IF x = TheTrip THEN ItinsOf(t) ELSE {}) EXCEPT
        !.trip[x] = NoTrip,
        !.order = [o \in Orders |-> IF @[o].trip = x THEN NoOrder ELSE @[o]],
        !.log = {entry \in @ : entry[2] # x}]

\* Rows are inserted under the next ids, in the order of the sequence.
AddItin(t, row) == [t EXCEPT !.made.itin = @ + 1, !.itin[t.made.itin + 1] = row]

AddDays(t, rows) ==
    [t EXCEPT !.made.day = @ + Cardinality(DOMAIN rows),
              !.day = [d \in Days |-> IF d - t.made.day \in DOMAIN rows
                                        THEN rows[d - t.made.day] ELSE @[d]]]

AddActs(t, rows) ==
    [t EXCEPT !.made.act = @ + Cardinality(DOMAIN rows),
              !.act = [a \in Acts |-> IF a - t.made.act \in DOMAIN rows
                                        THEN rows[a - t.made.act] ELSE @[a]]]

\* The unique index on (itinerary_id, date), where the database has it.
DateTaken(t, i, date) == env.dateIndex /\ date # 0 /\ \E d \in DaysOf(t, i) : t.day[d].date = date

-----------------------------------------------------------------------------
(* Requests: pc is the sequence of the steps that remain.                    *)

Due(r, op, step) == req[r].op = op /\ req[r].pc # <<>> /\ Head(req[r].pc) = step

\* duplicate holds a lock on the row of its day (SELECT ... FOR UPDATE): who writes or deletes
\* the row waits, and who inserts an activity of the day, for the foreign key.
Locked(d) == \E q \in Requests :
    req[q].op = "duplicate" /\ req[q].d = d /\ req[q].pc \in {<<"maxSeq", "copy">>, <<"copy">>}

\* Requests of this kind still come: what Arrive asks of every request, first where the
\* parameters of a request are many.
Expected(op) == left > 0 /\ op \in env.operations

\* A request takes a free slot; when isolated, none other is in progress, nor a handler.
Arrive(r, row) ==
    /\ left > 0 /\ req[r] = Idle /\ row.op \in env.operations
    /\ env.isolated => events = {} /\ \A q \in Requests : req[q] = Idle
    /\ req' = [req EXCEPT ![r] = row]
    /\ left' = left - 1
    /\ UNCHANGED <<db, form, faults>>

\* The request goes on with its row, to the next step or to others.
Go(r, row) == req' = [req EXCEPT ![r] = row] /\ UNCHANGED <<form, left, faults>>
Next1(r) == [req[r] EXCEPT !.pc = Tail(@)]

\* The last step answers the client; a form waits for the answer of its request.
Reply(r, answer) ==
    Go(r, IF req[r].by = "none" THEN Idle
          ELSE [Idle EXCEPT !.op = answer, !.by = req[r].by, !.a = req[r].a])
Finish(r) == IF Len(req[r].pc) = 1 THEN Reply(r, "ok") ELSE Go(r, Next1(r))
Refuse(r) == Reply(r, "failed") /\ UNCHANGED db

\* The process of a request dies; what it wrote stays.
Die(r) ==
    /\ req[r].pc # <<>> /\ faults < env.faults
    /\ faults' = faults + 1
    /\ req' = [req EXCEPT ![r] = IF req[r].by = "none" THEN Idle
                                 ELSE [Idle EXCEPT !.op = "failed", !.by = req[r].by]]
    /\ UNCHANGED <<db, form, left>>

\* seen: the columns a PATCH writes, with their values; what it does not name stays.
Sets(q, column, value) == <<column, value>> \in q.seen
Column(q, column, old) ==
    IF Sets(q, column, 0) THEN 0 ELSE IF Sets(q, column, 1) THEN 1 ELSE old

Quiet == events = {} /\ \A r \in Requests : req[r] = Idle
=============================================================================
