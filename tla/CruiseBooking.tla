------------------------------ MODULE CruiseBooking ------------------------------
(***************************************************************************)
(* Booking sessions of one cruise activity: baskets, holds, the handoff of a *)
(* session to the client, and bookings under an idempotency key               *)
(* (cruise-booking/services/booking.service.ts and booking-session.service.ts).*)
(* The Fusion API is external; an action is the code between two awaits.     *)
(***************************************************************************)
EXTENDS Integers, FiniteSets

CONSTANTS
    Requests,      \* slots for requests in progress
    Keys,          \* idempotency keys the clients generate
    MaxSessions,   \* how many sessions there may ever be
    Environments,  \* what may happen around the service, see env
    NoSession, NoKey, NoRef

Sessions == 1 .. MaxSessions

ASSUME CruiseBookingAssumption ==
    /\ MaxSessions \in Nat
    /\ \A e \in Environments :
        /\ e.operations \subseteq {"add", "proposal", "get", "remove", "cancel", "book"}
        /\ e.cabins \in 0 .. MaxSessions /\ e.faults \in Nat
        /\ {e.isolated, e.lostReplies, e.lapses, e.revokes} \subseteq BOOLEAN
    /\ NoSession \notin Sessions /\ NoKey \notin Keys /\ NoRef \notin Sessions \X Keys

\* The "agent" is the user who made the session, the "client" a traveller of the trip.
Users == {"agent", "client"}
Statuses == {"active", "expired", "completed", "cancelled"}
Refs == Sessions \X Keys

VARIABLES
    env,       \* rigid: the operations clients use, whether requests are isolated (never
               \* overlap), how many cabins are put in a basket, how many requests die
               \* (faults), whether Fusion may book and the answer be lost (lostReplies),
               \* whether sessions and holds lapse, and whether users lose and regain access to
               \* the trip, or the activity is deleted (revokes)
    session,   \* rows of cruise_booking_sessions, by the cabin they hold
    adds,      \* how many cabins were put in a basket
    basket,    \* Fusion: the cabins in a basket
    trip,      \* whether it is quoted or accepted (open), the users verifyActivityOwnership
               \* admits, and whether the activity is there
    record,    \* rows of cruise_booking_idempotency
    booked,    \* Fusion: the bookings made, a booking is its reference
    details,   \* fusion_booking_ref of custom_cruise_details
    posts,     \* how often a booking was submitted under each key
    refused,   \* history: the bookings completeSession refused to complete
    req,       \* requests in progress
    faults     \* how many requests died

vars == <<env, session, adds, basket, trip, record, booked, details, posts, refused, req, faults>>

\* A row that is not there yet has the status "none".
NoRow == [status |-> "none", item |-> FALSE, hold |-> "none", lapsed |-> FALSE, handoff |-> FALSE]
NoRecord == [status |-> "none", ref |-> NoRef]
Idle == [op |-> "idle", pc |-> "idle", s |-> NoSession, k |-> NoKey, user |-> "agent",
         seen |-> NoRow, other |-> NoSession, ref |-> NoRef]

Init ==
    /\ env \in Environments
    /\ session = [s \in Sessions |-> NoRow] /\ adds = 0
    /\ basket = {} /\ trip = [open |-> TRUE, users |-> Users, activity |-> TRUE]
    /\ record = [k \in Keys |-> NoRecord]
    /\ booked = {} /\ details = NoRef /\ refused = {}
    /\ posts = [k \in Keys |-> 0]
    /\ req = [r \in Requests |-> Idle]
    /\ faults = 0

At(r, op, pc) == req[r].op = op /\ req[r].pc = pc
Goto(r, pc) == req' = [req EXCEPT ![r].pc = pc]
Done(r) == req' = [req EXCEPT ![r] = Idle]

\* verifyActivityOwnership.
Admits(u) == trip.activity /\ u \in trip.users

\* The unique partial index allows one active row.
Active == {s \in Sessions : session[s].status = "active"}

\* A request takes a free slot; when isolated, none other is in progress.
Arrive(r, op, pc, s, k, user) ==
    /\ op \in env.operations /\ req[r] = Idle
    /\ env.isolated => \A q \in Requests : req[q] = Idle
    /\ req' = [req EXCEPT ![r] = [Idle EXCEPT !.op = op, !.pc = pc, !.s = s, !.k = k,
                                             !.user = user]]
    /\ UNCHANGED <<session, adds, basket, trip, record, booked, details, posts, refused, faults>>

-----------------------------------------------------------------------------
(* addToBasket and createSession                                             *)

\* Fusion puts the cabin on hold, or refuses; s is the session to be created.
AddHold(r) ==
    /\ At(r, "add", "hold")
    /\ \/ /\ adds < env.cabins
          /\ adds' = adds + 1
          /\ basket' = basket \cup {adds'}
          /\ req' = [req EXCEPT ![r].s = adds', ![r].pc = "verify"]
       \/ Done(r) /\ UNCHANGED <<adds, basket>>
    /\ UNCHANGED <<session, trip, record, booked, details, posts, refused, faults>>

\* createSession asks who may, now that the cabin is on hold.
AddVerify(r) ==
    /\ At(r, "add", "verify")
    /\ \/ Admits(req[r].user) /\ Goto(r, "lookup")
       \/ ~Admits(req[r].user) /\ Done(r)
    /\ UNCHANGED <<session, adds, basket, trip, record, booked, details, posts, refused, faults>>

AddLookup(r) ==
    /\ At(r, "add", "lookup")
    /\ \/ (trip.activity => Active = {}) /\ Goto(r, "insert")
       \/ trip.activity /\ \E s \in Active : req' = [req EXCEPT ![r].pc = "supersede", ![r].other = s]
    /\ UNCHANGED <<session, adds, basket, trip, record, booked, details, posts, refused, faults>>

\* The row read before is cancelled, whatever it has become, or is not found.
AddSupersede(r) ==
    /\ At(r, "add", "supersede")
    /\ \/ /\ trip.activity
          /\ session' = [session EXCEPT ![req[r].other].status = "cancelled"]
          /\ req' = [req EXCEPT ![r].pc = "insert", ![r].other = NoSession]
       \/ ~trip.activity /\ Done(r) /\ UNCHANGED session
    /\ UNCHANGED <<adds, basket, trip, record, booked, details, posts, refused, faults>>

AddInsert(r) ==
    /\ At(r, "add", "insert")
    /\ \/ /\ trip.activity /\ Active = {}
          /\ \E handoff \in BOOLEAN :
                session' = [session EXCEPT ![req[r].s] = [NoRow EXCEPT !.status = "active",
                                                                     !.handoff = handoff]]
          /\ Goto(r, "basket")
       \/ ~(trip.activity /\ Active = {}) /\ Done(r) /\ UNCHANGED session
    /\ UNCHANGED <<adds, basket, trip, record, booked, details, posts, refused, faults>>

\* The answer of Fusion may come without a release time.
AddBasket(r) ==
    /\ At(r, "add", "basket")
    /\ \E hold \in {"held", "none"} :
        session' = [session EXCEPT ![req[r].s].item = TRUE, ![req[r].s].hold = hold]
    /\ Done(r)
    /\ UNCHANGED <<adds, basket, trip, record, booked, details, posts, refused, faults>>

-----------------------------------------------------------------------------
(* validateSessionOwnership and canHandoffSession                            *)

\* Fault: a session that is over passes as well.
ValidateAnyStatus(r) ==
    LET row == session[req[r].s]
    IN  /\ req[r].pc = "validate"
        /\ \/ row.lapsed /\ Goto(r, "expire")
           \/ ~row.lapsed /\ req' = [req EXCEPT ![r].seen = row, ![r].pc = "act"]
        /\ UNCHANGED <<session, adds, basket, trip, record, booked, details, posts, refused, faults>>

\* The row is read once, and what follows uses what was read.  It must be there and active;
\* it must not have lapsed; and only a client to whom it was handed may use it
\* besides the agent who made it.
Validate(r) ==
    LET row == session[req[r].s]
        To(pc) == req' = [req EXCEPT ![r].seen = row, ![r].pc = pc]
    IN  /\ req[r].pc = "validate"
        /\ \/ ~(trip.activity /\ row.status = "active") /\ Done(r)
           \/ trip.activity /\ row.status = "active" /\ row.lapsed /\ Goto(r, "expire")
           \/ /\ trip.activity /\ row.status = "active" /\ ~row.lapsed
              /\ \/ req[r].user = "agent" /\ To("act")
                 \/ req[r].user = "client" /\ row.handoff /\ To("find")
                 \/ req[r].user = "client" /\ ~row.handoff /\ Done(r)
        /\ UNCHANGED <<session, adds, basket, trip, record, booked, details, posts, refused, faults>>

\* A row found lapsed is marked so, whatever it has become.
ValidateExpire(r) ==
    /\ req[r].pc = "expire"
    /\ session' = [session EXCEPT ![req[r].s].status = "expired"]
    /\ Done(r)
    /\ UNCHANGED <<adds, basket, trip, record, booked, details, posts, refused, faults>>

\* canHandoffSession: the active session of the activity ...
HandoffFind(r) ==
    /\ req[r].pc = "find"
    /\ \/ /\ trip.activity
          /\ \E s \in Active : ~session[s].lapsed /\ req' = [req EXCEPT ![r].pc = "trip", ![r].other = s]
       \/ (trip.activity => \A s \in Active : session[s].lapsed) /\ Done(r)
    /\ UNCHANGED <<session, adds, basket, trip, record, booked, details, posts, refused, faults>>

\* ... and the trip, whose client it is handed to.
HandoffTrip(r) ==
    /\ req[r].pc = "trip"
    /\ \/ trip.open /\ Admits("client") /\ Goto(r, "mark")
       \/ ~(trip.open /\ Admits("client")) /\ Done(r)
    /\ UNCHANGED <<session, adds, basket, trip, record, booked, details, posts, refused, faults>>

HandoffMark(r) ==
    /\ req[r].pc = "mark"
    /\ session' = [session EXCEPT ![req[r].other].handoff = TRUE]
    /\ req' = [req EXCEPT ![r] = IF req[r].op = "proposal" THEN Idle
                                 ELSE [@ EXCEPT !.pc = "act", !.other = NoSession]]
    /\ UNCHANGED <<adds, basket, trip, record, booked, details, posts, refused, faults>>

-----------------------------------------------------------------------------
(* getBasket, removeFromBasket and cancelSession                             *)

GetExtend(r) ==
    /\ At(r, "get", "act")
    /\ session' = [session EXCEPT ![req[r].s].lapsed = FALSE]
    /\ Done(r)
    /\ UNCHANGED <<adds, basket, trip, record, booked, details, posts, refused, faults>>

\* The item leaves the basket at Fusion.  The update of the row that follows sets
\* its columns to undefined, which the query builder leaves out: nothing changes.
RemoveItem(r) ==
    /\ At(r, "remove", "act")
    /\ basket' \in {basket, basket \ {req[r].s}}
    /\ Done(r)
    /\ UNCHANGED <<session, adds, trip, record, booked, details, posts, refused, faults>>

\* The release is best effort, and only for the item that was read.
CancelRelease(r) ==
    /\ At(r, "cancel", "act")
    /\ basket' \in {basket, IF req[r].seen.item THEN basket \ {req[r].s} ELSE basket}
    /\ Goto(r, "update")
    /\ UNCHANGED <<session, adds, trip, record, booked, details, posts, refused, faults>>

CancelWrite(r) ==
    /\ At(r, "cancel", "update")
    /\ session' = [session EXCEPT ![req[r].s].status = "cancelled"]
    /\ Done(r)
    /\ UNCHANGED <<adds, basket, trip, record, booked, details, posts, refused, faults>>

-----------------------------------------------------------------------------
(* completeBooking                                                           *)

\* A recorded success is answered again; the session is not looked at.
BookLookup(r) ==
    LET k == record[req[r].k]
    IN  /\ At(r, "book", "lookup")
        /\ \/ trip.activity /\ k.status = "success" /\ k.ref # NoRef /\ Done(r)
           \/ ~(trip.activity /\ k.status = "success" /\ k.ref # NoRef) /\ Goto(r, "validate")
        /\ UNCHANGED <<session, adds, basket, trip, record, booked, details, posts, refused, faults>>

\* Fault: a key that is there already does not stop the booking.
BookReserveAgain(r) ==
    /\ At(r, "book", "act")
    /\ \/ req[r].seen.hold # "held" /\ Done(r) /\ UNCHANGED record
       \/ /\ req[r].seen.hold = "held"
          /\ record' = [record EXCEPT ![req[r].k] = [NoRecord EXCEPT !.status = "pending"]]
          /\ Goto(r, "post")
    /\ UNCHANGED <<session, adds, basket, trip, booked, details, posts, refused, faults>>

\* The hold is the one that was read; the activity must be there and the key new.
BookReserve(r) ==
    /\ At(r, "book", "act")
    /\ \/ ~(req[r].seen.hold = "held" /\ trip.activity) /\ Done(r) /\ UNCHANGED record
       \/ /\ req[r].seen.hold = "held" /\ trip.activity /\ record[req[r].k].status # "none"
          /\ Goto(r, "conflict") /\ UNCHANGED record
       \/ /\ req[r].seen.hold = "held" /\ trip.activity /\ record[req[r].k].status = "none"
          /\ record' = [record EXCEPT ![req[r].k] = [NoRecord EXCEPT !.status = "pending"]]
          /\ Goto(r, "post")
    /\ UNCHANGED <<session, adds, basket, trip, booked, details, posts, refused, faults>>

\* 409: "Another booking request is in progress. Please wait and retry."
BookConflict(r) ==
    /\ At(r, "book", "conflict") /\ Done(r)
    /\ UNCHANGED <<session, adds, basket, trip, record, booked, details, posts, refused, faults>>

\* Fusion books what is in the basket, or refuses; its answer may be lost.
BookPost(r) ==
    LET ref == <<req[r].s, req[r].k>>
    IN  /\ At(r, "book", "post")
        /\ posts' = [posts EXCEPT ![req[r].k] = @ + 1]
        /\ \/ /\ req[r].s \in basket
              /\ booked' = booked \cup {ref}
              /\ \/ req' = [req EXCEPT ![r].pc = "success", ![r].ref = ref]
                 \/ env.lostReplies /\ Goto(r, "failure")
           \/ Goto(r, "failure") /\ UNCHANGED booked
        /\ UNCHANGED <<session, adds, basket, trip, record, details, refused, faults>>

BookFailure(r) ==
    /\ At(r, "book", "failure")
    /\ record' = [record EXCEPT ![req[r].k] = [NoRecord EXCEPT !.status = "failed"]]
    /\ Done(r)
    /\ UNCHANGED <<session, adds, basket, trip, booked, details, posts, refused, faults>>

BookSuccess(r) ==
    /\ At(r, "book", "success")
    /\ record' = [record EXCEPT ![req[r].k] = [status |-> "success", ref |-> req[r].ref]]
    /\ Goto(r, "complete")
    /\ UNCHANGED <<session, adds, basket, trip, booked, details, posts, refused, faults>>

\* 404 or 403: the booking is made, and nothing of the session or the activity tells of it.
Refuse(r) == refused' = refused \cup {req[r].ref} /\ Done(r)

\* completeSession looks for the session again and asks again who may, after Fusion booked.
CompleteVerify(r) ==
    /\ At(r, "book", "complete")
    /\ \/ Admits(req[r].user) /\ Goto(r, "finish") /\ UNCHANGED refused
       \/ ~Admits(req[r].user) /\ Refuse(r)
    /\ UNCHANGED <<session, adds, basket, trip, record, booked, details, posts, faults>>

\* Fault: the session stays active after a booking.
CompleteOpen(r) ==
    /\ At(r, "book", "finish")
    /\ Goto(r, "copy")
    /\ UNCHANGED <<session, adds, basket, trip, record, booked, details, posts, refused, faults>>

\* The session is completed, whatever it has become, unless it is not found any more.
CompleteSession(r) ==
    /\ At(r, "book", "finish")
    /\ \/ /\ trip.activity
          /\ session' = [session EXCEPT ![req[r].s].status = "completed"]
          /\ Goto(r, "copy") /\ UNCHANGED refused
       \/ ~trip.activity /\ Refuse(r) /\ UNCHANGED session
    /\ UNCHANGED <<adds, basket, trip, record, booked, details, posts, faults>>

\* Fault: the reference is not copied to the activity.
CopyNothing(r) ==
    /\ At(r, "book", "copy")
    /\ Done(r)
    /\ UNCHANGED <<session, adds, basket, trip, record, booked, details, posts, refused, faults>>

CopyReference(r) ==
    /\ At(r, "book", "copy")
    /\ details' = req[r].ref
    /\ Done(r)
    /\ UNCHANGED <<session, adds, basket, trip, record, booked, posts, refused, faults>>

-----------------------------------------------------------------------------
(* Time, the trip and failures                                               *)

SessionLapses(s) ==
    /\ env.lapses /\ session[s].status # "none" /\ ~session[s].lapsed
    /\ session' = [session EXCEPT ![s].lapsed = TRUE]
    /\ UNCHANGED <<adds, basket, trip, record, booked, details, posts, refused, req, faults>>

\* The hold of a cabin runs out, here and at Fusion.
HoldLapses(s) ==
    /\ env.lapses /\ session[s].hold = "held"
    /\ session' = [session EXCEPT ![s].hold = "past"]
    /\ basket' = basket \ {s}
    /\ UNCHANGED <<adds, trip, record, booked, details, posts, refused, req, faults>>

TripMoves ==
    /\ "proposal" \in env.operations
    /\ trip' = [trip EXCEPT !.open = ~@]
    /\ UNCHANGED <<session, adds, basket, record, booked, details, posts, refused, req, faults>>

\* A user joins or leaves the trip or its agency.
AccessChanges(u) ==
    /\ env.revokes
    /\ \/ trip' = [trip EXCEPT !.users = @ \cup {u}]
       \/ trip' = [trip EXCEPT !.users = @ \ {u}]
    /\ UNCHANGED <<session, adds, basket, record, booked, details, posts, refused, req, faults>>

\* The activity is deleted, and its sessions, records and details go with it: what they
\* were is left in session, record and details, where no statement finds it any more.
ActivityDeleted ==
    /\ env.revokes
    /\ trip' = [trip EXCEPT !.activity = FALSE]
    /\ UNCHANGED <<session, adds, basket, record, booked, details, posts, refused, req, faults>>

\* A query or a call fails, or the process ends: nothing more of it happens.
Die(r) ==
    /\ faults < env.faults /\ req[r] # Idle
    /\ faults' = faults + 1
    /\ Done(r)
    /\ UNCHANGED <<session, adds, basket, trip, record, booked, details, posts, refused>>

Retry(r, k) ==
    \E s \in 1 .. adds, u \in Users :
        session[s].status # "none" /\ Arrive(r, "book", "lookup", s, k, u)

Arrives(r) ==
    \/ Arrive(r, "add", "hold", NoSession, NoKey, "agent")
    \/ Arrive(r, "proposal", "find", NoSession, NoKey, "client")
    \/ \E s \in 1 .. adds, u \in Users, op \in {"get", "remove", "cancel"} :
        session[s].status # "none" /\ Arrive(r, op, "validate", s, NoKey, u)
    \/ \E k \in Keys : Retry(r, k)

Book(r) ==
    \/ BookLookup(r) \/ BookReserve(r) \/ BookConflict(r) \/ BookPost(r)
    \/ BookFailure(r) \/ BookSuccess(r)
    \/ CompleteVerify(r) \/ CompleteSession(r) \/ CopyReference(r)

Step(r) ==
    \/ AddHold(r) \/ AddVerify(r) \/ AddLookup(r) \/ AddSupersede(r) \/ AddInsert(r) \/ AddBasket(r)
    \/ Validate(r) \/ ValidateExpire(r)
    \/ HandoffFind(r) \/ HandoffTrip(r) \/ HandoffMark(r)
    \/ GetExtend(r) \/ RemoveItem(r) \/ CancelRelease(r) \/ CancelWrite(r)
    \/ Book(r)

Next ==
    /\ \/ \E r \in Requests : Arrives(r) \/ Die(r) \/ Step(r)
       \/ \E s \in Sessions : SessionLapses(s) \/ HoldLapses(s)
       \/ TripMoves \/ ActivityDeleted
       \/ \E u \in Users : AccessChanges(u)
    /\ UNCHANGED env

Spec == Init /\ [][Next]_vars

\* Requests go on, and every key is used again and again.
FairSpec ==
    /\ Spec
    /\ \A r \in Requests : WF_vars(Step(r) /\ UNCHANGED env)
    /\ \A k \in Keys : SF_vars((\E r \in Requests : Retry(r, k)) /\ UNCHANGED env)

-----------------------------------------------------------------------------
(* Properties                                                                *)

Rows == [status : Statuses \cup {"none"}, item : BOOLEAN, hold : {"none", "held", "past"},
         lapsed : BOOLEAN, handoff : BOOLEAN]
Trips == [open : BOOLEAN, users : SUBSET Users, activity : BOOLEAN]

TypeOK ==
    /\ session \in [Sessions -> Rows] /\ adds \in 0 .. MaxSessions
    /\ basket \subseteq Sessions /\ trip \in Trips
    /\ record \in [Keys -> [status : {"none", "pending", "success", "failed"},
                            ref : Refs \cup {NoRef}]]
    /\ booked \subseteq Refs /\ refused \subseteq booked /\ details \in Refs \cup {NoRef}
    /\ posts \in [Keys -> Nat]
    /\ Cardinality(Active) <= 1
    /\ \A r \in Requests :
        /\ req[r].s \in Sessions \cup {NoSession} /\ req[r].k \in Keys \cup {NoKey}
        /\ req[r].seen \in Rows /\ req[r].other \in Sessions \cup {NoSession}
        /\ req[r].ref \in booked \cup {NoRef}
    /\ faults \in 0 .. env.faults

Quiet == \A r \in Requests : req[r] = Idle

\* However requests overlap, die and are repeated, one booking at most is submitted
\* under an idempotency key ("Uses idempotency key to prevent double-bookings on
\* retry", completeBooking).
OneSubmissionPerKey == \A k \in Keys : posts[k] <= 1

\* A recorded success is a booking made under that very key, and the reference the
\* activity keeps is a booking that was made and recorded.
RecordsTruthful ==
    /\ \A k \in Keys : record[k].status = "success" => record[k].ref \in booked \cap (Sessions \X {k})
    /\ details # NoRef => \E k \in Keys : record[k].ref = details

\* What holds in every environment: one active session at most, one submission per key, and
\* records of bookings that were made.
BookingSafe == TypeOK /\ OneSubmissionPerKey /\ RecordsTruthful

\* Answers of Fusion come, and requests are carried out to their end.
Reliable == ~env.lostReplies /\ env.faults = 0

\* Without lost answers and dead requests, and as long as the activity is there, no booking
\* is forgotten: it is recorded under its key, and the activity refers to a booking, unless
\* the completion of all that were made was refused.
BookingsRecorded ==
    (Quiet /\ Reliable /\ trip.activity) =>
        /\ \A ref \in booked : record[ref[2]].ref = ref
        /\ booked # refused => details \in booked

\* Requests that neither overlap nor die, with no answer lost, book a session once, whatever
\* keys they use, leaving aside the bookings whose completion was refused.
OneBookingPerSession ==
    (env.isolated /\ Reliable) =>
        \A s \in Sessions : Cardinality({ref \in booked \ refused : ref[1] = s}) <= 1

\* Without lost answers and dead requests, and as long as the activity is there, a booking
\* is in the activity's details ("Complete session and store booking reference",
\* completeBooking): false when completeSession refuses a user who lost access.
BookingStored ==
    (Quiet /\ Reliable /\ trip.activity /\ booked # {}) => details \in booked

\* While requests do not overlap, a session that is no longer active stays what it
\* is (Status Transitions in docs/CRUISE_ARCHITECTURE.md).
FollowsLifecycle ==
    [][env.isolated => \A s \in Sessions :
            session[s].status \in Statuses \ {"active"}
                => session'[s].status = session[s].status]_vars

\* A row that tells of a hold has its cabin in the basket ("Update hold_expires_at,
\* basket_item_key if basket changes", docs/CRUISE_ARCHITECTURE.md).
HoldIsReal ==
    Quiet => \A s \in Active : session[s].hold = "held" => s \in basket

\* A booking refused because one under its key is in progress has one in progress
\* (completeBooking, "Unique constraint violation means another request is processing").
ConflictMeansInProgress ==
    [][\A r \in Requests : ~At(r, "book", "conflict") /\ At(r, "book", "conflict")'
            => \E q \in Requests \ {r} : req[q].op = "book" /\ req[q].k = req[r].k]_vars

\* A booking made at Fusion is at last the activity's reference ("Copy booking
\* reference to custom_cruise_details (durable storage)", completeSession).
BookingBecomesDurable == \A ref \in Refs : ref \in booked ~> details # NoRef

\* A session that lapsed does not stay active ("Expire stale sessions (called by
\* cron job)", expireStaleSessions).
StaleSessionsExpire ==
    \A s \in Sessions : session[s].status = "active" /\ session[s].lapsed
                         ~> session[s].status # "active" \/ ~session[s].lapsed
=============================================================================
