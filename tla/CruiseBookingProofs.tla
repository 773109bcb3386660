-------------------------- MODULE CruiseBookingProofs --------------------------
(***************************************************************************)
(* Theorems about CruiseBooking, for any number of requests, keys and         *)
(* sessions and in every environment: what the idempotency key and the unique *)
(* index of active sessions guarantee however requests overlap, die and are   *)
(* repeated, and what holds only while requests do not overlap.               *)
(***************************************************************************)
EXTENDS CruiseBooking, FiniteSetTheorems, TLAPS

Operations == {"add", "proposal", "get", "remove", "cancel", "book"}
Points == {"idle", "hold", "lookup", "supersede", "insert", "basket", "validate", "expire", "find",
           "trip", "mark", "act", "update", "conflict", "post", "failure", "success", "complete",
           "finish", "copy", "verify"}

Request == [op : Operations \cup {"idle"}, pc : Points,
            s : Sessions \cup {NoSession}, k : Keys \cup {NoKey}, user : Users, seen : Rows,
            other : Sessions \cup {NoSession}, ref : Refs \cup {NoRef}]

KeyRecord == [status : {"none", "pending", "success", "failed"}, ref : Refs \cup {NoRef}]

\* A booking Fusion made, until the activity has its reference.
Storing(q) == q.op = "book" /\ q.pc \in {"success", "complete", "finish", "copy"}

\* What a request knows at each of its points, with n cabins added and these bookings made.
Knows(q, n, made) ==
    /\ q.op = "idle" => q = Idle
    /\ q.op = "add" => q.pc \in {"hold", "verify", "lookup", "supersede", "insert", "basket"}
    /\ q.op = "proposal" => q.pc \in {"find", "trip", "mark"}
    /\ q.op = "add" /\ q.pc # "hold" => q.s \in 1 .. n
    /\ q.op \in {"get", "remove", "cancel", "book"} => q.s \in 1 .. n
    /\ q.op = "book" => q.k \in Keys
    /\ q.pc \in {"supersede", "trip", "mark"} => q.other \in 1 .. n
    /\ q.ref \in made \cup {NoRef}
    /\ Storing(q) => q.ref = <<q.s, q.k>> /\ q.ref \in made

Typed ==
    /\ env \in Environments
    /\ session \in [Sessions -> Rows] /\ adds \in 0 .. MaxSessions
    /\ basket \subseteq Sessions /\ trip \in Trips
    /\ record \in [Keys -> KeyRecord]
    /\ booked \subseteq Refs /\ refused \subseteq booked /\ details \in Refs \cup {NoRef}
    /\ posts \in [Keys -> Nat]
    /\ req \in [Requests -> Request]
    /\ faults \in 0 .. env.faults
    /\ \A r \in Requests : Knows(req[r], adds, booked)
    /\ \A s \in Sessions : s > adds => session[s].status = "none"
    /\ \A s, t \in Active : s = t

\* The request that reserved a key, until it has recorded how it went.
Holds(q) == q.op = "book" /\ q.pc \in {"post", "failure", "success"}

\* The request that recorded a success, until its booking is completed or refused.
Recorded(q) == q.op = "book" /\ q.pc \in {"complete", "finish", "copy"}

\* A key is reserved by one request, once, and nobody writes its record but that request.
Keyed ==
    /\ \A r \in Requests : Holds(req[r]) => record[req[r].k].status = "pending"
    /\ \A q, r \in Requests : Holds(req[q]) /\ Holds(req[r]) /\ req[q].k = req[r].k => q = r
    /\ \A r \in Requests : At(r, "book", "post") => posts[req[r].k] = 0
    /\ \A k \in Keys : record[k].status = "none" => posts[k] = 0
    /\ \A k \in Keys : record[k].status # "success" => record[k].ref = NoRef
    /\ \A r \in Requests : Recorded(req[r])
            => record[req[r].k].ref = req[r].ref
    /\ OneSubmissionPerKey
    /\ RecordsTruthful

\* A booking that is not recorded, or not copied yet, is in the hands of a request.
Kept ==
    Reliable =>
        /\ \A ref \in booked :
            record[ref[2]].ref = ref \/ \E r \in Requests : At(r, "book", "success") /\ req[r].ref = ref
        /\ \A ref \in booked \ refused :
            details \in booked \/ \E r \in Requests : Storing(req[r]) /\ req[r].ref = ref

\* What a request read of the session it is about is still so in these rows.
Current(q, rows) ==
    /\ q.op = "add" /\ q.pc \in {"verify", "lookup", "supersede", "insert"} => rows[q.s].status = "none"
    /\ q.op = "add" /\ q.pc = "supersede" => rows[q.other].status = "active"
    /\ q.op \in {"get", "remove", "cancel", "book"} /\ q.pc \notin {"lookup", "validate", "copy"}
            => rows[q.s].status = "active"

Alone ==
    env.isolated =>
        /\ \A q, r \in Requests : req[q] # Idle /\ req[r] # Idle => q = r
        /\ \A r \in Requests : Current(req[r], session)

\* A session that was booked is completed, unless its request is about to do so, or was refused.
Single ==
    env.isolated /\ Reliable =>
        /\ \A ref \in booked \ refused :
            \/ session[ref[1]].status = "completed"
            \/ \E r \in Requests : Storing(req[r]) /\ req[r].pc # "copy" /\ req[r].ref = ref
        /\ \A a, b \in booked \ refused : a[1] = b[1] => a = b

IInv == Typed /\ Keyed /\ Kept /\ Alone /\ Single

LEMMA InitIInv == Init => IInv
<1> SUFFICES ASSUME Init PROVE IInv
  OBVIOUS
<1>a. env \in Environments /\ env.faults \in Nat /\ MaxSessions \in Nat
  BY CruiseBookingAssumption DEF Init
<1>1. Typed
  <2>1. /\ session \in [Sessions -> Rows] /\ adds \in 0 .. MaxSessions
        /\ record \in [Keys -> KeyRecord] /\ posts \in [Keys -> Nat] /\ faults \in 0 .. env.faults
    BY <1>a DEF Init, NoRow, Rows, Statuses, NoRecord, KeyRecord
  <2>2. Idle \in Request /\ Knows(Idle, adds, booked)
    BY DEF Idle, Request, Operations, Points, Users, NoRow, Rows, Statuses, Knows, Storing
  <2>3. Active = {}
    BY DEF Init, Active, NoRow
  <2> QED
    BY <1>a, <2>1, <2>2, <2>3 DEF Init, Typed, NoRow, Trips
<1>2. Keyed
  BY DEF Init, Keyed, Holds, Recorded, Idle, At, NoRecord, OneSubmissionPerKey, RecordsTruthful
<1>3. Kept /\ Single
  BY DEF Init, Kept, Single
<1>4. Alone
  BY DEF Init, Alone, Current, Idle
<1> QED
  BY <1>1, <1>2, <1>3, <1>4 DEF IInv

-----------------------------------------------------------------------------
(* What every step needs                                                     *)

\* The types of what a request, and the session it is about, are.
LEMMA Facts ==
    ASSUME IInv
    PROVE  /\ env.faults \in Nat /\ MaxSessions \in Nat /\ adds \in Nat
           /\ 1 .. adds \subseteq Sessions /\ NoRef \notin Refs
           /\ \A r \in Requests : req[r] \in Request /\ Knows(req[r], adds, booked)
           /\ \A s \in Sessions : session[s] \in Rows
           /\ Active \subseteq 1 .. adds
<1>1. /\ env.faults \in Nat /\ MaxSessions \in Nat /\ adds \in Nat /\ NoRef \notin Refs
      /\ 1 .. adds \subseteq Sessions
  BY CruiseBookingAssumption DEF IInv, Typed, Sessions, Refs
<1>2. Active \subseteq 1 .. adds
  <2> SUFFICES ASSUME NEW s \in Active PROVE s \in 1 .. adds
    OBVIOUS
  <2>1. s \in Sessions /\ session[s].status # "none"
    BY DEF Active
  <2> QED
    BY <1>1, <2>1 DEF IInv, Typed, Sessions
<1> QED
  BY <1>1, <1>2 DEF IInv, Typed

\* A request that is not about a booking steps, or one that is completes its session.
LEMMA OtherStep ==
    ASSUME IInv, NEW r \in Requests, NEW w \in Request, req' = [req EXCEPT ![r] = w],
           UNCHANGED <<env, record, booked, details, posts, refused>>,
           session' \in [Sessions -> Rows], adds' \in adds .. MaxSessions,
           basket' \subseteq Sessions, trip' \in Trips, faults' \in 0 .. env.faults,
           req[r] = Idle => UNCHANGED session,
           Knows(w, adds', booked), ~Holds(w),
           Storing(w) => Recorded(req[r]) /\ Recorded(w) /\ w.k = req[r].k /\ w.ref = req[r].ref,
           Storing(req[r]) /\ env.faults = 0
               => Storing(w) /\ (w.pc # "copy" \/ session'[req[r].s].status = "completed"),
           \A s \in Sessions : s > adds' => session'[s].status = "none",
           \A s, t \in Sessions : session'[s].status = "active" /\ session'[t].status = "active"
               => s = t,
           env.isolated => \A s \in Sessions : session[s].status \in Statuses \ {"active"}
               => session'[s].status = session[s].status,
           env.isolated => Current(w, session')
                           /\ (w = Idle \/ \A q \in Requests \ {r} : req[q] = Idle)
    PROVE  IInv'
<1> USE DEF IInv
<1>r. /\ \A q \in Requests \ {r} : req'[q] = req[q]
      /\ req'[r] = w /\ req' \in [Requests -> Request] /\ req[r] \in Request
  BY DEF Typed
<1>1. Typed'
  <2>1. \A q \in Requests : Knows(req'[q], adds', booked)
    <3>1. ASSUME NEW q \in Requests \ {r} PROVE Knows(req'[q], adds', booked)
      <4>1. 1 .. adds \subseteq 1 .. adds'
        BY Facts
      <4>2. Knows(req[q], adds, booked) /\ req'[q] = req[q]
        BY <1>r, Facts
      <4> QED
        BY <4>1, <4>2 DEF Knows
    <3> QED
      BY <3>1, <1>r
  <2>2. adds' \in 0 .. MaxSessions
    BY Facts
  <2>3. \A s, t \in Active' : s = t
    BY DEF Active
  <2> QED
    BY <1>r, <2>1, <2>2, <2>3 DEF Typed
<1>2. Keyed'
  <2>1. \A q \in Requests : Holds(req'[q]) => q # r /\ Holds(req[q]) /\ req'[q] = req[q]
    BY <1>r
  <2>2. \A q \in Requests : At(q, "book", "post")' => Holds(req'[q])
    BY DEF At, Holds
  <2>3. \A q \in Requests : Recorded(req'[q]) =>
            /\ Recorded(req[q])
            /\ req'[q].k = req[q].k /\ req'[q].ref = req[q].ref
    BY <1>r DEF Recorded, Storing
  <2>4. OneSubmissionPerKey' /\ RecordsTruthful'
    BY DEF Keyed, OneSubmissionPerKey, RecordsTruthful
  <2>5. /\ \A q \in Requests : Holds(req'[q]) => record[req'[q].k].status = "pending"
        /\ \A q \in Requests : At(q, "book", "post")' => posts[req'[q].k] = 0
    BY <2>1, <2>2 DEF Keyed, At
  <2>6. \A p, q \in Requests : Holds(req'[p]) /\ Holds(req'[q]) /\ req'[p].k = req'[q].k => p = q
    BY <2>1 DEF Keyed
  <2>7. \A q \in Requests : Recorded(req'[q])
            => record[req'[q].k].ref = req'[q].ref
    BY <2>3 DEF Keyed
  <2>8. \A k \in Keys : /\ record'[k].status = "none" => posts'[k] = 0
                        /\ record'[k].status # "success" => record'[k].ref = NoRef
    BY DEF Keyed
  <2> QED
    BY <2>4, <2>5, <2>6, <2>7, <2>8 DEF Keyed, At
<1>3. Kept'
  <2> SUFFICES ASSUME Reliable
               PROVE  /\ \A ref \in booked : record[ref[2]].ref = ref
                            \/ \E q \in Requests : At(q, "book", "success")' /\ req'[q].ref = ref
                      /\ \A ref \in booked \ refused : details \in booked
                            \/ \E q \in Requests : Storing(req'[q]) /\ req'[q].ref = ref
    BY DEF Kept, Reliable
  <2>1. ASSUME NEW q \in Requests, Storing(req[q]) PROVE Storing(req'[q]) /\ req'[q].ref = req[q].ref
    BY <2>1, <1>r DEF Reliable
  <2>2. ASSUME NEW q \in Requests, At(q, "book", "success")
        PROVE  At(q, "book", "success")' /\ req'[q].ref = req[q].ref
    <3>1. q # r
      BY <2>2 DEF At, Storing, Recorded, Reliable
    <3> QED
      BY <3>1, <2>2, <1>r DEF At
  <2> QED
    BY <2>1, <2>2 DEF Kept
<1>4. Alone'
  <2> SUFFICES ASSUME env.isolated
               PROVE  /\ \A p, q \in Requests : req'[p] # Idle /\ req'[q] # Idle => p = q
                      /\ \A q \in Requests : Current(req'[q], session')
    BY DEF Alone
  <2>1. ASSUME NEW p \in Requests, NEW q \in Requests, req'[p] # Idle, req'[q] # Idle PROVE p = q
    BY <2>1, <1>r DEF Alone
  <2>2. ASSUME NEW q \in Requests \ {r} PROVE Current(req'[q], session')
    <3>1. CASE req[q] = Idle
      BY <3>1, <1>r DEF Current, Idle
    <3>2. CASE req[q] # Idle
      <4>1. req[r] = Idle
        BY <3>2 DEF Alone
      <4> QED
        BY <4>1, <1>r DEF Alone
    <3> QED
      BY <3>1, <3>2
  <2> QED
    BY <2>1, <2>2, <1>r
<1>5. Single'
  <2> SUFFICES ASSUME env.isolated, Reliable, NEW ref \in booked \ refused
               PROVE  \/ session'[ref[1]].status = "completed"
                      \/ \E q \in Requests : Storing(req'[q]) /\ req'[q].pc # "copy" /\ req'[q].ref = ref
    BY DEF Single, Reliable
  <2>1. ref[1] \in Sessions
    BY DEF Typed, Refs
  <2>2. CASE session[ref[1]].status = "completed"
    BY <2>1, <2>2 DEF Statuses
  <2>3. ASSUME NEW q \in Requests, Storing(req[q]), req[q].pc # "copy", req[q].ref = ref
        PROVE  \/ session'[ref[1]].status = "completed"
               \/ Storing(req'[q]) /\ req'[q].pc # "copy" /\ req'[q].ref = ref
    <3>1. CASE q # r
      BY <3>1, <2>3, <1>r
    <3>2. CASE q = r
      <4>1. ref = <<req[q].s, req[q].k>>
        BY <2>3, Facts DEF Knows
      <4> QED
        BY <4>1, <3>2, <2>3 DEF Reliable
    <3> QED
      BY <3>1, <3>2
  <2> QED
    BY <2>2, <2>3 DEF Single
<1> QED
  BY <1>1, <1>2, <1>3, <1>4, <1>5

\* A step that changes no session.
LEMMA WaitStep ==
    ASSUME IInv, NEW r \in Requests, NEW w \in Request, req' = [req EXCEPT ![r] = w],
           UNCHANGED <<env, session, adds, record, booked, details, posts, refused>>,
           basket' \subseteq Sessions, trip' \in Trips, faults' \in 0 .. env.faults,
           Knows(w, adds, booked), ~Holds(w), ~Storing(w),
           Storing(req[r]) => env.faults # 0,
           env.isolated => Current(w, session)
                /\ (w = Idle \/ req[r] # Idle \/ \A q \in Requests : req[q] = Idle)
    PROVE  IInv'
<1>1. session' \in [Sessions -> Rows] /\ adds' \in adds .. MaxSessions
  BY Facts DEF IInv, Typed
<1>2. \A s \in Sessions : s > adds' => session'[s].status = "none"
  BY DEF IInv, Typed
<1>3. \A s, t \in Sessions : session'[s].status = "active" /\ session'[t].status = "active" => s = t
  BY DEF IInv, Typed, Active
<1>4. env.isolated => w = Idle \/ \A q \in Requests \ {r} : req[q] = Idle
  BY DEF IInv, Alone
<1> QED
  BY <1>1, <1>2, <1>3, <1>4, OtherStep

LEMMA IdleFacts ==
    /\ Idle \in Request /\ ~Holds(Idle) /\ ~Storing(Idle)
    /\ \A n, made, rows : Knows(Idle, n, made) /\ Current(Idle, rows)
BY DEF Idle, Request, Operations, Points, Users, NoRow, Rows, Statuses, Knows, Storing, Holds, Current

\* A request that is answered, or that dies, before it made a booking.
LEMMA DoneStep ==
    ASSUME IInv, NEW r \in Requests, Done(r),
           UNCHANGED <<env, session, adds, record, booked, details, posts, refused>>,
           basket' \subseteq Sessions, trip' \in Trips, faults' \in 0 .. env.faults,
           Storing(req[r]) => env.faults # 0
    PROVE  IInv'
BY IdleFacts, WaitStep DEF Done

LEMMA GotoFacts ==
    ASSUME NEW q \in Request, NEW pc \in Points
    PROVE  LET w == [q EXCEPT !.pc = pc]
           IN  /\ w \in Request /\ w.pc = pc /\ w.op = q.op /\ w.s = q.s /\ w.k = q.k
               /\ w.ref = q.ref /\ w.other = q.other
BY DEF Request

LEMMA ArriveStep ==
    ASSUME IInv, NEW r \in Requests, NEW op \in Operations, NEW pc \in Points,
           NEW s \in Sessions \cup {NoSession}, NEW k \in Keys \cup {NoKey}, NEW user \in Users,
           Arrive(r, op, pc, s, k, user), UNCHANGED env,
           <<op, pc>> \in {<<"add", "hold">>, <<"proposal", "find">>}
               \/ /\ op \in {"get", "remove", "cancel", "book"} /\ pc \in {"lookup", "validate"} /\ s \in 1 .. adds
                  /\ op = "book" => k \in Keys
    PROVE  IInv'
<1> DEFINE w == [Idle EXCEPT !.op = op, !.pc = pc, !.s = s, !.k = k, !.user = user]
<1>1. /\ req' = [req EXCEPT ![r] = w] /\ w \in Request
      /\ w.op = op /\ w.pc = pc /\ w.s = s /\ w.k = k /\ w.ref = NoRef /\ op # "idle"
  BY DEF Arrive, Idle, Request, Operations, NoRow, Rows, Statuses
<1> HIDE DEF w
<1>2. Knows(w, adds, booked)
  BY <1>1 DEF Knows, Storing, Operations
<1>5. ~Holds(w) /\ ~Storing(w) /\ Current(w, session)
  BY <1>1 DEF Holds, Storing, Current
<1>3. ~Storing(req[r]) /\ (env.isolated => \A q \in Requests : req[q] = Idle)
  BY DEF Arrive, Storing, Idle
<1>4. basket' \subseteq Sessions /\ trip' \in Trips /\ faults' \in 0 .. env.faults
  BY DEF Arrive, IInv, Typed
<1> QED
  BY <1>1, <1>2, <1>3, <1>4, <1>5, WaitStep DEF Arrive

LEMMA ArrivesStep == ASSUME IInv, NEW r \in Requests, Arrives(r), UNCHANGED env PROVE IInv'
<1>1. CASE Arrive(r, "add", "hold", NoSession, NoKey, "agent")
  BY <1>1, ArriveStep DEF Operations, Points, Users
<1>2. CASE Arrive(r, "proposal", "find", NoSession, NoKey, "client")
  BY <1>2, ArriveStep DEF Operations, Points, Users
<1>3. ASSUME NEW s \in 1 .. adds, NEW u \in Users, NEW op \in {"get", "remove", "cancel"},
             Arrive(r, op, "validate", s, NoKey, u)
      PROVE  IInv'
  <2>1. s \in Sessions
    BY Facts
  <2> QED
    BY <1>3, <2>1, ArriveStep DEF Operations, Points
<1>4. ASSUME NEW k \in Keys, NEW s \in 1 .. adds, NEW u \in Users,
             Arrive(r, "book", "lookup", s, k, u)
      PROVE  IInv'
  <2>1. s \in Sessions
    BY Facts
  <2> QED
    BY <1>4, <2>1, ArriveStep DEF Operations, Points
<1> QED
  BY <1>1, <1>2, <1>3, <1>4 DEF Arrives, Retry

LEMMA DieStep == ASSUME IInv, NEW r \in Requests, Die(r), UNCHANGED env PROVE IInv'
<1>1. env.faults # 0 /\ faults' \in 0 .. env.faults
  BY Facts DEF Die, IInv, Typed
<1> QED
  BY <1>1, DoneStep DEF Die, IInv, Typed

-----------------------------------------------------------------------------
(* Steps that look, and write nothing but what their request knows            *)

\* What stays as it was when a request only looks.
LEMMA Still ==
    ASSUME IInv, UNCHANGED <<env, basket, trip, faults>>
    PROVE  basket' \subseteq Sessions /\ trip' \in Trips /\ faults' \in 0 .. env.faults
BY DEF IInv, Typed

\* A request goes on to another point, for which it knows enough.
LEMMA GotoStep ==
    ASSUME IInv, NEW r \in Requests, NEW pc \in Points, Goto(r, pc),
           UNCHANGED <<env, session, adds, record, booked, details, posts, refused, trip, faults>>,
           basket' \subseteq Sessions, req[r].op # "idle", req[r].op = "add" => pc \in {"lookup", "insert"},
           req[r].pc # "hold",
           req[r].op = "proposal" => pc = "mark",
           pc \in {"supersede", "trip", "mark"} => req[r].pc \in {"trip"},
           req[r].op = "book" => pc \notin {"post", "failure", "success", "complete", "finish", "copy"},
           ~Storing(req[r]),
           env.isolated => Current([req[r] EXCEPT !.pc = pc], session)
    PROVE  IInv'
<1> DEFINE w == [req[r] EXCEPT !.pc = pc]
<1>1. /\ w \in Request /\ w.pc = pc /\ w.op = req[r].op /\ w.s = req[r].s /\ w.k = req[r].k
      /\ w.ref = req[r].ref /\ w.other = req[r].other
  BY Facts, GotoFacts
<1>2. req' = [req EXCEPT ![r] = w]
  BY DEF Goto, IInv, Typed
<1> HIDE DEF w
<1>3. Knows(w, adds, booked)
  BY <1>1, Facts DEF Knows, Storing
<1>6. ~Holds(w) /\ ~Storing(w)
  BY <1>1 DEF Holds, Storing
<1>4. env.isolated => Current(w, session)
  BY DEF w
<1>5. req[r] # Idle /\ trip' \in Trips /\ faults' \in 0 .. env.faults
  BY DEF Idle, IInv, Typed
<1> QED
  BY <1>1, <1>2, <1>3, <1>4, <1>5, <1>6, WaitStep

LEMMA AddHoldStep == ASSUME IInv, NEW r \in Requests, AddHold(r), UNCHANGED env PROVE IInv'
<1> USE DEF IInv
<1>1. CASE Done(r) /\ UNCHANGED <<adds, basket>>
  BY <1>1, DoneStep, Still DEF AddHold, At, Storing
<1>2. CASE /\ adds < env.cabins /\ adds' = adds + 1 /\ basket' = basket \cup {adds'}
           /\ req' = [req EXCEPT ![r].s = adds', ![r].pc = "verify"]
  <2>1. adds' \in Sessions /\ adds' \in adds .. MaxSessions /\ 1 .. adds' \subseteq Sessions
    BY <1>2, Facts, CruiseBookingAssumption DEF Sessions, Typed
  <2> DEFINE w == [req[r] EXCEPT !.s = adds', !.pc = "verify"]
  <2>2. /\ w \in Request /\ w.s = adds' /\ w.pc = "verify" /\ w.op = "add" /\ w.ref = req[r].ref
        /\ req[r].op = "add"
    BY <2>1, Facts DEF AddHold, At, Request, Points
  <2>3. req' = [req EXCEPT ![r] = w]
    BY <1>2 DEF Typed
  <2> HIDE DEF w
  <2>4. Knows(w, adds', booked) /\ ~Holds(w) /\ ~Storing(w)
    <3>1. adds' \in 1 .. adds' /\ w.ref \in booked \cup {NoRef}
      BY <1>2, <2>2, Facts DEF Knows
    <3> QED
      BY <2>2, <3>1 DEF Knows, Holds, Storing
  <2>5. session[adds'].status = "none"
    BY <1>2, <2>1, Facts DEF Typed
  <2>6. Current(w, session)
    BY <2>2, <2>5 DEF Current
  <2>7. /\ \A s \in Sessions : s > adds' => session[s].status = "none"
        /\ \A s, t \in Sessions : session[s].status = "active" /\ session[t].status = "active" => s = t
    BY <1>2, Facts DEF Typed, Sessions, Active
  <2>8. req[r] # Idle /\ ~Storing(req[r]) /\ (env.isolated => \A q \in Requests \ {r} : req[q] = Idle)
    BY <2>2 DEF Idle, Storing, Alone
  <2>9. /\ session' \in [Sessions -> Rows] /\ basket' \subseteq Sessions /\ trip' \in Trips
        /\ faults' \in 0 .. env.faults /\ session' = session
        /\ UNCHANGED <<env, record, booked, details, posts, refused>>
    BY <1>2, <2>1 DEF AddHold, Typed
  <2> QED
    BY <2>1, <2>2, <2>3, <2>4, <2>6, <2>7, <2>8, <2>9, OtherStep
<1> QED
  BY <1>1, <1>2 DEF AddHold

LEMMA AddVerifyStep == ASSUME IInv, NEW r \in Requests, AddVerify(r), UNCHANGED env PROVE IInv'
<1>o. req[r].op = "add" /\ req[r].pc = "verify" /\ req[r] # Idle /\ ~Storing(req[r])
  BY DEF AddVerify, At, Idle, Storing
<1>1. CASE Goto(r, "lookup")
  <2>1. env.isolated => Current([req[r] EXCEPT !.pc = "lookup"], session)
    BY <1>o, Facts, GotoFacts DEF IInv, Alone, Current, Points
  <2> QED
    BY <1>o, <1>1, <2>1, GotoStep, Still DEF AddVerify, Points
<1>2. CASE Done(r)
  BY <1>o, <1>2, DoneStep, Still DEF AddVerify
<1> QED
  BY <1>1, <1>2 DEF AddVerify

LEMMA AddLookupStep == ASSUME IInv, NEW r \in Requests, AddLookup(r), UNCHANGED env PROVE IInv'
<1>o. req[r].op = "add" /\ req[r].pc = "lookup" /\ req[r] # Idle
  BY DEF AddLookup, At, Idle
<1>1. CASE Goto(r, "insert")
  <2>1. env.isolated => Current([req[r] EXCEPT !.pc = "insert"], session)
    BY <1>o, Facts, GotoFacts DEF IInv, Alone, Current, Points
  <2> QED
    BY <1>o, <1>1, <2>1, GotoStep, Still DEF AddLookup, Storing, Points
<1>2. ASSUME NEW s \in Active, req' = [req EXCEPT ![r].pc = "supersede", ![r].other = s] PROVE IInv'
  <2> DEFINE w == [req[r] EXCEPT !.pc = "supersede", !.other = s]
  <2>1. s \in Sessions /\ s \in 1 .. adds /\ session[s].status = "active"
    BY Facts DEF Active
  <2>2. /\ w \in Request /\ w.op = "add" /\ w.pc = "supersede" /\ w.other = s /\ w.s = req[r].s
        /\ w.ref = req[r].ref
    BY <1>o, <2>1, Facts DEF Request, Points
  <2>3. req' = [req EXCEPT ![r] = w]
    BY <1>2 DEF IInv, Typed
  <2> HIDE DEF w
  <2>4. Knows(w, adds, booked) /\ ~Holds(w) /\ ~Storing(w) /\ ~Storing(req[r])
    BY <1>o, <2>1, <2>2, Facts DEF Knows, Holds, Storing
  <2>5. env.isolated => Current(w, session)
    BY <1>o, <2>1, <2>2 DEF Current, IInv, Alone
  <2> QED
    BY <1>o, <2>2, <2>3, <2>4, <2>5, WaitStep, Still DEF AddLookup
<1> QED
  BY <1>1, <1>2 DEF AddLookup

\* A point after the session was read, for a request that is not about a new cabin.
LEMMA ReadSession ==
    ASSUME IInv, NEW r \in Requests, req[r].pc = "validate"
    PROVE  /\ req[r].op \in {"get", "remove", "cancel", "book"} /\ req[r] # Idle /\ ~Storing(req[r])
           /\ req[r].s \in Sessions
<1>1. req[r] \in Request /\ Knows(req[r], adds, booked) /\ 1 .. adds \subseteq Sessions
  BY Facts
<1> QED
  BY <1>1 DEF Request, Operations, Knows, Idle, Storing

LEMMA ValidateStep == ASSUME IInv, NEW r \in Requests, Validate(r), UNCHANGED env PROVE IInv'
<1>r. /\ req[r].pc = "validate"
      /\ req[r].op \in {"get", "remove", "cancel", "book"} /\ req[r] # Idle /\ ~Storing(req[r])
      /\ req[r].s \in Sessions /\ req[r].op # "idle" /\ req[r].op # "add"
  BY ReadSession DEF Validate
<1> DEFINE row == session[req[r].s]
<1>1. CASE Done(r)
  BY <1>r, <1>1, DoneStep, Still DEF Validate
<1>2. CASE row.status = "active" /\ Goto(r, "expire")
  <2>1. Current([req[r] EXCEPT !.pc = "expire"], session)
    BY <1>r, <1>2, Facts, GotoFacts DEF Current, Points
  <2> QED
    BY <1>r, <1>2, <2>1, GotoStep, Still DEF Validate, Points
<1>3. ASSUME NEW pc \in {"act", "find"}, row.status = "active",
             req' = [req EXCEPT ![r].seen = row, ![r].pc = pc]
      PROVE  IInv'
  <2> DEFINE w == [req[r] EXCEPT !.seen = row, !.pc = pc]
  <2>1. /\ w \in Request /\ w.op = req[r].op /\ w.pc = pc /\ w.s = req[r].s /\ w.k = req[r].k
        /\ w.ref = req[r].ref
    BY <1>r, Facts DEF Request, Points
  <2>2. req' = [req EXCEPT ![r] = w]
    BY <1>3 DEF IInv, Typed
  <2> HIDE DEF w
  <2>3. Knows(w, adds, booked) /\ ~Holds(w) /\ ~Storing(w)
    BY <1>r, <2>1, Facts DEF Knows, Holds, Storing
  <2>4. Current(w, session)
    BY <1>r, <1>3, <2>1 DEF Current
  <2> QED
    BY <1>r, <2>1, <2>2, <2>3, <2>4, WaitStep, Still DEF Validate
<1> QED
  BY <1>1, <1>2, <1>3 DEF Validate

\* A handoff starts from a request that is about one, or from a client's use of a session.
LEMMA HandoffFacts ==
    ASSUME IInv, NEW r \in Requests, req[r].pc \in {"find", "trip", "mark"}
    PROVE  /\ req[r].op \in {"proposal", "get", "remove", "cancel", "book"} /\ req[r] # Idle
           /\ ~Storing(req[r]) /\ ~Holds(req[r])
           /\ req[r].pc \in {"trip", "mark"} => req[r].other \in Sessions
<1>1. req[r] \in Request /\ Knows(req[r], adds, booked) /\ 1 .. adds \subseteq Sessions
  BY Facts
<1> QED
  BY <1>1 DEF Request, Operations, Knows, Idle, Storing, Holds

LEMMA HandoffFindStep == ASSUME IInv, NEW r \in Requests, HandoffFind(r), UNCHANGED env PROVE IInv'
<1>r. /\ req[r].pc = "find" /\ req[r].op \in {"proposal", "get", "remove", "cancel", "book"}
      /\ req[r] # Idle /\ ~Storing(req[r])
  BY HandoffFacts DEF HandoffFind
<1>1. CASE Done(r)
  BY <1>r, <1>1, DoneStep, Still DEF HandoffFind
<1>2. ASSUME NEW s \in Active, req' = [req EXCEPT ![r].pc = "trip", ![r].other = s] PROVE IInv'
  <2> DEFINE w == [req[r] EXCEPT !.pc = "trip", !.other = s]
  <2>1. s \in Sessions /\ s \in 1 .. adds
    BY Facts DEF Active
  <2>2. /\ w \in Request /\ w.op = req[r].op /\ w.pc = "trip" /\ w.other = s /\ w.s = req[r].s
        /\ w.k = req[r].k /\ w.ref = req[r].ref
    BY <1>r, <2>1, Facts DEF Request, Points
  <2>3. req' = [req EXCEPT ![r] = w]
    BY <1>2 DEF IInv, Typed
  <2> HIDE DEF w
  <2>4. Knows(w, adds, booked) /\ ~Holds(w) /\ ~Storing(w)
    BY <1>r, <2>1, <2>2, Facts DEF Knows, Holds, Storing
  <2>5. env.isolated => Current(w, session)
    BY <1>r, <2>2 DEF Current, IInv, Alone
  <2> QED
    BY <1>r, <2>2, <2>3, <2>4, <2>5, WaitStep, Still DEF HandoffFind
<1> QED
  BY <1>1, <1>2 DEF HandoffFind

LEMMA HandoffTripStep == ASSUME IInv, NEW r \in Requests, HandoffTrip(r), UNCHANGED env PROVE IInv'
<1>r. /\ req[r].pc = "trip" /\ req[r].op \in {"proposal", "get", "remove", "cancel", "book"}
      /\ req[r] # Idle /\ ~Storing(req[r])
  BY HandoffFacts DEF HandoffTrip
<1>1. CASE Done(r)
  BY <1>r, <1>1, DoneStep, Still DEF HandoffTrip
<1>2. CASE Goto(r, "mark")
  <2>1. ASSUME env.isolated PROVE Current([req[r] EXCEPT !.pc = "mark"], session)
    <3>1. Current(req[r], session) /\ req[r] \in Request
      BY <2>1, Facts DEF IInv, Alone
    <3>2. LET w == [req[r] EXCEPT !.pc = "mark"]
          IN  w.pc = "mark" /\ w.op = req[r].op /\ w.s = req[r].s
      BY <3>1, GotoFacts DEF Points
    <3> QED
      BY <1>r, <3>1, <3>2 DEF Current
  <2> QED
    BY <1>r, <1>2, <2>1, GotoStep, Still DEF HandoffTrip, Points
<1> QED
  BY <1>1, <1>2 DEF HandoffTrip

LEMMA RemoveItemStep == ASSUME IInv, NEW r \in Requests, RemoveItem(r), UNCHANGED env PROVE IInv'
<1>1. basket' \subseteq Sessions /\ ~Storing(req[r])
  BY DEF RemoveItem, At, Storing, IInv, Typed
<1> QED
  BY <1>1, DoneStep DEF RemoveItem, IInv, Typed

LEMMA CancelReleaseStep == ASSUME IInv, NEW r \in Requests, CancelRelease(r), UNCHANGED env PROVE IInv'
<1>1. basket' \subseteq Sessions /\ req[r].op = "cancel" /\ req[r].pc = "act"
  BY DEF CancelRelease, At, IInv, Typed
<1>2. ASSUME env.isolated PROVE Current([req[r] EXCEPT !.pc = "update"], session)
  <2>1. Current(req[r], session) /\ req[r] \in Request
    BY <1>2, Facts DEF IInv, Alone
  <2>2. LET w == [req[r] EXCEPT !.pc = "update"]
        IN  w.pc = "update" /\ w.op = req[r].op /\ w.s = req[r].s
    BY <2>1, GotoFacts DEF Points
  <2> QED
    BY <1>1, <2>1, <2>2 DEF Current
<1> QED
  BY <1>1, <1>2, GotoStep DEF CancelRelease, Storing, Points

LEMMA BookLookupStep == ASSUME IInv, NEW r \in Requests, BookLookup(r), UNCHANGED env PROVE IInv'
<1>r. req[r].op = "book" /\ req[r].pc = "lookup" /\ ~Storing(req[r])
  BY DEF BookLookup, At, Storing
<1>1. CASE Done(r)
  BY <1>r, <1>1, DoneStep, Still DEF BookLookup
<1>2. CASE Goto(r, "validate")
  <2>1. Current([req[r] EXCEPT !.pc = "validate"], session)
    BY <1>r, Facts, GotoFacts DEF Current, Points
  <2> QED
    BY <1>r, <1>2, <2>1, GotoStep, Still DEF BookLookup, Points
<1> QED
  BY <1>1, <1>2 DEF BookLookup

LEMMA BookConflictStep == ASSUME IInv, NEW r \in Requests, BookConflict(r), UNCHANGED env PROVE IInv'
BY DoneStep, Still DEF BookConflict, At, Storing

-----------------------------------------------------------------------------
(* Steps that write a session                                                *)

\* One row is written, and at most it is then active.
LEMMA Written ==
    ASSUME IInv, NEW s \in 1 .. adds, NEW row \in Rows, session' = [session EXCEPT ![s] = row],
           row.status = "active" => Active \subseteq {s}, UNCHANGED adds
    PROVE  /\ session' \in [Sessions -> Rows] /\ adds' \in adds .. MaxSessions /\ s \in Sessions
           /\ session'[s] = row /\ \A t \in Sessions \ {s} : session'[t] = session[t]
           /\ \A t \in Sessions : t > adds' => session'[t].status = "none"
           /\ \A t, u \in Sessions : session'[t].status = "active" /\ session'[u].status = "active"
                => t = u
<1>1. /\ s \in Sessions /\ session \in [Sessions -> Rows] /\ adds' \in adds .. MaxSessions
      /\ adds \in Nat
  BY Facts DEF IInv, Typed
<1>2. session' \in [Sessions -> Rows] /\ session'[s] = row
      /\ \A t \in Sessions \ {s} : session'[t] = session[t]
  BY <1>1
<1>3. \A t \in Sessions : t > adds' => session'[t].status = "none"
  BY <1>1, <1>2 DEF IInv, Typed, Sessions
<1>4. \A t, u \in Sessions : session'[t].status = "active" /\ session'[u].status = "active" => t = u
  BY <1>1, <1>2 DEF IInv, Typed, Active
<1> QED
  BY <1>1, <1>2, <1>3, <1>4

\* A row whose status is set, or one whose other columns are.
LEMMA RowFacts ==
    ASSUME NEW row \in Rows, NEW status \in Statuses
    PROVE  LET x == [row EXCEPT !.status = status]
           IN  x \in Rows /\ x.status = status
BY DEF Rows

\* A request that has written its session, and is not about to book.
LEMMA WriteStep ==
    ASSUME IInv, NEW r \in Requests, NEW w \in Request, req' = [req EXCEPT ![r] = w],
           UNCHANGED <<env, adds, basket, trip, record, booked, details, posts, refused, faults>>,
           NEW s \in 1 .. adds, NEW row \in Rows, session' = [session EXCEPT ![s] = row],
           row.status = "active" => Active \subseteq {s}, req[r] # Idle,
           Knows(w, adds, booked), ~Holds(w),
           Storing(w) => Recorded(req[r]) /\ Recorded(w) /\ w.k = req[r].k /\ w.ref = req[r].ref,
           Storing(req[r]) => Storing(w) /\ s = req[r].s /\ row.status = "completed",
           env.isolated => session[s].status \in {"none", "active", row.status},
           env.isolated => Current(w, session')
    PROVE  IInv'
<1>1. /\ session' \in [Sessions -> Rows] /\ adds' \in adds .. MaxSessions /\ s \in Sessions
      /\ session'[s] = row /\ \A t \in Sessions \ {s} : session'[t] = session[t]
      /\ \A t \in Sessions : t > adds' => session'[t].status = "none"
      /\ \A t, u \in Sessions : session'[t].status = "active" /\ session'[u].status = "active"
                => t = u
  BY Written
<1>2. env.isolated => \A t \in Sessions : session[t].status \in Statuses \ {"active"}
               => session'[t].status = session[t].status
  BY <1>1 DEF Statuses
<1>3. env.isolated => \A q \in Requests \ {r} : req[q] = Idle
  BY DEF IInv, Alone
<1>4. basket' \subseteq Sessions /\ trip' \in Trips /\ faults' \in 0 .. env.faults
  BY Still
<1>5. Storing(req[r]) /\ env.faults = 0
        => Storing(w) /\ (w.pc # "copy" \/ session'[req[r].s].status = "completed")
  BY <1>1
<1> QED
  BY <1>1, <1>2, <1>3, <1>4, <1>5, OtherStep

LEMMA StatusWrite ==
    ASSUME IInv, NEW s \in 1 .. adds, NEW status \in Statuses,
           session' = [session EXCEPT ![s].status = status]
    PROVE  \E row \in Rows : session' = [session EXCEPT ![s] = row] /\ row.status = status
<1>1. session[s] \in Rows /\ session' = [session EXCEPT ![s] = [session[s] EXCEPT !.status = status]]
  BY Facts DEF IInv, Typed
<1> QED
  BY <1>1, RowFacts

\* A write that leaves the status of its row alone leaves at most one row active.
LEMMA SameStatus ==
    ASSUME IInv, NEW s \in 1 .. adds, NEW row \in Rows, row.status = session[s].status
    PROVE  row.status = "active" => Active \subseteq {s}
BY Facts DEF IInv, Typed, Active

LEMMA AddSupersedeStep == ASSUME IInv, NEW r \in Requests, AddSupersede(r), UNCHANGED env PROVE IInv'
<1> DEFINE s == req[r].other
           w == [req[r] EXCEPT !.pc = "insert", !.other = NoSession]
<1>r. /\ req[r].op = "add" /\ req[r].pc = "supersede" /\ req[r] # Idle /\ ~Storing(req[r])
      /\ req[r] \in Request /\ Knows(req[r], adds, booked)
  BY Facts DEF AddSupersede, At, Idle, Storing
<1>d. CASE Done(r) /\ UNCHANGED session
  BY <1>r, <1>d, DoneStep, Still DEF AddSupersede
<1>c. CASE /\ session' = [session EXCEPT ![s].status = "cancelled"] /\ req' = [req EXCEPT ![r] = w]
  <2>1. s \in 1 .. adds
    BY <1>r DEF Knows
  <2>2. PICK row \in Rows : session' = [session EXCEPT ![s] = row] /\ row.status = "cancelled"
    BY <2>1, <1>c, StatusWrite DEF Statuses
  <2>3. /\ w \in Request /\ w.op = "add" /\ w.pc = "insert" /\ w.s = req[r].s /\ w.ref = req[r].ref
    BY <1>r DEF Request, Points
  <2> HIDE DEF w
  <2>5. Knows(w, adds, booked) /\ ~Holds(w) /\ ~Storing(w)
    BY <1>r, <2>3 DEF Knows, Holds, Storing
  <2>6. env.isolated => session[s].status = "active" /\ session[req[r].s].status = "none"
    BY <1>r DEF IInv, Alone, Current
  <2>7. env.isolated => Current(w, session')
    BY <2>1, <2>2, <2>3, <2>6, Facts DEF Current, IInv, Typed
  <2> QED
    BY <1>r, <2>1, <2>2, <2>3, <1>c, <2>5, <2>6, <2>7, WriteStep DEF AddSupersede
<1>e. req' = [req EXCEPT ![r].pc = "insert", ![r].other = NoSession] => req' = [req EXCEPT ![r] = w]
  BY DEF IInv, Typed
<1> QED
  BY <1>c, <1>d, <1>e DEF AddSupersede

LEMMA AddInsertStep == ASSUME IInv, NEW r \in Requests, AddInsert(r), UNCHANGED env PROVE IInv'
<1>r. /\ req[r].op = "add" /\ req[r].pc = "insert" /\ req[r] # Idle /\ ~Storing(req[r])
      /\ req[r] \in Request /\ Knows(req[r], adds, booked) /\ req[r].s \in 1 .. adds
  <2>1. req[r].op = "add" /\ req[r].pc = "insert"
    BY DEF AddInsert, At
  <2>2. req[r] \in Request /\ Knows(req[r], adds, booked)
    BY Facts
  <2> QED
    BY <2>1, <2>2 DEF Knows, Storing, Idle
<1>1. CASE Done(r) /\ UNCHANGED session
  BY <1>r, <1>1, DoneStep, Still DEF AddInsert
<1>2. ASSUME NEW handoff \in BOOLEAN, Active = {}, Goto(r, "basket"),
             session' = [session EXCEPT ![req[r].s] = [NoRow EXCEPT !.status = "active",
                                                                  !.handoff = handoff]]
      PROVE  IInv'
  <2> DEFINE row == [NoRow EXCEPT !.status = "active", !.handoff = handoff]
             w == [req[r] EXCEPT !.pc = "basket"]
  <2>1. row \in Rows /\ row.status = "active"
    BY DEF NoRow, Rows, Statuses
  <2>2. w \in Request /\ w.op = "add" /\ w.pc = "basket" /\ w.s = req[r].s /\ w.ref = req[r].ref
    BY <1>r, GotoFacts DEF Points
  <2>3. req' = [req EXCEPT ![r] = w]
    BY <1>2 DEF Goto, IInv, Typed
  <2>4. session' = [session EXCEPT ![req[r].s] = row]
    BY <1>2
  <2> HIDE DEF w, row
  <2>5. Knows(w, adds, booked) /\ ~Holds(w) /\ ~Storing(w) /\ Current(w, session')
    BY <1>r, <2>2 DEF Knows, Holds, Storing, Current
  <2>6. env.isolated => session[req[r].s].status = "none"
    BY <1>r DEF IInv, Alone, Current
  <2>7. Active \subseteq {req[r].s}
        /\ UNCHANGED <<env, adds, basket, trip, record, booked, details, posts, refused, faults>>
    BY <1>2 DEF AddInsert
  <2> QED
    BY <1>r, <2>1, <2>2, <2>3, <2>4, <2>5, <2>6, <2>7, WriteStep
<1> QED
  BY <1>1, <1>2 DEF AddInsert

\* A request whose last step is a write.
LEMMA LastWrite ==
    ASSUME IInv, NEW r \in Requests, Done(r), req[r] # Idle, ~Storing(req[r]),
           UNCHANGED <<env, adds, basket, trip, record, booked, details, posts, refused, faults>>,
           NEW s \in 1 .. adds, NEW row \in Rows, session' = [session EXCEPT ![s] = row],
           row.status = "active" => row.status = session[s].status,
           env.isolated => session[s].status \in {"none", "active", row.status}
    PROVE  IInv'
BY SameStatus, IdleFacts, WriteStep DEF Done

LEMMA AddBasketStep == ASSUME IInv, NEW r \in Requests, AddBasket(r), UNCHANGED env PROVE IInv'
<1>r. /\ req[r].op = "add" /\ req[r].pc = "basket" /\ req[r] # Idle /\ ~Storing(req[r])
      /\ req[r].s \in 1 .. adds /\ session[req[r].s] \in Rows
  BY Facts DEF AddBasket, At, Idle, Storing, Knows
<1>1. PICK hold \in {"held", "none"} :
        session' = [session EXCEPT ![req[r].s].item = TRUE, ![req[r].s].hold = hold]
  BY DEF AddBasket
<1> DEFINE row == [session[req[r].s] EXCEPT !.item = TRUE, !.hold = hold]
<1>2. row \in Rows /\ row.status = session[req[r].s].status
  BY <1>r DEF Rows
<1>3. session' = [session EXCEPT ![req[r].s] = row]
  BY <1>1, <1>r, Facts DEF IInv, Typed
<1> HIDE DEF row
<1> QED
  BY <1>r, <1>2, <1>3, LastWrite DEF AddBasket

LEMMA ValidateExpireStep == ASSUME IInv, NEW r \in Requests, ValidateExpire(r), UNCHANGED env PROVE IInv'
<1>r. /\ req[r].op \in {"get", "remove", "cancel", "book"} /\ req[r].pc = "expire"
      /\ req[r] # Idle /\ ~Storing(req[r]) /\ req[r].s \in 1 .. adds
  <2>1. req[r] \in Request /\ Knows(req[r], adds, booked) /\ req[r].pc = "expire"
    BY Facts DEF ValidateExpire
  <2> QED
    BY <2>1 DEF Request, Operations, Knows, Idle, Storing
<1>1. PICK row \in Rows : session' = [session EXCEPT ![req[r].s] = row] /\ row.status = "expired"
  BY <1>r, StatusWrite DEF ValidateExpire, Statuses
<1>2. env.isolated => session[req[r].s].status = "active"
  BY <1>r DEF IInv, Alone, Current
<1> QED
  BY <1>r, <1>1, <1>2, LastWrite DEF ValidateExpire

LEMMA HandoffMarkStep == ASSUME IInv, NEW r \in Requests, HandoffMark(r), UNCHANGED env PROVE IInv'
<1> DEFINE s == req[r].other
           row == [session[s] EXCEPT !.handoff = TRUE]
           w == [req[r] EXCEPT !.pc = "act", !.other = NoSession]
<1>r. /\ req[r].pc = "mark" /\ req[r].op \in {"proposal", "get", "remove", "cancel", "book"}
      /\ req[r] # Idle /\ ~Storing(req[r]) /\ req[r] \in Request /\ Knows(req[r], adds, booked)
  BY HandoffFacts, Facts DEF HandoffMark
<1>1. s \in 1 .. adds /\ s \in Sessions /\ session[s] \in Rows
  BY <1>r, Facts DEF Knows
<1>2. row \in Rows /\ row.status = session[s].status
  BY <1>1 DEF Rows
<1>3. session' = [session EXCEPT ![s] = row]
  BY <1>1 DEF HandoffMark, IInv, Typed
<1> HIDE DEF row
<1>4. CASE req[r].op = "proposal"
  <2>1. Done(r)
    BY <1>4 DEF HandoffMark, Done
  <2> QED
    BY <1>r, <1>1, <1>2, <1>3, <2>1, LastWrite DEF HandoffMark
<1>5. CASE req[r].op # "proposal"
  <2>1. w \in Request /\ w.op = req[r].op /\ w.pc = "act" /\ w.s = req[r].s /\ w.k = req[r].k
        /\ w.ref = req[r].ref
    BY <1>r DEF Request, Points
  <2>2. req' = [req EXCEPT ![r] = w]
    BY <1>5 DEF HandoffMark, IInv, Typed
  <2> HIDE DEF w
  <2>3. Knows(w, adds, booked)
    BY <1>r, <1>5, <2>1 DEF Knows, Storing
  <2>4. ~Holds(w) /\ ~Storing(w)
    BY <2>1 DEF Holds, Storing
  <2>5. ASSUME env.isolated PROVE Current(w, session')
    <3>1. session[req[r].s].status = "active" /\ req[r].s \in Sessions
      BY <1>r, <1>5, <2>5, Facts DEF IInv, Alone, Current, Knows
    <3>2. session'[req[r].s].status = "active"
      BY <3>1, <1>1, <1>2, <1>3 DEF IInv, Typed
    <3> QED
      BY <2>1, <3>2, <1>r, <1>5 DEF Current
  <2>6. /\ row.status = "active" => Active \subseteq {s}
        /\ env.isolated => session[s].status \in {"none", "active", row.status}
    BY <1>1, <1>2, SameStatus
  <2>7. UNCHANGED <<env, adds, basket, trip, record, booked, details, posts, refused, faults>>
    BY DEF HandoffMark
  <2> QED
    BY <1>r, <1>1, <1>2, <1>3, <2>1, <2>2, <2>3, <2>4, <2>5, <2>6, <2>7, WriteStep
<1> QED
  BY <1>4, <1>5

LEMMA GetExtendStep == ASSUME IInv, NEW r \in Requests, GetExtend(r), UNCHANGED env PROVE IInv'
<1> DEFINE row == [session[req[r].s] EXCEPT !.lapsed = FALSE]
<1>r. /\ req[r].op = "get" /\ req[r] # Idle /\ ~Storing(req[r])
      /\ req[r].s \in 1 .. adds /\ session[req[r].s] \in Rows
  BY Facts DEF GetExtend, At, Idle, Storing, Knows
<1>1. row \in Rows /\ row.status = session[req[r].s].status
  BY <1>r DEF Rows
<1>2. session' = [session EXCEPT ![req[r].s] = row]
  BY <1>r, Facts DEF GetExtend, IInv, Typed
<1> HIDE DEF row
<1> QED
  BY <1>r, <1>1, <1>2, LastWrite DEF GetExtend

LEMMA CancelWriteStep == ASSUME IInv, NEW r \in Requests, CancelWrite(r), UNCHANGED env PROVE IInv'
<1>r. /\ req[r].op = "cancel" /\ req[r].pc = "update" /\ req[r] # Idle /\ ~Storing(req[r])
      /\ req[r].s \in 1 .. adds
  BY Facts DEF CancelWrite, At, Idle, Storing, Knows
<1>1. PICK row \in Rows : session' = [session EXCEPT ![req[r].s] = row] /\ row.status = "cancelled"
  BY <1>r, StatusWrite DEF CancelWrite, Statuses
<1>2. env.isolated => session[req[r].s].status = "active"
  BY <1>r DEF IInv, Alone, Current
<1> QED
  BY <1>r, <1>1, <1>2, LastWrite DEF CancelWrite

-----------------------------------------------------------------------------
(* Bookings                                                                  *)

\* A booking under way knows its session and its key.
LEMMA BookFacts ==
    ASSUME IInv, NEW r \in Requests, req[r].op = "book"
    PROVE  /\ req[r] \in Request /\ Knows(req[r], adds, booked) /\ req[r] # Idle
           /\ req[r].k \in Keys /\ req[r].s \in 1 .. adds /\ req[r].s \in Sessions
           /\ record[req[r].k] \in KeyRecord /\ posts[req[r].k] \in Nat
BY Facts DEF IInv, Typed, Knows, Idle

\* A booking writes nothing of a session and of what other requests know.
LEMMA BookTyped ==
    ASSUME IInv, NEW r \in Requests, NEW w \in Request, req' = [req EXCEPT ![r] = w],
           UNCHANGED <<env, session, adds, basket, trip, refused, faults>>,
           record' \in [Keys -> KeyRecord], booked \subseteq booked', booked' \subseteq Refs,
           details' \in Refs \cup {NoRef}, posts' \in [Keys -> Nat], Knows(w, adds, booked')
    PROVE  Typed'
<1>1. req' \in [Requests -> Request] /\ \A q \in Requests : Knows(req'[q], adds, booked')
  <2>1. \A q \in Requests \ {r} : req'[q] = req[q] /\ Knows(req[q], adds, booked)
    BY Facts DEF IInv, Typed
  <2>2. \A q \in Requests \ {r} : Knows(req'[q], adds, booked')
    BY <2>1 DEF Knows
  <2> QED
    BY <2>2 DEF IInv, Typed
<1> QED
  BY <1>1 DEF IInv, Typed, Active

\* While requests do not overlap, what the one in progress knows of its session stays so.
LEMMA BookAlone ==
    ASSUME IInv, NEW r \in Requests, NEW w \in Request, req' = [req EXCEPT ![r] = w],
           UNCHANGED <<env, session>>, req[r].op = "book", req[r].pc \notin {"lookup", "validate"},
           w = Idle \/ (w.op = "book" /\ w.s = req[r].s),
           w = Idle \/ w.pc = "copy" \/ req[r].pc # "copy"
    PROVE  Alone'
<1> SUFFICES ASSUME env.isolated
             PROVE  /\ \A p, q \in Requests : req'[p] # Idle /\ req'[q] # Idle => p = q
                    /\ \A q \in Requests : Current(req'[q], session)
  BY DEF Alone
<1>1. /\ req'[r] = w /\ \A q \in Requests \ {r} : req'[q] = req[q]
      /\ req[r] # Idle
  BY DEF IInv, Typed, Idle
<1>2. \A q \in Requests : q # r => req[q] = Idle
  BY <1>1 DEF IInv, Alone
<1>3. Current(req[r], session)
  BY DEF IInv, Alone
<1>4. Current(w, session)
  <2>1. CASE w = Idle
    BY <2>1, IdleFacts
  <2>2. CASE w.op = "book" /\ w.s = req[r].s
    BY <1>3, <2>2 DEF Current, Idle
  <2> QED
    BY <2>1, <2>2
<1>5. \A q \in Requests : Current(req'[q], session)
  BY <1>1, <1>2, <1>4, IdleFacts
<1> QED
  BY <1>1, <1>2, <1>5

\* A booking is refused its completion: it is answered, and counted among the refused ones.
LEMMA RefuseStep ==
    ASSUME IInv, NEW r \in Requests, Refuse(r), Recorded(req[r]), Storing(req[r]),
           UNCHANGED <<env, session, adds, basket, trip, record, booked, details, posts, faults>>
    PROVE  IInv'
<1> USE DEF IInv
<1>r. /\ req' = [req EXCEPT ![r] = Idle] /\ refused' = refused \cup {req[r].ref}
      /\ req[r] # Idle /\ req[r].ref \in booked /\ req[r].op = "book"
      /\ req[r].pc \in {"complete", "finish", "copy"}
  BY Facts DEF Refuse, Done, Idle, Recorded, Knows
<1>e. req'[r] = Idle /\ \A q \in Requests \ {r} : req'[q] = req[q]
  BY <1>r DEF Typed
<1>1. Typed'
  <2>1. req' \in [Requests -> Request] /\ \A q \in Requests : Knows(req'[q], adds, booked)
    BY <1>e, <1>r, Facts, IdleFacts DEF Typed
  <2> QED
    BY <1>r, <2>1 DEF Typed, Active
<1>2. Keyed'
  <2>1. \A q \in Requests : Holds(req'[q]) \/ Recorded(req'[q]) => q # r /\ req'[q] = req[q]
    BY <1>e, IdleFacts DEF Recorded, Idle
  <2>2. \A q \in Requests : At(q, "book", "post")' => q # r /\ req'[q] = req[q]
    BY <1>e DEF At, Idle
  <2> QED
    BY <2>1, <2>2 DEF Keyed, At, OneSubmissionPerKey, RecordsTruthful
<1>3. Kept'
  <2> SUFFICES ASSUME Reliable
               PROVE  /\ \A ref \in booked : record[ref[2]].ref = ref
                            \/ \E q \in Requests : At(q, "book", "success")' /\ req'[q].ref = ref
                      /\ \A ref \in booked \ refused' : details \in booked
                            \/ \E q \in Requests : Storing(req'[q]) /\ req'[q].ref = ref
    BY DEF Kept, Reliable
  <2>1. \A q \in Requests : At(q, "book", "success") => At(q, "book", "success")' /\ req'[q] = req[q]
    BY <1>r, <1>e DEF At
  <2>2. ASSUME NEW ref \in booked \ refused', NEW q \in Requests, Storing(req[q]), req[q].ref = ref
        PROVE  Storing(req'[q]) /\ req'[q].ref = ref
    BY <2>2, <1>r, <1>e
  <2> QED
    BY <2>1, <2>2, <1>r DEF Kept
<1>4. Alone'
  BY <1>r, IdleFacts, BookAlone DEF Idle
<1>5. Single'
  <2> SUFFICES ASSUME env.isolated, Reliable, NEW ref \in booked \ refused'
               PROVE  \/ session[ref[1]].status = "completed"
                      \/ \E q \in Requests : Storing(req'[q]) /\ req'[q].pc # "copy" /\ req'[q].ref = ref
    BY <1>r DEF Single, Reliable
  <2>1. ref \in booked \ refused /\ ref # req[r].ref
    BY <1>r
  <2> QED
    BY <2>1, <1>e DEF Single
<1> QED
  BY <1>1, <1>2, <1>3, <1>4, <1>5

LEMMA CompleteVerifyStep ==
    ASSUME IInv, NEW r \in Requests, CompleteVerify(r), UNCHANGED env PROVE IInv'
<1> DEFINE w == [req[r] EXCEPT !.pc = "finish"]
<1>r. /\ Recorded(req[r]) /\ Storing(req[r]) /\ req[r].op = "book" /\ req[r].pc = "complete"
      /\ req[r] # Idle /\ req[r] \in Request /\ Knows(req[r], adds, booked)
  BY Facts DEF CompleteVerify, At, Idle, Knows, Recorded, Storing
<1>c. CASE Goto(r, "finish") /\ UNCHANGED refused
  <2>1. /\ w \in Request /\ w.op = "book" /\ w.pc = "finish" /\ w.s = req[r].s /\ w.k = req[r].k
        /\ w.ref = req[r].ref
    BY <1>r, GotoFacts DEF Points
  <2>2. req' = [req EXCEPT ![r] = w]
    BY <1>c DEF Goto, IInv, Typed
  <2> HIDE DEF w
  <2>3. Knows(w, adds, booked) /\ ~Holds(w) /\ Storing(w) /\ Recorded(w)
    BY <1>r, <2>1 DEF Knows, Holds, Storing, Recorded
  <2>4. env.isolated => Current(w, session) /\ \A q \in Requests \ {r} : req[q] = Idle
    BY <1>r, <2>1 DEF IInv, Alone, Current
  <2>5. UNCHANGED <<env, session, adds, basket, trip, record, booked, details, posts, refused, faults>>
    BY <1>c DEF CompleteVerify
  <2>6. /\ session' \in [Sessions -> Rows] /\ adds' \in adds .. MaxSessions
        /\ \A s \in Sessions : s > adds' => session'[s].status = "none"
        /\ \A s, t \in Sessions : session'[s].status = "active" /\ session'[t].status = "active" => s = t
    BY <2>5, Facts DEF IInv, Typed, Active
  <2> QED
    BY <1>r, <2>1, <2>2, <2>3, <2>4, <2>5, <2>6, Still, OtherStep
<1>d. CASE Refuse(r)
  BY <1>r, <1>d, RefuseStep DEF CompleteVerify
<1> QED
  BY <1>c, <1>d DEF CompleteVerify

LEMMA CompleteSessionStep ==
    ASSUME IInv, NEW r \in Requests, CompleteSession(r), UNCHANGED env PROVE IInv'
<1> DEFINE w == [req[r] EXCEPT !.pc = "copy"]
<1>r. /\ Recorded(req[r]) /\ Storing(req[r]) /\ req[r].op = "book" /\ req[r].pc = "finish"
      /\ req[r] # Idle /\ req[r] \in Request /\ Knows(req[r], adds, booked) /\ req[r].s \in 1 .. adds
  BY Facts DEF CompleteSession, At, Idle, Knows, Recorded, Storing
<1>c. CASE session' = [session EXCEPT ![req[r].s].status = "completed"] /\ Goto(r, "copy") /\ UNCHANGED refused
  <2>1. PICK row \in Rows : session' = [session EXCEPT ![req[r].s] = row] /\ row.status = "completed"
    BY <1>r, <1>c, StatusWrite DEF Statuses
  <2>2. /\ w \in Request /\ w.op = "book" /\ w.pc = "copy" /\ w.s = req[r].s /\ w.k = req[r].k
        /\ w.ref = req[r].ref
    BY <1>r, GotoFacts DEF Points
  <2>3. req' = [req EXCEPT ![r] = w]
    BY <1>c DEF Goto, IInv, Typed
  <2> HIDE DEF w
  <2>4. Knows(w, adds, booked) /\ ~Holds(w) /\ Storing(w) /\ Recorded(w) /\ Current(w, session')
    BY <1>r, <2>2 DEF Knows, Holds, Storing, Recorded, Current
  <2>5. env.isolated => session[req[r].s].status = "active"
    BY <1>r DEF IInv, Alone, Current
  <2>6. UNCHANGED <<env, adds, basket, trip, record, booked, details, posts, refused, faults>>
    BY <1>c DEF CompleteSession
  <2> QED
    BY <1>r, <2>1, <2>2, <2>3, <2>4, <2>5, <2>6, WriteStep
<1>d. CASE Refuse(r) /\ UNCHANGED session
  BY <1>r, <1>d, RefuseStep, Still DEF CompleteSession
<1> QED
  BY <1>c, <1>d DEF CompleteSession

LEMMA BookReserveStep == ASSUME IInv, NEW r \in Requests, BookReserve(r), UNCHANGED env PROVE IInv'
<1> USE DEF IInv
<1> DEFINE k == req[r].k
<1>r. /\ req[r].op = "book" /\ req[r].pc = "act" /\ ~Storing(req[r]) /\ ~Holds(req[r])
      /\ req[r] \in Request /\ Knows(req[r], adds, booked) /\ req[r] # Idle
      /\ k \in Keys /\ req[r].s \in Sessions
  BY BookFacts DEF BookReserve, At, Storing, Holds
<1>1. CASE Done(r) /\ UNCHANGED record
  BY <1>r, <1>1, DoneStep, Still DEF BookReserve
<1>2. CASE Goto(r, "conflict") /\ UNCHANGED record
  <2>1. ASSUME env.isolated PROVE Current([req[r] EXCEPT !.pc = "conflict"], session)
    <3>1. Current(req[r], session)
      BY <2>1 DEF Alone
    <3>2. LET w == [req[r] EXCEPT !.pc = "conflict"]
          IN  w.pc = "conflict" /\ w.op = req[r].op /\ w.s = req[r].s
      BY <1>r, GotoFacts DEF Points
    <3> QED
      BY <1>r, <3>1, <3>2 DEF Current
  <2> QED
    BY <1>r, <1>2, <2>1, GotoStep, Still DEF BookReserve, Points
<1>3. CASE /\ record[k].status = "none"
           /\ record' = [record EXCEPT ![k] = [NoRecord EXCEPT !.status = "pending"]]
           /\ Goto(r, "post")
  <2> DEFINE w == [req[r] EXCEPT !.pc = "post"]
             new == [NoRecord EXCEPT !.status = "pending"]
  <2>w. /\ w \in Request /\ w.op = "book" /\ w.pc = "post" /\ w.s = req[r].s /\ w.k = k
        /\ w.ref = req[r].ref
    BY <1>r, GotoFacts DEF Points
  <2>r. req' = [req EXCEPT ![r] = w] /\ req'[r] = w /\ \A q \in Requests \ {r} : req'[q] = req[q]
    BY <1>3 DEF Goto, Typed
  <2>n. /\ new \in KeyRecord /\ new.status = "pending" /\ new.ref = NoRef
        /\ record' \in [Keys -> KeyRecord] /\ record'[k] = new
        /\ \A l \in Keys \ {k} : record'[l] = record[l]
    BY <1>3, <1>r DEF NoRecord, KeyRecord, Typed
  <2>u. UNCHANGED <<session, adds, basket, trip, booked, details, posts, refused, faults>>
    BY DEF BookReserve
  <2> HIDE DEF w, new
  <2>1. Knows(w, adds, booked)
    BY <1>r, <2>w DEF Knows, Storing
  <2>2. Typed'
    BY <2>w, <2>r, <2>n, <2>u, <2>1, BookTyped DEF Typed
  <2>h. /\ \A q \in Requests : Holds(req[q]) => req[q].k # k
        /\ posts[k] = 0 /\ record[k].ref = NoRef
    BY <1>3, <1>r DEF Keyed
  <2>3. Keyed'
    <3>1. \A q \in Requests : Holds(req'[q]) => record'[req'[q].k].status = "pending"
      <4> SUFFICES ASSUME NEW q \in Requests, Holds(req'[q]), q # r
                   PROVE  record'[req'[q].k].status = "pending"
        BY <2>n, <2>r, <2>w
      <4>1. Holds(req[q]) /\ req[q].k \in Keys \ {k}
        BY <2>r, <2>h, BookFacts DEF Holds
      <4> QED
        BY <4>1, <2>r, <2>n DEF Keyed
    <3>2. \A p, q \in Requests : Holds(req'[p]) /\ Holds(req'[q]) /\ req'[p].k = req'[q].k => p = q
      BY <2>r, <2>w, <2>h DEF Keyed
    <3>3. \A q \in Requests : At(q, "book", "post")' => posts'[req'[q].k] = 0
      BY <2>r, <2>w, <2>h, <2>u DEF Keyed, At
    <3>4. \A l \in Keys : /\ record'[l].status = "none" => posts'[l] = 0
                          /\ record'[l].status # "success" => record'[l].ref = NoRef
      BY <2>n, <2>u DEF Keyed
    <3>5. \A q \in Requests : Recorded(req'[q])
              => record'[req'[q].k].ref = req'[q].ref
      <4> SUFFICES ASSUME NEW q \in Requests, Recorded(req'[q])
                   PROVE  record'[req'[q].k].ref = req'[q].ref
        OBVIOUS
      <4>1. /\ req'[q] = req[q]
            /\ Recorded(req[q])
            /\ req[q].op = "book" /\ req[q].pc \in {"complete", "finish", "copy"}
        BY <2>r, <2>w DEF Recorded
      <4>2. req[q].k \in Keys /\ req[q].ref \in Refs /\ record[req[q].k].ref = req[q].ref
        BY <4>1, BookFacts DEF Keyed, Knows, Storing, Typed
      <4>3. req[q].k # k
        BY <4>2, <2>h, Facts
      <4> QED
        BY <4>1, <4>2, <4>3, <2>n
    <3>6. OneSubmissionPerKey' /\ RecordsTruthful'
      <4>1. OneSubmissionPerKey /\ RecordsTruthful
        BY DEF Keyed
      <4>2. OneSubmissionPerKey'
        BY <4>1, <2>u DEF OneSubmissionPerKey
      <4>3. \A l \in Keys : record'[l].status = "success" => record'[l].ref \in booked' \cap (Sessions \X {l})
        BY <4>1, <2>n, <2>u DEF RecordsTruthful
      <4>4. details' # NoRef => \E l \in Keys : record'[l].ref = details'
        BY <4>1, <2>h, <2>n, <2>u DEF RecordsTruthful
      <4> QED
        BY <4>2, <4>3, <4>4 DEF RecordsTruthful
    <3> QED
      BY <3>1, <3>2, <3>3, <3>4, <3>5, <3>6 DEF Keyed
  <2>s. \A q \in Requests : q # r => req'[q] = req[q]
    BY <2>r
  <2>4. Kept'
    <3> SUFFICES ASSUME Reliable
                 PROVE  /\ \A ref \in booked' : record'[ref[2]].ref = ref
                              \/ \E q \in Requests : At(q, "book", "success")' /\ req'[q].ref = ref
                        /\ \A b \in booked' \ refused' : details' \in booked'
                            \/ \E q \in Requests : Storing(req'[q]) /\ req'[q].ref = b
      BY DEF Kept, Reliable
    <3>1. \A q \in Requests : /\ At(q, "book", "success") => At(q, "book", "success")' /\ req'[q] = req[q]
                              /\ Storing(req[q]) => Storing(req'[q]) /\ req'[q] = req[q]
      BY <1>r, <2>r DEF At, Storing
    <3>2. ASSUME NEW ref \in booked', record[ref[2]].ref = ref PROVE record'[ref[2]].ref = ref
      <4>1. ref[2] \in Keys /\ ref # NoRef
        BY <3>2, <2>u, Facts DEF Typed, Refs
      <4> QED
        BY <3>2, <4>1, <2>h, <2>n
    <3> QED
      BY <3>1, <3>2, <2>u DEF Kept
  <2>5. Alone'
    BY <1>r, <2>w, <2>r, <2>u, BookAlone
  <2>6. Single'
    <3>1. \A q \in Requests : Storing(req[q]) => req'[q] = req[q]
      BY <1>r, <2>r
    <3> QED
      BY <3>1, <2>u DEF Single, Reliable
  <2> QED
    BY <2>2, <2>3, <2>4, <2>5, <2>6
<1> QED
  BY <1>1, <1>2, <1>3 DEF BookReserve

\* The request that holds a key writes its record, and gives the key up.
LEMMA RecordStep ==
    ASSUME IInv, NEW r \in Requests, NEW w \in Request, req' = [req EXCEPT ![r] = w],
           req[r].op = "book", req[r].pc \in {"failure", "success"},
           NEW new \in KeyRecord, record' = [record EXCEPT ![req[r].k] = new],
           UNCHANGED <<booked, details, posts, refused>>, new.status \in {"success", "failed"},
           new.status = "success" => new.ref \in booked \cap (Sessions \X {req[r].k}),
           new.status = "failed" => new.ref = NoRef,
           w = Idle \/ (w.op = "book" /\ w.pc = "complete" /\ w.k = req[r].k /\ w.ref = new.ref)
    PROVE  /\ Keyed' /\ record' \in [Keys -> KeyRecord]
           /\ \A ref \in booked : record[ref[2]].ref = ref => record'[ref[2]].ref = ref
<1> DEFINE k == req[r].k
<1>r. /\ k \in Keys /\ Holds(req[r]) /\ record[k].status = "pending" /\ record[k].ref = NoRef
      /\ req'[r] = w /\ \A q \in Requests \ {r} : req'[q] = req[q]
  BY BookFacts DEF IInv, Typed, Keyed, Holds
<1>n. /\ record' \in [Keys -> KeyRecord] /\ record'[k] = new
      /\ \A l \in Keys \ {k} : record'[l] = record[l]
  BY <1>r DEF IInv, Typed
<1>w. ~Holds(w) /\ (w.op = "book" => w.pc = "complete" /\ w.k = k /\ w.ref = new.ref)
  BY DEF Holds, Idle
<1>1. \A q \in Requests : Holds(req'[q]) => /\ q # r /\ Holds(req[q]) /\ req'[q] = req[q]
                                            /\ req[q].k \in Keys \ {k}
  <2> SUFFICES ASSUME NEW q \in Requests, Holds(req'[q])
               PROVE  q # r /\ Holds(req[q]) /\ req'[q] = req[q] /\ req[q].k \in Keys \ {k}
    OBVIOUS
  <2>1. q # r /\ Holds(req[q]) /\ req'[q] = req[q] /\ req[q].op = "book"
    BY <1>r, <1>w DEF Holds
  <2>2. req[q].k \in Keys
    BY <2>1, BookFacts
  <2> QED
    BY <2>1, <2>2, <1>r DEF IInv, Keyed
<1>2. \A q \in Requests : Holds(req'[q]) => record'[req'[q].k].status = "pending"
  BY <1>1, <1>n DEF IInv, Keyed
<1>3. \A p, q \in Requests : Holds(req'[p]) /\ Holds(req'[q]) /\ req'[p].k = req'[q].k => p = q
  BY <1>1 DEF IInv, Keyed
<1>4. \A q \in Requests : At(q, "book", "post")' => posts'[req'[q].k] = 0
  <2>1. \A q \in Requests : At(q, "book", "post")' => Holds(req'[q])
    BY DEF At, Holds
  <2> QED
    BY <1>1, <2>1 DEF IInv, Keyed, At
<1>5. \A l \in Keys : /\ record'[l].status = "none" => posts'[l] = 0
                      /\ record'[l].status # "success" => record'[l].ref = NoRef
  BY <1>n DEF IInv, Keyed
<1>6. \A ref \in booked : record[ref[2]].ref = ref => record'[ref[2]].ref = ref
  <2> SUFFICES ASSUME NEW ref \in booked, record[ref[2]].ref = ref PROVE record'[ref[2]].ref = ref
    OBVIOUS
  <2>1. ref[2] \in Keys /\ ref # NoRef
    BY Facts DEF IInv, Typed, Refs
  <2> QED
    BY <2>1, <1>r, <1>n
<1>7. \A q \in Requests : Recorded(req'[q])
              => record'[req'[q].k].ref = req'[q].ref
  <2> SUFFICES ASSUME NEW q \in Requests, Recorded(req'[q])
               PROVE  record'[req'[q].k].ref = req'[q].ref
    OBVIOUS
  <2>1. CASE q = r
    BY <2>1, <1>r, <1>n, <1>w DEF Recorded
  <2>2. CASE q # r
    <3>1. /\ req'[q] = req[q] /\ req[q].op = "book" /\ req[q].pc \in {"complete", "finish", "copy"}
          /\ Recorded(req[q])
      BY <2>2, <1>r DEF Recorded
    <3>2. req[q].k \in Keys /\ req[q].ref \in booked /\ req[q].ref = <<req[q].s, req[q].k>>
      BY <3>1, BookFacts DEF Knows, Storing
    <3>3. record[req[q].k].ref = req[q].ref
      BY <3>1 DEF IInv, Keyed
    <3> QED
      BY <3>1, <3>2, <3>3, <1>6
  <2> QED
    BY <2>1, <2>2
<1>8. OneSubmissionPerKey' /\ RecordsTruthful'
  <2>1. OneSubmissionPerKey /\ RecordsTruthful
    BY DEF IInv, Keyed
  <2>2. OneSubmissionPerKey'
    BY <2>1 DEF OneSubmissionPerKey
  <2>3. \A l \in Keys : record'[l].status = "success" => record'[l].ref \in booked' \cap (Sessions \X {l})
    BY <2>1, <1>n DEF RecordsTruthful
  <2>4. details' # NoRef => \E l \in Keys : record'[l].ref = details'
    BY <2>1, <1>r, <1>n DEF RecordsTruthful
  <2> QED
    BY <2>2, <2>3, <2>4 DEF RecordsTruthful
<1> QED
  BY <1>n, <1>2, <1>3, <1>4, <1>5, <1>6, <1>7, <1>8 DEF Keyed

LEMMA BookFailureStep == ASSUME IInv, NEW r \in Requests, BookFailure(r), UNCHANGED env PROVE IInv'
<1> DEFINE new == [NoRecord EXCEPT !.status = "failed"]
<1>r. /\ req[r].op = "book" /\ req[r].pc = "failure" /\ req' = [req EXCEPT ![r] = Idle]
      /\ UNCHANGED <<env, session, adds, basket, trip, booked, details, posts, refused, faults>>
  BY DEF BookFailure, At, Done
<1>n. new \in KeyRecord /\ new.status = "failed" /\ new.ref = NoRef
  BY DEF NoRecord, KeyRecord
<1>1. /\ Keyed' /\ record' \in [Keys -> KeyRecord]
      /\ \A ref \in booked : record[ref[2]].ref = ref => record'[ref[2]].ref = ref
  BY <1>r, <1>n, RecordStep, IdleFacts DEF BookFailure
<1>2. Typed'
  BY <1>r, <1>1, IdleFacts, BookTyped DEF IInv, Typed
<1>3. Alone'
  BY <1>r, IdleFacts, BookAlone DEF Idle
<1>4. \A q \in Requests : Storing(req[q]) => req'[q] = req[q]
  BY <1>r DEF IInv, Typed, Storing
<1>5. Kept'
  BY <1>r, <1>1, <1>4 DEF IInv, Kept, Reliable, At, Storing
<1>6. Single'
  BY <1>r, <1>4 DEF IInv, Single, Reliable
<1> QED
  BY <1>1, <1>2, <1>3, <1>5, <1>6 DEF IInv

LEMMA BookSuccessStep == ASSUME IInv, NEW r \in Requests, BookSuccess(r), UNCHANGED env PROVE IInv'
<1> DEFINE new == [status |-> "success", ref |-> req[r].ref]
           w == [req[r] EXCEPT !.pc = "complete"]
<1>r. /\ req[r].op = "book" /\ req[r].pc = "success" /\ Storing(req[r]) /\ req[r] \in Request
      /\ Knows(req[r], adds, booked) /\ req[r].ref = <<req[r].s, req[r].k>> /\ req[r].ref \in booked
      /\ req[r].k \in Keys /\ req[r].s \in Sessions /\ req[r].ref \in Refs
      /\ req[r].ref \in booked \cap (Sessions \X {req[r].k})
  <2>1. req[r].op = "book" /\ req[r].pc = "success" /\ Storing(req[r])
    BY DEF BookSuccess, At, Storing
  <2>2. /\ req[r] \in Request /\ Knows(req[r], adds, booked)
        /\ req[r].k \in Keys /\ req[r].s \in Sessions
    BY <2>1, BookFacts
  <2> QED
    BY <2>1, <2>2 DEF Knows, Refs
<1>u. /\ UNCHANGED <<env, session, adds, basket, trip, booked, details, posts, refused, faults>>
      /\ record' = [record EXCEPT ![req[r].k] = new]
  BY DEF BookSuccess
<1>w. /\ w \in Request /\ w.op = "book" /\ w.pc = "complete" /\ w.s = req[r].s /\ w.k = req[r].k
      /\ w.ref = req[r].ref
  BY <1>r, GotoFacts DEF Points
<1>e. /\ req' = [req EXCEPT ![r] = w] /\ req'[r] = w /\ \A q \in Requests \ {r} : req'[q] = req[q]
  BY DEF BookSuccess, Goto, IInv, Typed
<1>n. new \in KeyRecord /\ new.status = "success" /\ new.ref = req[r].ref
  BY <1>r DEF KeyRecord
<1> HIDE DEF new, w
<1>1. /\ Keyed' /\ record' \in [Keys -> KeyRecord]
      /\ \A ref \in booked : record[ref[2]].ref = ref => record'[ref[2]].ref = ref
  <2>1. /\ UNCHANGED <<booked, details, posts, refused>> /\ req[r].pc \in {"failure", "success"}
        /\ new.status \in {"success", "failed"} /\ new.status # "failed"
        /\ new.ref \in booked \cap (Sessions \X {req[r].k})
        /\ w.op = "book" /\ w.pc = "complete" /\ w.k = req[r].k /\ w.ref = new.ref
    BY <1>r, <1>u, <1>w, <1>n
  <2> QED
    BY <1>r, <1>u, <1>w, <1>e, <1>n, <2>1, RecordStep
<1>2. Knows(w, adds, booked)
  BY <1>r, <1>w DEF Knows, Storing
<1>3. Typed'
  BY <1>1, <1>2, <1>u, <1>w, <1>e, BookTyped DEF IInv, Typed
<1>4. Alone'
  BY <1>r, <1>u, <1>w, <1>e, BookAlone
<1>5. Storing(w) /\ w.pc # "copy" /\ record'[req[r].k].ref = req[r].ref
  BY <1>r, <1>u, <1>w, <1>n DEF Storing, IInv, Typed
<1>6. Kept'
  <2> SUFFICES ASSUME Reliable
               PROVE  /\ \A ref \in booked' : record'[ref[2]].ref = ref
                            \/ \E q \in Requests : At(q, "book", "success")' /\ req'[q].ref = ref
                      /\ \A b \in booked' \ refused' : details' \in booked'
                            \/ \E q \in Requests : Storing(req'[q]) /\ req'[q].ref = b
    BY <1>u DEF Kept, Reliable
  <2>1. \A q \in Requests : Storing(req[q]) => Storing(req'[q]) /\ req'[q].ref = req[q].ref
    BY <1>5, <1>e, <1>w
  <2>2. ASSUME NEW ref \in booked, NEW q \in Requests, At(q, "book", "success"), req[q].ref = ref
        PROVE  record'[ref[2]].ref = ref
                 \/ \E p \in Requests : At(p, "book", "success")' /\ req'[p].ref = ref
    <3>1. CASE q = r
      BY <2>2, <3>1, <1>5, <1>r
    <3>2. CASE q # r
      BY <2>2, <3>2, <1>e DEF At
    <3> QED
      BY <3>1, <3>2
  <2> QED
    BY <2>1, <2>2, <1>1, <1>u DEF IInv, Kept
<1>7. Single'
  <2>1. \A q \in Requests : Storing(req[q]) /\ req[q].pc # "copy"
            => Storing(req'[q]) /\ req'[q].pc # "copy" /\ req'[q].ref = req[q].ref
    BY <1>5, <1>w, <1>e
  <2> QED
    BY <2>1, <1>u DEF IInv, Single, Reliable
<1> QED
  BY <1>1, <1>3, <1>4, <1>6, <1>7 DEF IInv

LEMMA BookPostStep == ASSUME IInv, NEW r \in Requests, BookPost(r), UNCHANGED env PROVE IInv'
<1> USE DEF IInv
<1> DEFINE k == req[r].k
           ref == <<req[r].s, k>>
<1>r. /\ req[r].op = "book" /\ req[r].pc = "post" /\ ~Storing(req[r]) /\ Holds(req[r])
      /\ req[r] \in Request /\ Knows(req[r], adds, booked) /\ k \in Keys /\ req[r].s \in 1 .. adds
      /\ req[r].s \in Sessions /\ ref \in Refs
  <2>1. req[r].op = "book" /\ req[r].pc = "post" /\ ~Storing(req[r]) /\ Holds(req[r])
    BY DEF BookPost, At, Storing, Holds
  <2> QED
    BY <2>1, BookFacts DEF Refs
<1>u. /\ UNCHANGED <<env, session, adds, basket, trip, record, details, refused, faults>>
      /\ posts' = [posts EXCEPT ![k] = @ + 1]
  BY DEF BookPost
<1>p. /\ posts' \in [Keys -> Nat] /\ posts[k] = 0 /\ posts'[k] = 1
      /\ \A l \in Keys \ {k} : posts'[l] = posts[l]
  <2>1. posts[k] = 0
    BY <1>r DEF Keyed, At
  <2> QED
    BY <2>1, <1>r, <1>u DEF Typed
\* The answer says so when Fusion books, or the request does not know.
<1>1. \E w \in Request :
        /\ req' = [req EXCEPT ![r] = w] /\ w.op = "book" /\ w.s = req[r].s /\ w.k = k
        /\ \/ w.pc = "success" /\ w.ref = ref /\ booked' = booked \cup {ref}
           \/ /\ w.pc = "failure" /\ w.ref = req[r].ref
              /\ \/ booked' = booked
                 \/ env.lostReplies /\ booked' = booked \cup {ref}
  <2>1. CASE booked' = booked \cup {ref} /\ req' = [req EXCEPT ![r].pc = "success", ![r].ref = ref]
    <3> DEFINE w == [req[r] EXCEPT !.pc = "success", !.ref = ref]
    <3>1. w \in Request /\ w.op = "book" /\ w.s = req[r].s /\ w.k = k /\ w.pc = "success" /\ w.ref = ref
      BY <1>r DEF Request, Points
    <3>2. req' = [req EXCEPT ![r] = w]
      BY <2>1 DEF Typed
    <3> QED
      BY <3>1, <3>2, <2>1
  <2>2. ASSUME Goto(r, "failure")
        PROVE  \E w \in Request :
                 /\ req' = [req EXCEPT ![r] = w] /\ w.op = "book" /\ w.s = req[r].s /\ w.k = k
                 /\ w.pc = "failure" /\ w.ref = req[r].ref
    <3> DEFINE w == [req[r] EXCEPT !.pc = "failure"]
    <3>1. /\ w \in Request /\ w.op = "book" /\ w.s = req[r].s /\ w.k = k /\ w.pc = "failure"
          /\ w.ref = req[r].ref
      BY <1>r, GotoFacts DEF Points
    <3>2. req' = [req EXCEPT ![r] = w]
      BY <2>2 DEF Goto, Typed
    <3> QED
      BY <3>1, <3>2
  <2>3. \/ booked' = booked \cup {ref} /\ req' = [req EXCEPT ![r].pc = "success", ![r].ref = ref]
        \/ Goto(r, "failure") /\ booked' = booked
        \/ Goto(r, "failure") /\ env.lostReplies /\ booked' = booked \cup {ref}
    BY DEF BookPost
  <2>4. CASE Goto(r, "failure") /\ booked' = booked
    BY <2>2, <2>4
  <2>5. CASE Goto(r, "failure") /\ env.lostReplies /\ booked' = booked \cup {ref}
    BY <2>2, <2>5
  <2> QED
    BY <2>1, <2>3, <2>4, <2>5
<1>2. PICK w \in Request :
        /\ req' = [req EXCEPT ![r] = w] /\ w.op = "book" /\ w.s = req[r].s /\ w.k = k
        /\ \/ w.pc = "success" /\ w.ref = ref /\ booked' = booked \cup {ref}
           \/ /\ w.pc = "failure" /\ w.ref = req[r].ref
              /\ \/ booked' = booked
                 \/ env.lostReplies /\ booked' = booked \cup {ref}
  BY <1>1
<1>e. /\ req'[r] = w /\ \A q \in Requests \ {r} : req'[q] = req[q]
      /\ booked \subseteq booked' /\ booked' \subseteq Refs /\ Holds(w)
      /\ w.pc \notin {"post", "complete", "finish", "copy", "lookup", "validate"}
  BY <1>2, <1>r DEF Typed, Holds
<1>3. Typed'
  <2>1. Knows(w, adds, booked')
    <3>1. w.ref \in booked' \cup {NoRef}
      BY <1>2, <1>r, <1>e DEF Knows
    <3>2. Storing(w) => w.ref = <<w.s, w.k>> /\ w.ref \in booked'
      BY <1>2 DEF Storing
    <3> QED
      BY <1>2, <1>r, <1>e, <3>1, <3>2 DEF Knows
  <2>2. record' \in [Keys -> KeyRecord] /\ details' \in Refs \cup {NoRef}
    BY <1>u DEF Typed
  <2> QED
    BY <1>2, <1>e, <1>u, <1>p, <2>1, <2>2, BookTyped
<1>4. Keyed'
  <2>0. \A q \in Requests : Holds(req'[q]) => Holds(req[q]) /\ req'[q].k = req[q].k
    BY <1>e, <1>2, <1>r
  <2>1. \A q \in Requests : Holds(req'[q]) => record'[req'[q].k].status = "pending"
    BY <2>0, <1>u DEF Keyed
  <2>2. \A p, q \in Requests : Holds(req'[p]) /\ Holds(req'[q]) /\ req'[p].k = req'[q].k => p = q
    BY <2>0 DEF Keyed
  <2>3. \A q \in Requests : At(q, "book", "post")' => posts'[req'[q].k] = 0
    <3> SUFFICES ASSUME NEW q \in Requests, At(q, "book", "post")' PROVE posts'[req'[q].k] = 0
      OBVIOUS
    <3>1. q # r /\ req'[q] = req[q] /\ At(q, "book", "post") /\ req[q].op = "book" /\ Holds(req[q])
      BY <1>e DEF At, Holds
    <3>2. req[q].k \in Keys /\ req[q].k # k /\ posts[req[q].k] = 0
      BY <3>1, <1>r, BookFacts DEF Keyed
    <3> QED
      BY <3>1, <3>2, <1>p
  <2>4. \A l \in Keys : /\ record'[l].status = "none" => posts'[l] = 0
                        /\ record'[l].status # "success" => record'[l].ref = NoRef
    BY <1>r, <1>p, <1>u DEF Keyed
  <2>5. \A q \in Requests : Recorded(req'[q])
              => record'[req'[q].k].ref = req'[q].ref
    BY <1>e, <1>u DEF Keyed, Recorded
  <2>6. OneSubmissionPerKey' /\ RecordsTruthful'
    <3>1. OneSubmissionPerKey /\ RecordsTruthful
      BY DEF Keyed
    <3>2. OneSubmissionPerKey'
      BY <3>1, <1>p DEF OneSubmissionPerKey
    <3>3. RecordsTruthful'
      BY <3>1, <1>u, <1>e DEF RecordsTruthful
    <3> QED
      BY <3>2, <3>3
  <2> QED
    BY <2>1, <2>2, <2>3, <2>4, <2>5, <2>6 DEF Keyed
<1>5. Kept'
  <2> SUFFICES ASSUME Reliable
               PROVE  /\ \A b \in booked' : record'[b[2]].ref = b
                            \/ \E q \in Requests : At(q, "book", "success")' /\ req'[q].ref = b
                      /\ \A b \in booked' \ refused' : details' \in booked'
                            \/ \E q \in Requests : Storing(req'[q]) /\ req'[q].ref = b
    BY <1>u DEF Kept, Reliable
  <2>1. \A q \in Requests : Storing(req[q]) => req'[q] = req[q]
    BY <1>e, <1>r
  <2>2. \A b \in booked : record'[b[2]].ref = b
            \/ \E q \in Requests : At(q, "book", "success")' /\ req'[q].ref = b
    BY <2>1, <1>u DEF Kept, At, Storing
  <2>3. \A b \in booked \ refused : details' \in booked'
            \/ \E q \in Requests : Storing(req'[q]) /\ req'[q].ref = b
    BY <2>1, <1>u, <1>e DEF Kept
  <2>4. CASE booked' = booked
    BY <2>2, <2>3, <2>4, <1>u
  <2>5. CASE w.pc = "success" /\ w.ref = ref /\ booked' = booked \cup {ref}
    <3>1. At(r, "book", "success")' /\ Storing(req'[r]) /\ req'[r].ref = ref
      BY <2>5, <1>e, <1>2 DEF At, Storing
    <3>2. \A b \in booked' \ refused' : b \in booked \ refused \/ b = ref
      BY <2>5, <1>u
    <3>3. \A b \in booked \ refused : details' \in booked'
            \/ \E q \in Requests : Storing(req'[q]) /\ req'[q].ref = b
      BY <2>3
    <3> QED
      BY <2>2, <2>5, <3>1, <3>2, <3>3
  <2> QED
    BY <2>4, <2>5, <1>2 DEF Reliable
<1>6. Alone'
  BY <1>r, <1>2, <1>u, <1>e, BookAlone
<1>7. Single'
  <2> SUFFICES ASSUME env.isolated, Reliable
               PROVE  /\ \A b \in booked' \ refused :
                            \/ session[b[1]].status = "completed"
                            \/ \E q \in Requests : Storing(req'[q]) /\ req'[q].pc # "copy" /\ req'[q].ref = b
                      /\ \A a, b \in booked' \ refused : a[1] = b[1] => a = b
    BY <1>u DEF Single, Reliable
  <2>1. \A q \in Requests : Storing(req[q]) => req'[q] = req[q]
    BY <1>e, <1>r
  <2>2. \A b \in booked \ refused :
            \/ session[b[1]].status = "completed"
            \/ \E q \in Requests : Storing(req'[q]) /\ req'[q].pc # "copy" /\ req'[q].ref = b
    BY <2>1 DEF Single
  <2>3. CASE booked' = booked
    BY <2>2, <2>3 DEF Single
  <2>4. CASE w.pc = "success" /\ w.ref = ref /\ booked' = booked \cup {ref}
    <3>1. session[req[r].s].status = "active"
      BY <1>r DEF Alone, Current
    <3>2. \A q \in Requests : ~Storing(req[q])
      <4> SUFFICES ASSUME NEW q \in Requests, Storing(req[q]) PROVE FALSE
        OBVIOUS
      <4>1. req[q] # Idle /\ req[r] # Idle
        BY <1>r DEF Storing, Idle
      <4> QED
        BY <4>1, <1>r DEF Alone
    <3>3. \A b \in booked \ refused : b[1] # req[r].s
      BY <3>1, <3>2 DEF Single
    <3>4. \A a, b \in booked' \ refused : a[1] = b[1] => a = b
      BY <2>4, <3>3 DEF Single
    <3>5. Storing(req'[r]) /\ req'[r].pc # "copy" /\ req'[r].ref = ref
      BY <2>4, <1>e, <1>2 DEF Storing
    <3> QED
      BY <2>2, <2>4, <3>4, <3>5
  <2> QED
    BY <2>3, <2>4, <1>2 DEF Reliable
<1> QED
  BY <1>3, <1>4, <1>5, <1>6, <1>7

LEMMA CopyReferenceStep == ASSUME IInv, NEW r \in Requests, CopyReference(r), UNCHANGED env PROVE IInv'
<1> USE DEF IInv
<1>r. /\ req[r].op = "book" /\ req[r].pc = "copy" /\ At(r, "book", "copy")
      /\ req' = [req EXCEPT ![r] = Idle] /\ details' = req[r].ref
      /\ UNCHANGED <<env, session, adds, basket, trip, record, booked, posts, refused, faults>>
  BY DEF CopyReference, At, Done
<1>k. req[r].k \in Keys /\ req[r].ref \in booked /\ record[req[r].k].ref = req[r].ref
  BY <1>r, BookFacts DEF Knows, Storing, Recorded, Keyed
<1>e. req'[r] = Idle /\ \A q \in Requests \ {r} : req'[q] = req[q]
  BY <1>r DEF Typed
<1>1. Typed'
  BY <1>r, <1>k, IdleFacts, BookTyped DEF Typed
<1>2. Keyed'
  <2>0. \A q \in Requests : Holds(req'[q]) => Holds(req[q]) /\ req'[q] = req[q]
    BY <1>e, IdleFacts
  <2>1. /\ \A q \in Requests : Holds(req'[q]) => record'[req'[q].k].status = "pending"
        /\ \A p, q \in Requests : Holds(req'[p]) /\ Holds(req'[q]) /\ req'[p].k = req'[q].k => p = q
    BY <2>0, <1>r DEF Keyed
  <2>2. /\ \A q \in Requests : At(q, "book", "post")' => posts'[req'[q].k] = 0
        /\ \A q \in Requests : Recorded(req'[q])
                => record'[req'[q].k].ref = req'[q].ref
    BY <1>e, <1>r DEF Keyed, Recorded, At, Idle
  <2>3. \A l \in Keys : /\ record'[l].status = "none" => posts'[l] = 0
                        /\ record'[l].status # "success" => record'[l].ref = NoRef
    BY <1>r DEF Keyed
  <2>4. OneSubmissionPerKey' /\ RecordsTruthful'
    BY <1>r, <1>k DEF Keyed, OneSubmissionPerKey, RecordsTruthful
  <2> QED
    BY <2>1, <2>2, <2>3, <2>4 DEF Keyed
<1>3. Kept'
  <2>1. \A q \in Requests : At(q, "book", "success") => req'[q] = req[q]
    BY <1>e, <1>r DEF At
  <2> QED
    BY <1>r, <1>k, <2>1 DEF Kept, Reliable, At
<1>4. Alone'
  BY <1>r, IdleFacts, BookAlone DEF Idle
<1>5. Single'
  <2>1. \A q \in Requests : Storing(req[q]) /\ req[q].pc # "copy" => req'[q] = req[q]
    BY <1>e, <1>r
  <2> QED
    BY <1>r, <2>1 DEF Single, Reliable
<1> QED
  BY <1>1, <1>2, <1>3, <1>4, <1>5

-----------------------------------------------------------------------------
(* Time and the trip                                                         *)

\* Nothing but a column of a row that is not its status changes, in no request.
LEMMA TimeStep ==
    ASSUME IInv, UNCHANGED <<env, adds, record, booked, details, posts, refused, req, faults>>,
           session' \in [Sessions -> Rows],
           \A s \in Sessions : session'[s].status = session[s].status,
           basket' \subseteq Sessions, trip' \in Trips
    PROVE  IInv'
<1> USE DEF IInv
<1>1. Typed'
  <2>1. Active' = Active
    BY DEF Active
  <2> QED
    BY <2>1 DEF Typed
<1>2. Keyed'
  BY DEF Keyed, At, OneSubmissionPerKey, RecordsTruthful
<1>3. Kept'
  BY DEF Kept, Reliable, At
<1>4. Alone'
  <2> SUFFICES ASSUME env.isolated, NEW r \in Requests PROVE Current(req[r], session')
    BY DEF Alone
  <2>1. Current(req[r], session) /\ Knows(req[r], adds, booked) /\ 1 .. adds \subseteq Sessions
    BY Facts DEF Alone
  <2> QED
    BY <2>1 DEF Current, Knows
<1>5. Single'
  <2>1. \A ref \in booked : ref[1] \in Sessions
    BY DEF Typed, Refs
  <2> QED
    BY <2>1 DEF Single, Reliable
<1> QED
  BY <1>1, <1>2, <1>3, <1>4, <1>5

LEMMA SessionLapsesStep ==
    ASSUME IInv, NEW s \in Sessions, SessionLapses(s), UNCHANGED env PROVE IInv'
<1>1. session[s] \in Rows /\ session \in [Sessions -> Rows]
  BY Facts DEF IInv, Typed
<1>2. session' \in [Sessions -> Rows] /\ \A t \in Sessions : session'[t].status = session[t].status
  BY <1>1 DEF SessionLapses, Rows
<1> QED
  BY <1>2, TimeStep DEF SessionLapses, IInv, Typed

LEMMA HoldLapsesStep ==
    ASSUME IInv, NEW s \in Sessions, HoldLapses(s), UNCHANGED env PROVE IInv'
<1>1. session[s] \in Rows /\ session \in [Sessions -> Rows]
  BY Facts DEF IInv, Typed
<1>2. session' \in [Sessions -> Rows] /\ \A t \in Sessions : session'[t].status = session[t].status
  BY <1>1 DEF HoldLapses, Rows
<1> QED
  BY <1>2, TimeStep DEF HoldLapses, IInv, Typed

\* What becomes of the trip leaves the rows as they are.
LEMMA TripStep ==
    ASSUME IInv, TripMoves \/ ActivityDeleted \/ \E u \in Users : AccessChanges(u), UNCHANGED env
    PROVE  IInv'
<1>0. trip \in Trips
  BY DEF IInv, Typed
<1>1. trip' \in Trips
  <2>1. CASE TripMoves BY <1>0, <2>1 DEF TripMoves, Trips
  <2>2. CASE ActivityDeleted BY <1>0, <2>2 DEF ActivityDeleted, Trips
  <2>3. ASSUME NEW u \in Users, AccessChanges(u) PROVE trip' \in Trips
    BY <1>0, <2>3 DEF AccessChanges, Trips
  <2> QED BY <2>1, <2>2, <2>3
<1>2. UNCHANGED <<session, adds, basket, record, booked, details, posts, refused, req, faults>>
  BY DEF TripMoves, ActivityDeleted, AccessChanges
<1> QED
  BY <1>1, <1>2, TimeStep DEF IInv, Typed

-----------------------------------------------------------------------------
(* The theorems                                                              *)

LEMMA NextIInv == IInv /\ [Next]_vars => IInv'
<1> SUFFICES ASSUME IInv, [Next]_vars PROVE IInv'
  OBVIOUS
<1>1. ASSUME NEW r \in Requests, Arrives(r) \/ Die(r), UNCHANGED env PROVE IInv'
  BY <1>1, ArrivesStep, DieStep
<1>2. ASSUME NEW r \in Requests, Book(r), UNCHANGED env PROVE IInv'
  BY <1>2, BookLookupStep, BookReserveStep, BookConflictStep, BookPostStep, BookFailureStep,
     BookSuccessStep, CompleteVerifyStep, CompleteSessionStep, CopyReferenceStep DEF Book
<1>3. ASSUME NEW r \in Requests, Step(r), UNCHANGED env PROVE IInv'
  BY <1>2, <1>3, AddHoldStep, AddVerifyStep, AddLookupStep, AddSupersedeStep, AddInsertStep, AddBasketStep,
     ValidateStep, ValidateExpireStep, HandoffFindStep, HandoffTripStep, HandoffMarkStep,
     GetExtendStep, RemoveItemStep, CancelReleaseStep, CancelWriteStep DEF Step
<1>4. ASSUME NEW s \in Sessions, SessionLapses(s) \/ HoldLapses(s), UNCHANGED env PROVE IInv'
  BY <1>4, SessionLapsesStep, HoldLapsesStep
<1>5. CASE UNCHANGED vars
  <2>1. basket' \subseteq Sessions /\ trip' \in Trips /\ session' \in [Sessions -> Rows]
    BY <1>5 DEF vars, IInv, Typed
  <2> QED
    BY <1>5, <2>1, TimeStep DEF vars
<1> QED
  BY <1>1, <1>3, <1>4, <1>5, TripStep DEF Next

\* One session of the activity is active at most, one booking at most is submitted under an
\* idempotency key, and what is recorded as a success was booked under that key, however
\* requests overlap, die and are repeated (completeBooking: "Uses idempotency key to prevent
\* double-bookings on retry").
THEOREM BookingsAreSafe == Spec => []BookingSafe
<1>1. IInv => BookingSafe
  <2> SUFFICES ASSUME IInv PROVE TypeOK
    BY DEF BookingSafe, IInv, Keyed
  <2>1. Cardinality(Active) <= 1
    <3>1. CASE Active = {}
      BY <3>1, FS_EmptySet
    <3>2. ASSUME NEW s \in Active PROVE Cardinality(Active) <= 1
      <4>1. Active = {s}
        BY DEF IInv, Typed
      <4>2. Cardinality({s}) = 1
        BY FS_Singleton
      <4> QED
        BY <4>1, <4>2
    <3> QED
      BY <3>1, <3>2
  <2>2. \A r \in Requests : req[r] \in Request /\ req[r].ref \in booked \cup {NoRef}
    BY Facts DEF Knows
  <2> QED
    BY <2>1, <2>2 DEF TypeOK, IInv, Typed, Request, KeyRecord
<1> QED
  BY InitIInv, NextIInv, <1>1, PTL DEF Spec

\* Where no answer is lost and no request dies, and as long as the activity is there, every
\* booking is recorded under its key and the activity refers to a booking, once the requests
\* are answered, unless completeSession refused every booking that was made.
THEOREM BookingsAreRecorded == Spec => []BookingsRecorded
<1>1. IInv => BookingsRecorded
  <2> SUFFICES ASSUME IInv, Quiet, Reliable
               PROVE  /\ \A ref \in booked : record[ref[2]].ref = ref
                      /\ booked # refused => details \in booked
    BY DEF BookingsRecorded
  <2>1. \A r \in Requests : ~Storing(req[r]) /\ ~At(r, "book", "success")
    BY DEF Quiet, Idle, Storing, At
  <2>2. booked # refused => \E ref \in booked : ref \notin refused
    BY DEF IInv, Typed
  <2> QED
    BY <2>1, <2>2 DEF IInv, Kept
<1> QED
  BY InitIInv, NextIInv, <1>1, PTL DEF Spec

\* Where requests neither overlap nor die and no answer is lost, a session is booked once,
\* under whatever keys and whoever loses access to the trip, not counting bookings that were
\* refused their completion: one that was not has completed the session before the next reads it.
THEOREM SessionsBookedOnce == Spec => []OneBookingPerSession
<1>1. IInv => OneBookingPerSession
  <2> SUFFICES ASSUME IInv, env.isolated, Reliable, NEW s \in Sessions
               PROVE  Cardinality({ref \in booked \ refused : ref[1] = s}) <= 1
    BY DEF OneBookingPerSession, Reliable
  <2> DEFINE B == {ref \in booked \ refused : ref[1] = s}
  <2>1. \A a, b \in B : a = b
    BY DEF IInv, Single
  <2>2. CASE B = {}
    BY <2>2, FS_EmptySet
  <2>3. ASSUME NEW ref \in B PROVE Cardinality(B) <= 1
    <3>1. B = {ref}
      BY <2>1
    <3> HIDE DEF B
    <3> QED
      BY <3>1, FS_Singleton
  <2> QED
    BY <2>2, <2>3
<1> QED
  BY InitIInv, NextIInv, <1>1, PTL DEF Spec

\* A row keeps the status it has, unless it is new or active.
Lawful == env.isolated => \A s \in Sessions : session[s].status \in Statuses \ {"active"}
                              => session'[s].status = session[s].status

LEMMA WriteLawful ==
    ASSUME IInv, NEW s \in 1 .. adds, NEW row \in Rows, session' = [session EXCEPT ![s] = row],
           env.isolated => session[s].status \in {"none", "active", row.status}
    PROVE  Lawful
BY Facts DEF IInv, Typed, Lawful, Statuses

LEMMA NextLawful == ASSUME IInv, [Next]_vars PROVE Lawful
<1> USE DEF IInv
<1>s. \A r \in Requests : /\ req[r].op \in {"get", "remove", "cancel", "book"} => req[r].s \in 1 .. adds
                          /\ req[r].op = "add" /\ req[r].pc # "hold" => req[r].s \in 1 .. adds
                          /\ req[r].pc \in {"supersede", "trip", "mark"} => req[r].other \in 1 .. adds
                          /\ env.isolated => Current(req[r], session)
  BY Facts DEF Knows, Alone
<1>0. CASE UNCHANGED session
  BY <1>0 DEF Lawful
<1>1. ASSUME NEW r \in Requests, AddSupersede(r), session' # session PROVE Lawful
  <2>1. req[r].op = "add" /\ req[r].pc = "supersede" /\ req[r].other \in 1 .. adds
    BY <1>1, <1>s DEF AddSupersede, At
  <2>2. \E row \in Rows : session' = [session EXCEPT ![req[r].other] = row] /\ row.status = "cancelled"
    BY <1>1, <2>1, StatusWrite DEF AddSupersede, Statuses
  <2> QED
    BY <1>s, <2>1, <2>2, WriteLawful DEF Current
<1>2. ASSUME NEW r \in Requests, AddInsert(r), session' # session PROVE Lawful
  <2>1. req[r].op = "add" /\ req[r].pc = "insert" /\ req[r].s \in 1 .. adds
    BY <1>2, <1>s DEF AddInsert, At
  <2>2. PICK handoff \in BOOLEAN :
          session' = [session EXCEPT ![req[r].s] = [NoRow EXCEPT !.status = "active",
                                                               !.handoff = handoff]]
    BY <1>2 DEF AddInsert
  <2>3. [NoRow EXCEPT !.status = "active", !.handoff = handoff] \in Rows
    BY DEF NoRow, Rows, Statuses
  <2> QED
    BY <1>s, <2>1, <2>2, <2>3, WriteLawful DEF Current
<1>3. ASSUME NEW r \in Requests, AddBasket(r) \/ HandoffMark(r) \/ GetExtend(r) PROVE Lawful
  <2>1. \A s \in Sessions : session'[s].status = session[s].status
    <3>1. CASE AddBasket(r)
      BY <3>1, Facts DEF AddBasket, Typed, Rows
    <3>2. CASE HandoffMark(r)
      BY <3>2, Facts DEF HandoffMark, Typed, Rows
    <3>3. CASE GetExtend(r)
      BY <3>3, Facts DEF GetExtend, Typed, Rows
    <3> QED
      BY <1>3, <3>1, <3>2, <3>3
  <2> QED
    BY <2>1 DEF Lawful
<1>4. ASSUME NEW r \in Requests, NEW status \in Statuses, req[r].s \in 1 .. adds,
             session' = [session EXCEPT ![req[r].s].status = status],
             env.isolated => session[req[r].s].status = "active"
      PROVE  Lawful
  <2>1. \E row \in Rows : session' = [session EXCEPT ![req[r].s] = row] /\ row.status = status
    BY <1>4, StatusWrite
  <2> QED
    BY <1>4, <2>1, WriteLawful
<1>5. ASSUME NEW r \in Requests, ValidateExpire(r) PROVE Lawful
  <2>1. req[r].pc = "expire" /\ req[r].op \in {"get", "remove", "cancel", "book"}
    <3>1. req[r] \in Request /\ Knows(req[r], adds, booked) /\ req[r].pc = "expire"
      BY <1>5, Facts DEF ValidateExpire
    <3> QED
      BY <3>1 DEF Request, Operations, Knows, Idle
  <2> QED
    BY <1>4, <1>5, <1>s, <2>1 DEF ValidateExpire, Statuses, Current
<1>6. ASSUME NEW r \in Requests, CancelWrite(r) PROVE Lawful
  BY <1>4, <1>6, <1>s DEF CancelWrite, At, Statuses, Current
<1>7. ASSUME NEW r \in Requests, CompleteSession(r), session' # session PROVE Lawful
  BY <1>4, <1>7, <1>s DEF CompleteSession, At, Statuses, Current
<1>8. ASSUME NEW s \in Sessions, SessionLapses(s) \/ HoldLapses(s) PROVE Lawful
  BY <1>8, Facts DEF SessionLapses, HoldLapses, Typed, Rows, Lawful
<1>9. ASSUME NEW r \in Requests, Arrives(r) \/ Die(r) PROVE UNCHANGED session
  BY <1>9 DEF Arrives, Arrive, Retry, Die
<1>10. ASSUME NEW r \in Requests, Book(r) PROVE UNCHANGED session \/ CompleteSession(r)
  BY <1>10 DEF Book, BookLookup, BookReserve, BookConflict, BookPost, BookFailure, BookSuccess,
               CompleteVerify, CopyReference
<1>11. ASSUME NEW r \in Requests, Step(r)
       PROVE  \/ UNCHANGED session \/ AddSupersede(r) \/ AddInsert(r) \/ AddBasket(r)
              \/ HandoffMark(r) \/ GetExtend(r) \/ ValidateExpire(r) \/ CancelWrite(r)
              \/ CompleteSession(r)
  BY <1>10, <1>11 DEF Step, AddHold, AddVerify, AddLookup, Validate, HandoffFind, HandoffTrip, RemoveItem,
                      CancelRelease
<1>12. CASE TripMoves \/ ActivityDeleted \/ (\E u \in Users : AccessChanges(u)) \/ UNCHANGED vars
  BY <1>0, <1>12 DEF TripMoves, ActivityDeleted, AccessChanges, vars
<1>13. ASSUME NEW r \in Requests, Step(r) PROVE Lawful
  BY <1>0, <1>1, <1>2, <1>3, <1>5, <1>6, <1>7, <1>11, <1>13
<1> QED
  BY <1>0, <1>8, <1>9, <1>12, <1>13 DEF Next

\* While requests do not overlap, a session that is completed, cancelled or expired never
\* becomes anything else (docs/CRUISE_ARCHITECTURE.md, Status Transitions).
THEOREM SessionsFollowLifecycle == Spec => FollowsLifecycle
<1>1. IInv /\ [Next]_vars => [Lawful]_vars
  BY NextLawful
<1> QED
  BY InitIInv, NextIInv, <1>1, PTL DEF Spec, FollowsLifecycle, Lawful
=============================================================================
