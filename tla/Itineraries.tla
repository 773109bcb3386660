------------------------------ MODULE Itineraries ------------------------------
(* The itineraries of the trip (trips/itineraries.service.ts): at most one is *)
(* meant to be approved, and one is shown (isSelected).  "draft" also stands  *)
(* for "proposing".                                                           *)
EXTENDS ItineraryDays

CreateItinerary(r) ==
    \E status \in {"draft", "approved"}, dated \in BOOLEAN :
        Arrive(r, [Idle EXCEPT !.op = "createItinerary", !.v = status,
            !.pc = <<"count">> \o (IF status = "approved" THEN <<"archive">> ELSE <<>>)
                   \o <<"insert">> \o (IF dated THEN <<"clearDays", "fillDays">> ELSE <<>>)])

\* Is it the first itinerary of a trip that exists?
CreateItineraryCount(r) ==
    /\ Due(r, "createItinerary", "count")
    /\ IF db.trip[TheTrip] = NoTrip THEN Refuse(r)
       ELSE Go(r, [Next1(r) EXCEPT !.n = Cardinality(ItinsOf(db))]) /\ UNCHANGED db

\* The approved itineraries of the trip, but i, are archived.
ArchiveApproved(t, i) ==
    [t EXCEPT !.itin = [j \in Itins |-> IF j # i /\ @[j].status = "approved"
                                          THEN [status |-> "archived", selected |-> FALSE]
                                          ELSE @[j]]]

CreateItineraryArchive(r) ==
    /\ Due(r, "createItinerary", "archive")
    /\ db' = ArchiveApproved(db, 0)
    /\ Go(r, Next1(r))

\* The new itinerary is shown when it is approved or the first one; it needs its trip.
CreateItineraryInsert(r) ==
    /\ Due(r, "createItinerary", "insert")
    /\ IF db.trip[TheTrip] = NoTrip THEN Refuse(r)
       ELSE /\ db' = AddItin(db, [status |-> req[r].v,
                                  selected |-> req[r].v = "approved" \/ req[r].n = 0])
            /\ IF Len(req[r].pc) = 1 THEN Reply(r, "ok")
               ELSE Go(r, [Next1(r) EXCEPT !.i = db.made.itin + 1])

-----------------------------------------------------------------------------
(* findAll with isSelected = true shows the only itinerary of the trip       *)

ListSelected(r) ==
    Arrive(r, [Idle EXCEPT !.op = "listItineraries", !.pc = <<"selected", "all", "select">>])

ListSelectedRead(r) ==
    /\ Due(r, "listItineraries", "selected")
    /\ IF \E i \in ItinsOf(db) : db.itin[i].selected THEN Reply(r, "ok") ELSE Go(r, Next1(r))
    /\ UNCHANGED db

ListAllRead(r) ==
    /\ Due(r, "listItineraries", "all")
    /\ IF Cardinality(ItinsOf(db)) = 1
       THEN Go(r, [Next1(r) EXCEPT !.i = CHOOSE i \in ItinsOf(db) : TRUE])
       ELSE Reply(r, "ok")
    /\ UNCHANGED db

-----------------------------------------------------------------------------
(* update and selectItinerary                                                *)

UpdateItinerary(r) ==
    \E i \in Itins, status \in {"none", "draft", "approved", "archived"} :
        Arrive(r, [Idle EXCEPT !.op = "updateItinerary", !.i = i, !.v = status,
            !.pc = IF status = "approved" THEN <<"find", "archive", "approve">>
                                          ELSE <<"find", "write">>])

\* flag: the itinerary was approved when it was read.
UpdateItineraryFind(r) ==
    /\ Due(r, "updateItinerary", "find")
    /\ IF req[r].i \in ItinsOf(db)
       THEN /\ Go(r, [Next1(r) EXCEPT !.flag = db.itin[req[r].i].status = "approved"])
            /\ UNCHANGED db
       ELSE Refuse(r)

\* Fault: the itinerary approved before is not archived.
UpdateItineraryKeeps(r) ==
    /\ Due(r, "updateItinerary", "archive") /\ Go(r, Next1(r)) /\ UNCHANGED db

UpdateItineraryArchive(r) ==
    /\ Due(r, "updateItinerary", "archive")
    /\ db' = ArchiveApproved(db, req[r].i)
    /\ Go(r, Next1(r))

UpdateItineraryApprove(r) ==
    /\ Due(r, "updateItinerary", "approve")
    /\ IF req[r].i \in ItinsOf(db)
       THEN db' = [db EXCEPT !.itin[req[r].i] = [status |-> "approved", selected |-> TRUE]]
            /\ Finish(r)
       ELSE Refuse(r)

\* Another status, or none in the request; leaving "approved" hides the itinerary.
UpdateItineraryWrite(r) ==
    LET i == req[r].i
    IN  /\ Due(r, "updateItinerary", "write")
        /\ IF i \in ItinsOf(db)
           THEN /\ db' = [db EXCEPT
                        !.itin[i].status = IF req[r].v = "none" THEN @ ELSE req[r].v,
                        !.itin[i].selected = @ /\ (req[r].v = "none" \/ ~req[r].flag)]
                /\ Finish(r)
           ELSE Refuse(r)

SelectItinerary(r) ==
    \E i \in Itins : Arrive(r, [Idle EXCEPT !.op = "selectItinerary", !.i = i,
                                            !.pc = <<"find", "deselect", "select">>])

SelectItineraryDeselect(r) ==
    /\ Due(r, "selectItinerary", "deselect")
    /\ db' = [db EXCEPT !.itin = [j \in Itins |-> IF j = req[r].i THEN @[j]
                                                   ELSE [@[j] EXCEPT !.selected = FALSE]]]
    /\ Go(r, Next1(r))

\* The last step of selectItinerary, and of findAll when one itinerary is all there is.
SelectItineraryWrite(r) ==
    /\ req[r].op \in {"selectItinerary", "listItineraries"} /\ Due(r, req[r].op, "select")
    /\ IF req[r].i \in ItinsOf(db)
       THEN db' = [db EXCEPT !.itin[req[r].i].selected = TRUE] /\ Finish(r)
       ELSE Refuse(r)

-----------------------------------------------------------------------------
(* remove                                                                    *)

RemoveItinerary(r) ==
    \E i \in Itins : Arrive(r, [Idle EXCEPT !.op = "removeItinerary", !.i = i,
                                            !.pc = <<"find", "count", "delete">>])

\* The first read of select and remove; an approved itinerary is not removed.
ItineraryFind(r) ==
    /\ req[r].op \in {"selectItinerary", "removeItinerary"} /\ Due(r, req[r].op, "find")
    /\ IF /\ req[r].i \in ItinsOf(db)
          /\ req[r].op = "removeItinerary" => db.itin[req[r].i].status # "approved"
       THEN Go(r, Next1(r)) /\ UNCHANGED db
       ELSE Refuse(r)

RemoveItineraryCount(r) ==
    /\ Due(r, "removeItinerary", "count")
    /\ IF Cardinality(ItinsOf(db)) > 1 THEN Go(r, Next1(r)) /\ UNCHANGED db ELSE Refuse(r)

RemoveItineraryDelete(r) ==
    /\ Due(r, "removeItinerary", "delete")
    /\ \A d \in DaysOf(db, req[r].i) : ~Locked(d)
    /\ IF req[r].i \in ItinsOf(db) THEN db' = DropItin(db, req[r].i) /\ Finish(r)
       ELSE Refuse(r)
=============================================================================
