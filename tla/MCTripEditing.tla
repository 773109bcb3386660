----------------------------- MODULE MCTripEditing -----------------------------
EXTENDS TripEditing, TLC

CONSTANTS r1, r2

ASSUME PremisesAssumption == FormsAlone /\ CopiesAlone

Symmetry == Permutations(Requests)

\* By default requests do not overlap, none dies, and no form is open; the index on the dates
\* is there.
Rules == [operations |-> {}, requests |-> 2, faults |-> 0, isolated |-> TRUE, dateIndex |-> TRUE,
          manual |-> FALSE, numbered |-> FALSE, copies |-> FALSE, patches |-> {}]
Plan == [rules |-> Rules, form |-> "none", acts |-> <<>>,
         itins |-> <<[status |-> "draft", selected |-> TRUE]>>,
         days |-> <<DayRow(1, 1, 0, 1)>>]

Planning ==
    [Plan EXCEPT !.itins = <<>>, !.days = <<>>, !.rules.requests = 4, !.rules.faults = 1,
        !.rules.operations = {"createItinerary", "listItineraries", "updateItinerary",
                              "selectItinerary", "removeItinerary"}]

DayOps == {"createDay", "updateDay", "removeDay", "reorderDays", "autoGenerate", "batchCreate"}
Numbered ==
    {[Plan EXCEPT !.rules.requests = 3, !.rules.numbered = TRUE,
                  !.rules.operations = DayOps \cup {gate}] : gate \in {"batchStart", "preTravel"}}
ByDate == [Plan EXCEPT !.rules.isolated = FALSE,
                       !.rules.operations = {"dayByDate", "removeDay", "batchCreate"}]

Act(kind, seq) == ActRow(kind, 1, 0, seq)
Redated ==
    {[Plan EXCEPT !.rules.numbered = TRUE,
                  !.rules.operations = {"createDay", "updateDay", "batchCreate", "redate"}],
     [Plan EXCEPT !.acts = <<Act("custom_cruise", 0)>>,
                  !.rules.operations = {"updateDay", "redate", "generatePorts"}]}
Flights ==
    [Plan EXCEPT !.acts = <<Act("flight", 0)>>, !.rules.isolated = FALSE, !.rules.requests = 3,
                 !.rules.operations = {"updateComponent"}]
Endpoints ==
    [Plan EXCEPT !.rules.faults = 1,
        !.rules.operations = {"createComponent", "updateComponent", "deleteComponent", "place"}]
Copies ==
    [Plan EXCEPT !.acts = <<Act("flight", 0), Act("tour", 1)>>, !.rules.isolated = FALSE,
        !.rules.copies = TRUE, !.rules.requests = 2,
        !.rules.operations = {"duplicate", "removeActivity", "removeDay"}]
Packages ==
    {[Plan EXCEPT !.acts = <<Act("package", 0), Act("tour", 1)>>, !.rules.requests = 3,
        !.rules.operations = ops] :
        ops \in {{"createActivity", "updateActivity", "link", "unlink", "nest"},
                 {"updateActivity", "book", "link", "move", "reorderActivities", "removeActivity"}}}
Cruise == [Plan EXCEPT !.acts = <<Act("custom_cruise", 0)>>, !.rules.faults = 1,
               !.rules.operations = {"generatePorts", "removeDay"}]
Entries == [Cruise EXCEPT !.rules.requests = 1,
               !.rules.operations = {"createComponent", "portEntries"}]
Tour == [Plan EXCEPT !.acts = <<Act("custom_tour", 0)>>, !.rules.faults = 1,
             !.rules.operations = {"generateTour", "removeDay"}]

\* One request while another removes the rows under it.
Overlap(acts, ops) ==
    [Plan EXCEPT !.acts = acts, !.rules.isolated = FALSE, !.rules.operations = ops,
        !.itins = @ \o <<[status |-> "draft", selected |-> FALSE]>>,
        !.days = @ \o <<DayRow(1, 2, 1, 2)>>]
Overlaps ==
    {Overlap(<<Act("package", 0), Act("tour", 1)>>, {op, "place", "removeDay", "removeActivity"}) :
        op \in {"createActivity", "updateActivity", "move", "reorderActivities", "link",
                "duplicate"}}
    \cup {Overlap(<<>>, {op, "batchStart", "removeDay", "removeItinerary"}) :
        op \in {"createDay", "updateDay", "reorderDays", "autoGenerate", "batchCreate",
                "updateItinerary", "selectItinerary"}}
    \cup {Overlap(<<Act("custom_cruise", 0)>>, {"updateComponent", "removeActivity"}),
          Overlap(<<Act("tour_day", 0)>>, {"updateComponent", "removeActivity"}),
          Overlap(<<>>, {"updateDay", "redate", "removeDay", "removeItinerary"}),
          Overlap(<<Act("custom_cruise", 0)>>, {"generatePorts", "removeDay", "removeItinerary"}),
          Overlap(<<Act("custom_tour", 0)>>, {"generateTour", "removeDay", "removeActivity"}),
          [Overlap(<<>>, {"listItineraries", "removeItinerary"}) EXCEPT
                !.itins = <<[status |-> "draft", selected |-> FALSE], @[2]>>]}

Forms == {[Plan EXCEPT !.form = kind, !.rules.isolated = FALSE, !.rules.manual = manual] :
            kind \in {"flight", "dining", "options", "tour", "port_info", "package",
                      "custom_cruise", "lodging", "transportation"}, manual \in BOOLEAN}

\* Trips without a plan.
NoPlan == [Plan EXCEPT !.itins = <<>>, !.days = <<>>]
Columns == {"group", "contact", "published", "archived", "date"}
TripOps == {"createTrip", "updateTrip", "removeTrip", "bulkDelete", "bulkArchive", "bulkStatus"}
Office ==
    {[NoPlan EXCEPT !.rules.requests = 3,
                    !.rules.operations = {"createTrip", "updateTrip", "removeTrip"}],
     [NoPlan EXCEPT !.rules.requests = 3,
                    !.rules.operations = {"publishTrip", "unpublishTrip"}],
     [NoPlan EXCEPT !.rules.patches = {"published", "date"}, !.rules.requests = 3,
                    !.rules.operations = {"updateTrip", "publishTrip", "unpublishTrip"}],
     [NoPlan EXCEPT !.rules.patches = {"contact", "archived"}, !.rules.requests = 3,
                    !.rules.operations = {"updateTrip"}],
     [NoPlan EXCEPT !.rules.patches = Columns, !.rules.isolated = FALSE,
                    !.rules.operations = {"updateTrip", "publishTrip"}],
     [NoPlan EXCEPT !.rules.faults = 1, !.rules.operations = TripOps],
     [NoPlan EXCEPT !.rules.isolated = FALSE,
                    !.rules.operations = TripOps \cup {"unpublishTrip"}]}
Ordering ==
    {[NoPlan EXCEPT !.rules.requests = 4, !.rules.faults = 1,
                    !.rules.operations = {"generateOrder", "finalizeOrder", "sendOrder"}],
     [NoPlan EXCEPT !.rules.requests = 4, !.rules.isolated = FALSE,
        !.rules.operations = {"generateOrder", "finalizeOrder", "sendOrder", "removeTrip"}]}
TripGoes == {Overlap(<<Act("tour", 0)>>, {op, "removeTrip"}) :
                op \in {"createItinerary", "updateItinerary", "createActivity", "duplicate"}}

Every == {Planning, ByDate, Flights, Endpoints, Copies, Cruise, Entries, Tour}
            \cup Numbered \cup Redated \cup Packages \cup Overlaps \cup Forms
            \cup Office \cup Ordering \cup TripGoes

\* A trip that changes its group.
OneGroup == {[NoPlan EXCEPT !.rules.patches = {"group"}, !.rules.requests = 1,
                            !.rules.operations = {"updateTrip"}]}

\* A trip that is booked while it is removed.
OneTrip == {[NoPlan EXCEPT !.rules.isolated = FALSE,
                           !.rules.operations = {"updateTrip", "removeTrip"}]}

\* A package with a child, and the deletion of activities.
PackageWithChild ==
    {[Plan EXCEPT !.acts = <<Act("package", 0), [Act("tour", 1) EXCEPT !.parent = 1]>>,
        !.rules.operations = {"removeActivity", "updateActivity", "unlink"}]}
=============================================================================
