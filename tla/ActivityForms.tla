------------------------------ MODULE ActivityForms ------------------------------
(* One form of the admin application, open on a new activity (trips/[id]/      *)
(* _components/*-form.tsx).  A debounced timer saves by itself, a button saves  *)
(* at once; both create until the form knows the id of its activity.  form.id   *)
(* stands for the state and for the ref that shadows it.  What is typed is left *)
(* out: the effect of a form may arm the timer whenever its gates let it.       *)
EXTENDS PortSchedules

NoForm == [kind |-> "none", id |-> 0, timer |-> FALSE]

Pending == \E r \in Requests : req[r].by \in {"auto", "manual", "generate"}

\* The steps of the request a form sends, and what it writes.
Writes(kind) ==
    CASE kind = "flight" -> <<"details", "clear", "segments", "setPrice">>
      [] kind = "port_info" -> <<"details">>
      [] kind = "tour" -> <<>>
      [] kind = "package" -> <<"package", "plan">>
      [] OTHER -> <<"details", "setPrice">>

Rewrites(kind) ==
    CASE kind = "flight" -> <<"base">> \o FindDetails \o <<"clear", "segments">> \o FindPrice
      [] kind = "port_info" -> <<"base">> \o FindDetails
      [] kind \in {"tour", "package"} -> <<"write">>
      [] OTHER -> <<"base">> \o FindDetails \o FindPrice

\* The row of the request: a create while no id is known.
SaveRow(by) ==
    LET simple == form.kind \in {"tour", "package"}
    IN  IF form.id = 0
        THEN [Idle EXCEPT !.op = IF simple THEN "createActivity" ELSE "createComponent",
                          !.v = form.kind, !.d = 1, !.by = by, !.seen = {left},
                          !.pc = BaseCreate \o Writes(form.kind)]
        ELSE [Idle EXCEPT !.op = IF simple THEN "updateActivity" ELSE "updateComponent",
                          !.v = "name", !.a = form.id, !.by = by, !.seen = {left},
                          !.pc = <<"find">> \o Rewrites(form.kind)]

Send(r, by) ==
    /\ left > 0 /\ req[r] = Idle
    /\ req' = [req EXCEPT ![r] = SaveRow(by)]
    /\ left' = left - 1
    /\ form' = [form EXCEPT !.timer = FALSE]
    /\ UNCHANGED <<db, faults>>

\* The effect of the form runs: nothing is pending, there is something to save.
FormEffect ==
    /\ form.kind # "none" /\ ~form.timer /\ ~Pending
    /\ form.kind = "lodging" => form.id # 0
    /\ form' = [form EXCEPT !.timer = TRUE]
    /\ UNCHANGED <<db, req, left, faults>>

Autosave(r, kind) == form.kind = kind /\ form.timer /\ ~Pending /\ Send(r, "auto")
FlightAutosave(r) == Autosave(r, "flight")
DiningAutosave(r) == Autosave(r, "dining")
OptionsAutosave(r) == Autosave(r, "options")
TourAutosave(r) == Autosave(r, "tour")
PortInfoAutosave(r) == Autosave(r, "port_info")
PackageAutosave(r) == Autosave(r, "package")
CustomCruiseAutosave(r) == Autosave(r, "custom_cruise")
LodgingAutosave(r) == Autosave(r, "lodging")
TransportationAutosave(r) == Autosave(r, "transportation")

\* The button looks at the state alone, not at the request in progress.
Save(r, kind) == form.kind = kind /\ env.manual /\ Send(r, "manual")
FlightSave(r) == Save(r, "flight")
DiningSave(r) == Save(r, "dining")
OptionsSave(r) == Save(r, "options")
TourSave(r) == Save(r, "tour")
PortInfoSave(r) == Save(r, "port_info")
PackageSave(r) == Save(r, "package")
CustomCruiseSave(r) == Save(r, "custom_cruise")
LodgingSave(r) == Save(r, "lodging")
\* Fault: the button stays enabled while a save is pending.
TransportationSaveAnyTime(r) == Save(r, "transportation")
TransportationSave(r) == ~Pending /\ Save(r, "transportation")

\* Save & Generate Ports, shown while the cruise has no id.
SaveAndGeneratePorts(r) ==
    /\ form.kind = "custom_cruise" /\ env.manual /\ form.id = 0
    /\ \A q \in Requests : req[q].by # "ports"
    /\ Send(r, "generate")

\* The answer of a save: the form knows its activity from here on.  An autosave keeps an id
\* it has, the button's answer replaces it.
SaveAnswered(r) ==
    /\ req[r].op \in {"ok", "failed"}
    /\ req[r].op = "ok" => req[r].by # "generate"
    /\ req' = [req EXCEPT ![r] = Idle]
    /\ form' = [form EXCEPT !.id = IF \/ req[r].op = "failed" \/ req[r].by = "ports"
                                      \/ req[r].by = "auto" /\ @ # 0
                                   THEN @ ELSE req[r].a]
    /\ UNCHANGED <<db, left, faults>>

\* The cruise is saved: its ports are generated with the next request.
PortsAfterSave(r) ==
    /\ req[r].op = "ok" /\ req[r].by = "generate"
    /\ form' = [form EXCEPT !.id = req[r].a]
    /\ req' = [req EXCEPT ![r] =
            [Idle EXCEPT !.op = "generatePorts", !.a = req[r].a, !.v = "dates", !.by = "ports",
                         !.pc = <<"validate", "bounds", "delete", "dates", "maxDays",
                                  "insertDays", "readDays", "insertPorts", "portDetails">>]]
    /\ UNCHANGED <<db, left, faults>>
=============================================================================
