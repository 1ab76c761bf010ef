------------------------------ MODULE Catalogue ------------------------------
(***************************************************************************)
(* What a trip is made of: seat templates, buses, drivers and routes, as   *)
(* the managers of an organization and of its branches edit them, and the  *)
(* trips that are created, staffed, repaired and deleted meanwhile.        *)
(*                                                                         *)
(* A handler that only reads what its own write, or a foreign key, checks  *)
(* again is one action.  The others read in one step and write in another: *)
(* tx[w] is what the request served by w has read.  Any request may be     *)
(* lost before its write (Abort).  The status, price and sales of a trip   *)
(* are in TripSales; the deletion of a trip is its TripRemove.             *)
(***************************************************************************)
EXTENDS Integers

CONSTANTS
  Branches,   \* branches of the organization
  Templates,  \* ids of seat templates
  Buses, Drivers, Routes, Trips,
  Workers,    \* requests the backend serves at the same time
  Grids,      \* rows and columns of the templates asked for
  Listed,     \* lists of seats a request may give instead, see Entry
  None

Positive == Nat \ {0}

\* The text of a label: a letter and a number, letter 0 if it is no default label.
LabelText == [letter : Nat, number : Nat]

\* A listed seat: its place (row, column) and its own label, if it has one.
Entry == [place : Positive \X Positive, label : LabelText \cup {None}]

ASSUME SizesArePositive == Grids \subseteq Positive \X Positive
ASSUME ListsHaveSeats == Listed \subseteq (SUBSET Entry) \ {{}}
ASSUME NoneIsNoLabel == None \notin LabelText
ASSUME NoneIsNothing ==
  None \notin Branches \cup Templates \cup Buses \cup Drivers \cup Routes \cup Trips

VARIABLES
  used,      \* ids given out: an id is never given twice
  template,  \* seats of each template, {} while there is no row
  bus,       \* bus[b].exists, its branch, template and whether it is READY
  driver,    \* whether it exists, its branch, ACTIVE with a valid licence
  route,     \* whether it exists, its branch
  trip,      \* trips rows: branch, route, bus, driver and seats
  tx         \* what each request in progress has read

rows == <<template, bus, driver, route, trip>>
vars == <<used, rows, tx>>

Cells(grid) == (1 .. grid[1]) \X (1 .. grid[2])
Ids == Templates \cup Buses \cup Drivers \cup Routes \cup Trips
MaybeBranch == Branches \cup {None}

\* columnLetter(column) followed by the row.
Label(place) == [letter |-> place[2], number |-> place[1]]

Seat == [place : Positive \X Positive, label : LabelText]

\* The seat of an entry: its own label comes before the default one.
SeatOf(entry) ==
  [place |-> entry.place,
   label |-> IF entry.label = None THEN Label(entry.place) ELSE entry.label]

GridOf(grid) == [place : Cells(grid), label : {None}]

NoBus == [exists |-> FALSE, branch |-> None, template |-> None, ready |-> FALSE]
NoDriver == [exists |-> FALSE, branch |-> None, fit |-> FALSE]
NoRoute == [exists |-> FALSE, branch |-> None]
NoTrip == [exists |-> FALSE, by |-> None, branch |-> None, route |-> None,
           bus |-> None, driver |-> None, seats |-> {}]
Idle == [op |-> "idle", by |-> None, of |-> None, to |-> NoTrip]

TripRow == [exists : BOOLEAN, by : MaybeBranch, branch : MaybeBranch,
            route : Routes \cup {None}, bus : Buses \cup {None},
            driver : Drivers \cup {None}, seats : SUBSET Seat]

Operations == {"idle", "driver", "delete", "deactivate", "trip", "assign", "seats"}
Request == [op : Operations, by : MaybeBranch,
            of : Drivers \cup Trips \cup {None}, to : TripRow]

TypeOK ==
  /\ used \subseteq Ids
  /\ template \in [Templates -> SUBSET Seat]
  /\ bus \in [Buses -> [exists : BOOLEAN, branch : MaybeBranch,
                        template : Templates \cup {None}, ready : BOOLEAN]]
  /\ driver \in [Drivers -> [exists : BOOLEAN, branch : MaybeBranch, fit : BOOLEAN]]
  /\ route \in [Routes -> [exists : BOOLEAN, branch : MaybeBranch]]
  /\ trip \in [Trips -> TripRow]
  /\ tx \in [Workers -> Request]

Init ==
  /\ used = {}
  /\ template = [t \in Templates |-> {}]
  /\ bus = [b \in Buses |-> NoBus]
  /\ driver = [d \in Drivers |-> NoDriver]
  /\ route = [r \in Routes |-> NoRoute]
  /\ trip = [t \in Trips |-> NoTrip]
  /\ tx = [w \in Workers |-> Idle]

\* Mutation of InScope: the filter on the branch is forgotten.
InOrganization(row, user) == row.exists

\* tenantScope: a branch user sees the rows of the branch, a manager all rows.
InScope(row, user) == row.exists /\ user \in {None, row.branch}

Or(branch, otherwise) == IF branch # None THEN branch ELSE otherwise

Begin(w, op, user, of, to) ==
  /\ tx' = [tx EXCEPT ![w] = [op |-> op, by |-> user, of |-> of, to |-> to]]
  /\ UNCHANGED <<used, rows>>

\* Insertion of a row under a new id.
Give(id) == id \notin used /\ used' = used \cup {id}

End(w) == tx' = [tx EXCEPT ![w] = Idle]

-----------------------------------------------------------------------------
(* Seat templates, buses, routes *)

\* Either the grid of rows and columns or the seats listed in the request.  Their
\* labels, not their places, are unique in a template.
CreateTemplate(t) ==
  /\ Give(t)
  /\ \E entries \in {GridOf(grid) : grid \in Grids} \cup Listed :
       /\ \A x, y \in entries : SeatOf(x).label = SeatOf(y).label => x = y
       /\ template' = [template EXCEPT ![t] = {SeatOf(x) : x \in entries}]
  /\ UNCHANGED <<bus, driver, route, trip, tx>>

\* Foreign key buses.seatTemplateId, ON DELETE RESTRICT.
RemoveTemplate(t) ==
  /\ template[t] # {}
  /\ \A b \in Buses : bus[b].template # t
  /\ template' = [template EXCEPT ![t] = {}]
  /\ UNCHANGED <<used, bus, driver, route, trip, tx>>

CreateBus(b, user, t) ==
  /\ Give(b)
  /\ template[t] # {}
  /\ \E ready \in BOOLEAN :
       bus' = [bus EXCEPT ![b] = [exists |-> TRUE, branch |-> user,
                                  template |-> t, ready |-> ready]]
  /\ UNCHANGED <<template, driver, route, trip, tx>>

UpdateBus(b, user, t) ==
  /\ InScope(bus[b], user)
  /\ template[t] # {}
  /\ \E ready \in BOOLEAN :
       bus' = [bus EXCEPT ![b].template = t, ![b].ready = ready]
  /\ UNCHANGED <<used, template, driver, route, trip, tx>>

\* Mutation of Unused: trips are detached, or deleted, with what they refer to.
Detached(id) == TRUE

\* Foreign keys trips.busId and trips.routeId, ON DELETE RESTRICT.
Unused(id) ==
  \A t \in Trips : id \notin {trip[t].bus, trip[t].route, trip[t].driver}

RemoveBus(b, user) ==
  /\ InScope(bus[b], user)
  /\ Unused(b)
  /\ bus' = [bus EXCEPT ![b] = NoBus]
  /\ UNCHANGED <<used, template, driver, route, trip, tx>>

CreateRoute(r, user) ==
  /\ Give(r)
  /\ route' = [route EXCEPT ![r] = [exists |-> TRUE, branch |-> user]]
  /\ UNCHANGED <<template, bus, driver, trip, tx>>

RemoveRoute(r, user) ==
  /\ InScope(route[r], user)
  /\ Unused(r)
  /\ route' = [route EXCEPT ![r] = NoRoute]
  /\ UNCHANGED <<used, template, bus, driver, trip, tx>>

-----------------------------------------------------------------------------
(* Drivers *)

CreateDriver(d, user) ==
  /\ Give(d)
  /\ \E asked \in MaybeBranch, fit \in BOOLEAN :
       driver' = [driver EXCEPT ![d] = [exists |-> TRUE, fit |-> fit,
                                        branch |-> Or(user, asked)]]
  /\ UNCHANGED <<template, bus, route, trip, tx>>

\* The branch written is the one the request found, unless it asks for another.
DriverRead(w, d, user) ==
  /\ tx[w] = Idle
  /\ InScope(driver[d], user)
  /\ \E asked \in MaybeBranch :
       Begin(w, "driver", user, d,
             [NoTrip EXCEPT !.branch = Or(user, Or(asked, driver[d].branch))])

DriverWrite(w) ==
  LET d == tx[w].of IN
  /\ tx[w].op = "driver"
  /\ driver[d].exists
  /\ \E fit \in BOOLEAN :
       driver' = [driver EXCEPT ![d].branch = tx[w].to.branch, ![d].fit = fit]
  /\ End(w)
  /\ UNCHANGED <<used, template, bus, route, trip>>

LicenseExpires(d) ==
  /\ driver[d].fit
  /\ driver' = [driver EXCEPT ![d].fit = FALSE]
  /\ UNCHANGED <<used, template, bus, route, trip, tx>>

\* remove counts the trips first; what it found decides what it does.
RemoveDriverRead(w, d, user) ==
  /\ tx[w] = Idle
  /\ InScope(driver[d], user)
  /\ Begin(w, IF Unused(d) THEN "delete" ELSE "deactivate", user, d, NoTrip)

Deactivate(w) ==
  LET d == tx[w].of IN
  /\ tx[w].op = "deactivate"
  /\ driver[d].exists
  /\ driver' = [driver EXCEPT ![d].fit = FALSE]
  /\ End(w)
  /\ UNCHANGED <<used, template, bus, route, trip>>

\* trips.driverId is SET NULL by one foreign key and RESTRICTed by another: a
\* trip committed since the count loses its driver or makes the deletion fail.
DeleteDriver(w) ==
  LET d == tx[w].of IN
  /\ tx[w].op = "delete"
  /\ driver[d].exists
  /\ driver' = [driver EXCEPT ![d] = NoDriver]
  /\ trip' = [t \in Trips |-> IF trip[t].driver = d
                              THEN [trip[t] EXCEPT !.driver = None] ELSE trip[t]]
  /\ End(w)
  /\ UNCHANGED <<used, template, bus, route>>

-----------------------------------------------------------------------------
(* Trips *)

\* The driver asked for, if any, is in scope, ACTIVE and licensed when read.
Assignable(d, user) == d # None => InScope(driver[d], user) /\ driver[d].fit

TripRead(w, user, r, b, d) ==
  /\ tx[w] = Idle
  /\ InScope(route[r], user)
  /\ InScope(bus[b], user)
  /\ bus[b].ready
  /\ Assignable(d, user)
  /\ Begin(w, "trip", user, None,
           [exists |-> TRUE, by |-> user,
            branch |-> Or(user, Or(route[r].branch, bus[b].branch)),
            route |-> r, bus |-> b, driver |-> d,
            seats |-> template[bus[b].template]])

\* The foreign keys are checked when the trip and its seats are inserted.
References(row) ==
  /\ route[row.route].exists
  /\ bus[row.bus].exists
  /\ row.driver # None => driver[row.driver].exists

TripWrite(w, t) ==
  /\ tx[w].op = "trip"
  /\ Give(t)
  /\ References(tx[w].to)
  /\ trip' = [trip EXCEPT ![t] = tx[w].to]
  /\ End(w)
  /\ UNCHANGED <<template, bus, driver, route>>

AssignRead(w, t, user, d) ==
  /\ tx[w] = Idle
  /\ InScope(trip[t], user)
  /\ Assignable(d, user)
  /\ Begin(w, "assign", user, t, [NoTrip EXCEPT !.driver = d])

AssignWrite(w) ==
  LET t == tx[w].of  d == tx[w].to.driver IN
  /\ tx[w].op = "assign"
  /\ trip[t].exists
  /\ driver[d].exists
  /\ trip' = [trip EXCEPT ![t].driver = d]
  /\ End(w)
  /\ UNCHANGED <<used, template, bus, driver, route>>

\* Mutation of Lacking: seats are compared by their places.
LackingPlace(t, seats) == {s \in seats : \A x \in trip[t].seats : x.place # s.place}

\* Those of the seats whose label the trip lacks.
Lacking(t, seats) == {s \in seats : \A x \in trip[t].seats : x.label # s.label}

\* GET /trips/:id/seats adds the seats of the bus's template the trip lacks.
Missing(t) == Lacking(t, template[bus[trip[t].bus].template])

SeatsRead(w, t, user) ==
  /\ tx[w] = Idle
  /\ InScope(trip[t], user)
  /\ Missing(t) # {}
  /\ Begin(w, "seats", user, t, [NoTrip EXCEPT !.seats = Missing(t)])

\* skipDuplicates: a label another request added meanwhile is left alone.
Added(t, seats) == Lacking(t, seats)

SeatsWrite(w) ==
  LET t == tx[w].of IN
  /\ tx[w].op = "seats"
  /\ trip[t].exists
  /\ trip' = [trip EXCEPT ![t].seats = @ \cup Added(t, tx[w].to.seats)]
  /\ End(w)
  /\ UNCHANGED <<used, template, bus, driver, route>>

RemoveTrip(t, user) ==
  /\ InScope(trip[t], user)
  /\ trip' = [trip EXCEPT ![t] = NoTrip]
  /\ UNCHANGED <<used, template, bus, driver, route, tx>>

Abort(w) ==
  /\ tx[w] # Idle
  /\ End(w)
  /\ UNCHANGED <<used, rows>>

TemplateRequests == \E t \in Templates : CreateTemplate(t) \/ RemoveTemplate(t)

BusRequests(user) ==
  \E b \in Buses :
    \/ RemoveBus(b, user)
    \/ \E t \in Templates : CreateBus(b, user, t) \/ UpdateBus(b, user, t)

RouteRequests(user) == \E r \in Routes : CreateRoute(r, user) \/ RemoveRoute(r, user)

DriverRequests(user) ==
  \E d \in Drivers :
    \/ CreateDriver(d, user)
    \/ \E w \in Workers : DriverRead(w, d, user) \/ RemoveDriverRead(w, d, user)

TripRequests(user) ==
  \/ \E t \in Trips : RemoveTrip(t, user)
  \/ \E w \in Workers :
       \/ \E r \in Routes, b \in Buses, d \in Drivers \cup {None} :
            TripRead(w, user, r, b, d)
       \/ \E t \in Trips, d \in Drivers : AssignRead(w, t, user, d)
       \/ \E t \in Trips : SeatsRead(w, t, user)

Writes(w) ==
  \/ DriverWrite(w) \/ Deactivate(w) \/ DeleteDriver(w)
  \/ \E t \in Trips : TripWrite(w, t)
  \/ AssignWrite(w) \/ SeatsWrite(w) \/ Abort(w)

Next ==
  \/ TemplateRequests
  \/ \E user \in MaybeBranch : \/ BusRequests(user) \/ RouteRequests(user)
                               \/ DriverRequests(user) \/ TripRequests(user)
  \/ \E d \in Drivers : LicenseExpires(d)
  \/ \E w \in Workers : Writes(w)

Spec == Init /\ [][Next]_vars

-----------------------------------------------------------------------------
(* Properties *)

\* What trips and buses refer to exists, whichever handlers delete meanwhile.
ReferencesExist ==
  /\ \A b \in Buses : bus[b].exists =>
       bus[b].template \in Templates /\ template[bus[b].template] # {}
  /\ \A t \in Trips : trip[t].exists =>
       trip[t].route \in Routes /\ trip[t].bus \in Buses /\ References(trip[t])

\* The route, the bus and the trip are of the branch of the user; a manager's
\* trip takes the branch of one of them.
InBranch(row) ==
  LET nearby == {route[row.route].branch, bus[row.bus].branch}
  IN  IF row.by # None THEN nearby \cup {row.branch} = {row.by}
                       ELSE row.branch \in nearby

LabelsDiffer(seats) == \A x, y \in seats : x.label = y.label => x = y

\* A label names one seat of a trip, whatever labels templates give their seats,
\* however often the bus changed its template and however many seat maps repaired
\* the trip at once: TripSales, and the tickets, name a seat by its label.
OneSeatPerLabel == \A t \in Trips : LabelsDiffer(trip[t].seats)

LabelsUnique == OneSeatPerLabel /\ \A t \in Templates : LabelsDiffer(template[t])

\* The trips of a branch user run on a bus and a route of that branch, those of
\* a manager belong to the branch of their route or bus: both are read before
\* the trip is written (TripsService.create, tenantScope).
TripsStayInBranch ==
  \A t \in Trips : trip[t].exists => InBranch(trip[t])

\* What a request that will write has read: rows whose ids were given out, with
\* the branch they had, and the seats of a template.
Grounded(request) ==
  /\ request.op \in {"driver", "delete", "deactivate"} => request.of \in Drivers
  /\ request.op \in {"assign", "seats"} => request.of \in Trips
  /\ request.op = "assign" => request.to.driver \in Drivers
  /\ request.op = "trip" =>
       /\ request.to.exists
       /\ request.to.route \in Routes \cap used
       /\ request.to.bus \in Buses \cap used
       /\ route[request.to.route].exists /\ bus[request.to.bus].exists
            => InBranch(request.to)
       /\ LabelsDiffer(request.to.seats)
  /\ request.op = "seats" => LabelsDiffer(request.to.seats)

Prepared == \A w \in Workers : Grounded(tx[w])

\* Rows exist under ids that were given out.
Known ==
  /\ {t \in Templates : template[t] # {}} \subseteq used
  /\ {b \in Buses : bus[b].exists} \subseteq used
  /\ {d \in Drivers : driver[d].exists} \subseteq used
  /\ {r \in Routes : route[r].exists} \subseteq used
  /\ {t \in Trips : trip[t].exists} \subseteq used

\* The inductive invariant: types, references, labels and what requests read.
IInv ==
  /\ TypeOK
  /\ ReferencesExist
  /\ TripsStayInBranch
  /\ Prepared
  /\ Known
  /\ LabelsUnique
=============================================================================
