--------------------------- MODULE CatalogueProofs ---------------------------
(***************************************************************************)
(* Whatever the branches, templates, buses and routes, and however many    *)
(* requests overlap: trips refer to rows that exist, stay in the branch of *)
(* whoever created them, and have one seat of each label.                  *)
(***************************************************************************)
EXTENDS Catalogue, TLAPS

LEMMA IdleIsGrounded == Idle \in Request /\ Grounded(Idle)
  BY DEF Idle, NoTrip, Request, Operations, TripRow, MaybeBranch, Grounded

LEMMA EndIsTyped ==
  ASSUME IInv, NEW w \in Workers, End(w)
  PROVE  /\ tx' \in [Workers -> Request]
         /\ \A v \in Workers : tx'[v] \in {tx[v], Idle}
  BY IdleIsGrounded DEF IInv, TypeOK, End

\* Routes and buses that still exist are the ones a request, or a trip, names.
Stable ==
  /\ used \subseteq used'
  /\ \A r \in Routes \cap used : route'[r].exists =>
       route[r].exists /\ route'[r].branch = route[r].branch
  /\ \A b \in Buses \cap used : bus'[b].exists =>
       bus[b].exists /\ bus'[b].branch = bus[b].branch

LEMMA GroundedKept ==
  ASSUME Stable, NEW request \in Request, Grounded(request)
  PROVE  Grounded(request)'
  BY DEF Stable, Grounded, InBranch, LabelsDiffer

LEMMA PreparedKept ==
  ASSUME IInv, Stable, \A v \in Workers : tx'[v] \in {tx[v], Idle}
  PROVE  Prepared'
<1> SUFFICES ASSUME NEW v \in Workers PROVE Grounded(tx[v])'
  BY DEF Prepared
<1> PICK request : request = tx'[v]
  OBVIOUS
<1>1. request \in Request /\ Grounded(request)
  BY IdleIsGrounded DEF IInv, TypeOK, Prepared
<1>2. Grounded(request)'
  BY <1>1, GroundedKept
<1>3. QED
  BY <1>2 DEF Grounded, LabelsDiffer, InBranch

\* A trip that was there, with the route and bus it had, stays in its branch.
LEMMA BranchesKept ==
  ASSUME IInv, Stable, ReferencesExist',
         \A t \in Trips : trip'[t].exists =>
           /\ trip[t].exists
           /\ trip'[t].by = trip[t].by /\ trip'[t].branch = trip[t].branch
           /\ trip'[t].route = trip[t].route /\ trip'[t].bus = trip[t].bus
  PROVE  TripsStayInBranch'
<1> SUFFICES ASSUME NEW t \in Trips, trip'[t].exists PROVE InBranch(trip[t])'
  BY DEF TripsStayInBranch
<1>1. /\ trip[t].route \in Routes \cap used /\ trip[t].bus \in Buses \cap used
      /\ InBranch(trip[t])
  <2>1. ReferencesExist /\ Known /\ TripsStayInBranch /\ trip[t].exists
    BY DEF IInv
  <2>2. InBranch(trip[t])
    BY <2>1 DEF TripsStayInBranch
  <2>3. /\ trip[t].route \in Routes /\ route[trip[t].route].exists
        /\ trip[t].bus \in Buses /\ bus[trip[t].bus].exists
    BY <2>1 DEF IInv, TypeOK, TripRow, ReferencesExist, References
  <2> QED
    BY <2>1, <2>2, <2>3 DEF Known
<1>2. route'[trip[t].route].exists /\ bus'[trip[t].bus].exists
  BY <1>1 DEF ReferencesExist, References
<1>3. /\ route'[trip[t].route].branch = route[trip[t].route].branch
      /\ bus'[trip[t].bus].branch = bus[trip[t].bus].branch
  BY <1>1, <1>2 DEF Stable
<1>4. /\ trip'[t].by = trip[t].by /\ trip'[t].branch = trip[t].branch
      /\ trip'[t].route = trip[t].route /\ trip'[t].bus = trip[t].bus
  OBVIOUS
<1>5. QED
  BY <1>1, <1>3, <1>4 DEF InBranch

\* A request that only reads, and what it has read holds.
LEMMA ReadStep ==
  ASSUME IInv, NEW w \in Workers, NEW request \in Request, Grounded(request),
         tx' = [tx EXCEPT ![w] = request], UNCHANGED <<used, rows>>
  PROVE  IInv'
<1>1. TypeOK'
  BY DEF IInv, TypeOK, rows
<1>2. ReferencesExist' /\ TripsStayInBranch' /\ Known' /\ LabelsUnique'
  BY DEF IInv, ReferencesExist, References, TripsStayInBranch, InBranch, Known,
         LabelsUnique, OneSeatPerLabel, LabelsDiffer, rows
<1>3. Prepared'
  <2> SUFFICES ASSUME NEW v \in Workers PROVE Grounded(tx[v])'
    BY DEF Prepared
  <2>1. CASE v = w
    BY <2>1 DEF IInv, TypeOK, Grounded, InBranch, LabelsDiffer, rows
  <2>2. CASE v # w
    BY <2>2 DEF IInv, TypeOK, Prepared, Grounded, InBranch, LabelsDiffer, rows
  <2>3. QED
    BY <2>1, <2>2
<1>4. QED
  BY <1>1, <1>2, <1>3 DEF IInv

\* Templates are edited while no bus uses them.
LEMMA TemplateSteps ==
  ASSUME IInv, NEW t \in Templates, CreateTemplate(t) \/ RemoveTemplate(t)
  PROVE  IInv'
<1>1. CASE CreateTemplate(t)
  <2>0. PICK entries \in {GridOf(grid) : grid \in Grids} \cup Listed :
           /\ \A x, y \in entries : SeatOf(x).label = SeatOf(y).label => x = y
           /\ template' = [template EXCEPT ![t] = {SeatOf(x) : x \in entries}]
    BY <1>1 DEF CreateTemplate
  <2> DEFINE new == {SeatOf(x) : x \in entries}
  <2>2. entries \in (SUBSET Entry) \ {{}}
    <3>1. CASE entries \in Listed
      BY <3>1, ListsHaveSeats
    <3>2. CASE entries \in {GridOf(grid) : grid \in Grids}
      <4>1. PICK grid \in Grids : entries = GridOf(grid)
        BY <3>2
      <4>2. grid \in Positive \X Positive /\ grid[1] \in Positive /\ grid[2] \in Positive
        BY SizesArePositive
      <4>3. Cells(grid) \subseteq Positive \X Positive /\ <<1, 1>> \in Cells(grid)
        BY <4>2 DEF Cells, Positive
      <4>4. GridOf(grid) \subseteq Entry
        BY <4>3 DEF GridOf, Entry
      <4>5. [place |-> <<1, 1>>, label |-> None] \in GridOf(grid)
        BY <4>3 DEF GridOf
      <4> QED BY <4>1, <4>4, <4>5
    <3> QED BY <2>0, <3>1, <3>2
  <2>3. new \in SUBSET Seat /\ new # {} /\ LabelsDiffer(new)
    <3>1. ASSUME NEW x \in Entry PROVE SeatOf(x) \in Seat
      <4>1. x.place \in Positive \X Positive /\ x.label \in LabelText \cup {None}
        BY DEF Entry
      <4>2. Label(x.place) \in LabelText
        BY <4>1 DEF Label, LabelText, Positive
      <4> QED BY <4>1, <4>2 DEF SeatOf, Seat
    <3>2. new \subseteq Seat
      BY <2>2, <3>1
    <3>3. new # {}
      BY <2>2
    <3>4. LabelsDiffer(new)
      BY <2>0 DEF LabelsDiffer
    <3> QED BY <3>2, <3>3, <3>4
  <2>9. template' = [template EXCEPT ![t] = new]
    BY <2>0
  <2> HIDE DEF new
  <2>4. TypeOK'
    BY <1>1, <2>9, <2>3 DEF IInv, TypeOK, CreateTemplate, Give, Ids
  <2>5. ReferencesExist'
    BY <1>1, <2>9, <2>3 DEF IInv, TypeOK, ReferencesExist, CreateTemplate, References
  <2>6. Prepared' /\ TripsStayInBranch'
    BY <1>1 DEF IInv, Prepared, Grounded, TripsStayInBranch, InBranch,
                References,
                CreateTemplate, Give
  <2>7. Known'
    BY <1>1, <2>9 DEF IInv, TypeOK, Known, CreateTemplate, Give
  <2>8. QED
    BY <1>1, <2>9, <2>3, <2>4, <2>5, <2>6, <2>7 DEF IInv, TypeOK, CreateTemplate,
                                                      LabelsUnique, OneSeatPerLabel
<1>2. CASE RemoveTemplate(t)
  <2>1. TypeOK'
    BY <1>2 DEF IInv, TypeOK, RemoveTemplate
  <2>2. ReferencesExist'
    BY <1>2 DEF IInv, TypeOK, ReferencesExist, RemoveTemplate, References
  <2>3. Prepared' /\ TripsStayInBranch'
    BY <1>2 DEF IInv, Prepared, Grounded, TripsStayInBranch, InBranch,
                References, RemoveTemplate
  <2>4. Known'
    BY <1>2 DEF IInv, TypeOK, Known, RemoveTemplate
  <2>5. QED
    BY <1>2, <2>1, <2>2, <2>3, <2>4 DEF IInv, TypeOK, RemoveTemplate, LabelsUnique, OneSeatPerLabel, LabelsDiffer
<1>3. QED
  BY <1>1, <1>2

\* A bus takes a template that exists and keeps its branch.
LEMMA BusSteps ==
  ASSUME IInv, NEW b \in Buses, NEW t \in Templates, NEW user \in MaybeBranch,
         CreateBus(b, user, t) \/ UpdateBus(b, user, t)
  PROVE  IInv'
<1>1. CASE CreateBus(b, user, t)
  <2>1. TypeOK'
    BY <1>1 DEF IInv, CreateBus, Give, Ids, TypeOK
  <2>2. Stable
    BY <1>1 DEF IInv, CreateBus, Give, Ids, TypeOK, Stable, Known
  <2>3. ReferencesExist'
    BY <1>1 DEF IInv, CreateBus, Give, Ids, TypeOK, ReferencesExist, References, Known
  <2>4. TripsStayInBranch'
    BY <1>1, <2>2, <2>3, BranchesKept DEF CreateBus, Give, Ids
  <2>5. Prepared'
    BY <1>1, <2>2, PreparedKept DEF CreateBus, Give, Ids
  <2>6. Known'
    BY <1>1 DEF IInv, CreateBus, Give, Ids, TypeOK, Known
  <2>7. LabelsUnique'
    BY <1>1 DEF IInv, CreateBus, Give, Ids, LabelsUnique, OneSeatPerLabel, LabelsDiffer
  <2>8. QED
    BY <2>1, <2>2, <2>3, <2>4, <2>5, <2>6, <2>7 DEF IInv
<1>2. CASE UpdateBus(b, user, t)
  <2>0. /\ bus[b].exists /\ template[t] # {} /\ UNCHANGED <<used, template, driver, route, trip, tx>>
        /\ bus' \in [Buses -> [exists : BOOLEAN, branch : MaybeBranch,
                               template : Templates \cup {None}, ready : BOOLEAN]]
        /\ \A c \in Buses : /\ bus'[c].exists = bus[c].exists
                            /\ bus'[c].branch = bus[c].branch
                            /\ c # b => bus'[c] = bus[c]
        /\ bus'[b].template = t
    <3>1. PICK ready \in BOOLEAN :
             bus' = [bus EXCEPT ![b].template = t, ![b].ready = ready]
      BY <1>2 DEF UpdateBus
    <3> DEFINE BusRow == [exists : BOOLEAN, branch : MaybeBranch,
                          template : Templates \cup {None}, ready : BOOLEAN]
               row == [bus[b] EXCEPT !.template = t, !.ready = ready]
    <3>2. bus \in [Buses -> BusRow]
      BY DEF IInv, TypeOK
    <3>3. /\ row \in BusRow /\ row.template = t
          /\ row.exists = bus[b].exists /\ row.branch = bus[b].branch
      BY <3>2
    <3>4. bus' = [bus EXCEPT ![b] = row]
      BY <3>1
    <3> HIDE DEF row, BusRow
    <3>5. bus' \in [Buses -> BusRow] /\ bus'[b] = row /\ \A c \in Buses \ {b} : bus'[c] = bus[c]
      BY <3>2, <3>3, <3>4
    <3>6. QED
      BY <1>2, <3>3, <3>5 DEF UpdateBus, InScope, BusRow
  <2>1. TypeOK'
    BY <2>0 DEF IInv, TypeOK
  <2>2. Stable
    BY <2>0 DEF Stable
  <2>3. ReferencesExist'
    BY <2>0 DEF IInv, TypeOK, ReferencesExist, References
  <2>4. TripsStayInBranch'
    BY <1>2, <2>2, <2>3, BranchesKept DEF UpdateBus, InScope
  <2>5. Prepared'
    BY <1>2, <2>2, PreparedKept DEF UpdateBus, InScope
  <2>6. Known'
    BY <1>2 DEF IInv, UpdateBus, InScope, TypeOK, Known
  <2>7. LabelsUnique'
    BY <1>2 DEF IInv, UpdateBus, InScope, LabelsUnique, OneSeatPerLabel, LabelsDiffer
  <2>8. QED
    BY <2>1, <2>2, <2>3, <2>4, <2>5, <2>6, <2>7 DEF IInv
<1>3. QED
  BY <1>1, <1>2

\* A bus is deleted when no trip names it.
LEMMA BusRemoval ==
  ASSUME IInv, NEW b \in Buses, NEW user \in MaybeBranch,
         RemoveBus(b, user)
  PROVE  IInv'
<1>1. CASE RemoveBus(b, user)
  <2>1. TypeOK'
    BY <1>1 DEF IInv, RemoveBus, InScope, Unused, NoBus, MaybeBranch, TypeOK
  <2>2. Stable
    BY <1>1 DEF IInv, RemoveBus, InScope, Unused, NoBus, MaybeBranch, TypeOK, Stable, Known
  <2>3. ReferencesExist'
    BY <1>1 DEF IInv, RemoveBus, InScope, Unused, NoBus, MaybeBranch, TypeOK, ReferencesExist, References, Known
  <2>4. TripsStayInBranch'
    BY <1>1, <2>2, <2>3, BranchesKept DEF RemoveBus, InScope, Unused, NoBus, MaybeBranch
  <2>5. Prepared'
    BY <1>1, <2>2, PreparedKept DEF RemoveBus, InScope, Unused, NoBus, MaybeBranch
  <2>6. Known'
    BY <1>1 DEF IInv, RemoveBus, InScope, Unused, NoBus, MaybeBranch, TypeOK, Known
  <2>7. LabelsUnique'
    BY <1>1 DEF IInv, RemoveBus, InScope, Unused, NoBus, MaybeBranch, LabelsUnique, OneSeatPerLabel, LabelsDiffer
  <2>8. QED
    BY <2>1, <2>2, <2>3, <2>4, <2>5, <2>6, <2>7 DEF IInv
<1>2. QED
  BY <1>1

\* A route is created, and deleted when no trip names it.
LEMMA RouteSteps ==
  ASSUME IInv, NEW r \in Routes, NEW user \in MaybeBranch,
         CreateRoute(r, user) \/ RemoveRoute(r, user)
  PROVE  IInv'
<1>1. CASE CreateRoute(r, user)
  <2>1. TypeOK'
    BY <1>1 DEF IInv, CreateRoute, Give, Ids, TypeOK
  <2>2. Stable
    BY <1>1 DEF IInv, CreateRoute, Give, Ids, TypeOK, Stable, Known
  <2>3. ReferencesExist'
    BY <1>1 DEF IInv, CreateRoute, Give, Ids, TypeOK, ReferencesExist, References, Known
  <2>4. TripsStayInBranch'
    BY <1>1, <2>2, <2>3, BranchesKept DEF CreateRoute, Give, Ids
  <2>5. Prepared'
    BY <1>1, <2>2, PreparedKept DEF CreateRoute, Give, Ids
  <2>6. Known'
    BY <1>1 DEF IInv, CreateRoute, Give, Ids, TypeOK, Known
  <2>7. LabelsUnique'
    BY <1>1 DEF IInv, CreateRoute, Give, Ids, LabelsUnique, OneSeatPerLabel, LabelsDiffer
  <2>8. QED
    BY <2>1, <2>2, <2>3, <2>4, <2>5, <2>6, <2>7 DEF IInv
<1>2. CASE RemoveRoute(r, user)
  <2>1. TypeOK'
    BY <1>2 DEF IInv, RemoveRoute, InScope, Unused, NoRoute, MaybeBranch, TypeOK
  <2>2. Stable
    BY <1>2 DEF IInv, RemoveRoute, InScope, Unused, NoRoute, MaybeBranch, TypeOK, Stable, Known
  <2>3. ReferencesExist'
    BY <1>2 DEF IInv, RemoveRoute, InScope, Unused, NoRoute, MaybeBranch, TypeOK, ReferencesExist, References, Known
  <2>4. TripsStayInBranch'
    BY <1>2, <2>2, <2>3, BranchesKept DEF RemoveRoute, InScope, Unused, NoRoute, MaybeBranch
  <2>5. Prepared'
    BY <1>2, <2>2, PreparedKept DEF RemoveRoute, InScope, Unused, NoRoute, MaybeBranch
  <2>6. Known'
    BY <1>2 DEF IInv, RemoveRoute, InScope, Unused, NoRoute, MaybeBranch, TypeOK, Known
  <2>7. LabelsUnique'
    BY <1>2 DEF IInv, RemoveRoute, InScope, Unused, NoRoute, MaybeBranch, LabelsUnique, OneSeatPerLabel, LabelsDiffer
  <2>8. QED
    BY <2>1, <2>2, <2>3, <2>4, <2>5, <2>6, <2>7 DEF IInv
<1>3. QED
  BY <1>1, <1>2

\* Drivers come, and their licences expire.
LEMMA DriverSteps ==
  ASSUME IInv, NEW d \in Drivers, NEW user \in MaybeBranch,
         CreateDriver(d, user) \/ LicenseExpires(d)
  PROVE  IInv'
<1>1. CASE CreateDriver(d, user)
  <2>1. TypeOK'
    BY <1>1 DEF IInv, CreateDriver, Give, Ids, Or, MaybeBranch, TypeOK
  <2>2. Stable
    BY <1>1 DEF IInv, CreateDriver, Give, Ids, Or, MaybeBranch, TypeOK, Stable, Known
  <2>3. ReferencesExist'
    BY <1>1 DEF IInv, CreateDriver, Give, Ids, Or, MaybeBranch, TypeOK, ReferencesExist, References, Known
  <2>4. TripsStayInBranch'
    BY <1>1, <2>2, <2>3, BranchesKept DEF CreateDriver, Give, Ids, Or, MaybeBranch
  <2>5. Prepared'
    BY <1>1, <2>2, PreparedKept DEF CreateDriver, Give, Ids, Or, MaybeBranch
  <2>6. Known'
    BY <1>1 DEF IInv, CreateDriver, Give, Ids, Or, MaybeBranch, TypeOK, Known
  <2>7. LabelsUnique'
    BY <1>1 DEF IInv, CreateDriver, Give, Ids, Or, MaybeBranch, LabelsUnique, OneSeatPerLabel, LabelsDiffer
  <2>8. QED
    BY <2>1, <2>2, <2>3, <2>4, <2>5, <2>6, <2>7 DEF IInv
<1>2. CASE LicenseExpires(d)
  <2>1. TypeOK'
    BY <1>2 DEF IInv, LicenseExpires, TypeOK
  <2>2. Stable
    BY <1>2 DEF IInv, LicenseExpires, TypeOK, Stable, Known
  <2>3. ReferencesExist'
    BY <1>2 DEF IInv, LicenseExpires, TypeOK, ReferencesExist, References, Known
  <2>4. TripsStayInBranch'
    BY <1>2, <2>2, <2>3, BranchesKept DEF LicenseExpires
  <2>5. Prepared'
    BY <1>2, <2>2, PreparedKept DEF LicenseExpires
  <2>6. Known'
    BY <1>2 DEF IInv, LicenseExpires, TypeOK, Known
  <2>7. LabelsUnique'
    BY <1>2 DEF IInv, LicenseExpires, LabelsUnique, OneSeatPerLabel, LabelsDiffer
  <2>8. QED
    BY <2>1, <2>2, <2>3, <2>4, <2>5, <2>6, <2>7 DEF IInv
<1>3. QED
  BY <1>1, <1>2

\* Drivers change and go; no trip names a driver that is gone.
LEMMA DriverWrites ==
  ASSUME IInv, NEW w \in Workers,
         DriverWrite(w) \/ Deactivate(w) \/ DeleteDriver(w)
  PROVE  IInv'
<1>1. CASE DriverWrite(w)
  <2>0. /\ tx[w].of \in Drivers /\ tx[w].to.branch \in MaybeBranch
        /\ driver' \in [Drivers -> [exists : BOOLEAN, branch : MaybeBranch, fit : BOOLEAN]]
        /\ \A d0 \in Drivers : driver'[d0].exists = driver[d0].exists
    <3>1. tx[w].of \in Drivers /\ tx[w].to.branch \in MaybeBranch
      BY <1>1 DEF IInv, TypeOK, DriverWrite, Request, TripRow, Prepared, Grounded
    <3>2. PICK fit \in BOOLEAN : driver' = [driver EXCEPT ![tx[w].of].branch = tx[w].to.branch,
                                                        ![tx[w].of].fit = fit]
      BY <1>1 DEF DriverWrite
    <3> DEFINE DriverRow == [exists : BOOLEAN, branch : MaybeBranch, fit : BOOLEAN]
               row == [driver[tx[w].of] EXCEPT !.branch = tx[w].to.branch, !.fit = fit]
    <3>3. driver \in [Drivers -> DriverRow]
      BY DEF IInv, TypeOK
    <3>4. row \in DriverRow /\ row.exists = driver[tx[w].of].exists
      BY <3>1, <3>3
    <3>5. driver' = [driver EXCEPT ![tx[w].of] = row]
      BY <3>2
    <3> HIDE DEF row, DriverRow
    <3>6. /\ driver' \in [Drivers -> DriverRow]
          /\ driver'[tx[w].of] = row
          /\ \A c \in Drivers \ {tx[w].of} : driver'[c] = driver[c]
      BY <3>1, <3>3, <3>4, <3>5
    <3>7. QED
      BY <3>1, <3>4, <3>6 DEF DriverRow
  <2>1. TypeOK'
    BY <1>1, <2>0, EndIsTyped DEF IInv, TypeOK, DriverWrite
  <2>2. Stable
    BY <1>1 DEF IInv, DriverWrite, TypeOK, Stable, Known
  <2>3. ReferencesExist'
    <3>1. UNCHANGED <<template, bus, route, trip>>
      BY <1>1 DEF DriverWrite, rows
    <3>2. \A t \in Trips : trip[t].driver # None => trip[t].driver \in Drivers
      BY DEF IInv, TypeOK, TripRow
    <3>3. QED
      BY <2>0, <3>1, <3>2 DEF IInv, ReferencesExist, References
  <2>4. TripsStayInBranch'
    BY <1>1, <2>2, <2>3, BranchesKept DEF DriverWrite
  <2>5. Prepared'
    BY <1>1, <2>2, EndIsTyped, PreparedKept DEF DriverWrite
  <2>6. Known'
    BY <1>1 DEF IInv, DriverWrite, TypeOK, Known
  <2>7. LabelsUnique'
    BY <1>1 DEF IInv, DriverWrite, LabelsUnique, OneSeatPerLabel, LabelsDiffer
  <2>8. QED
    BY <2>1, <2>2, <2>3, <2>4, <2>5, <2>6, <2>7 DEF IInv
<1>2. CASE Deactivate(w)
  <2>1. TypeOK'
    <3> DEFINE DriverRow == [exists : BOOLEAN, branch : MaybeBranch, fit : BOOLEAN]
    <3>1. driver \in [Drivers -> DriverRow]
      BY DEF IInv, TypeOK
    <3>2. \A d \in Drivers : [driver[d] EXCEPT !.fit = FALSE] \in DriverRow
      BY <3>1, Zenon
    <3>3. driver' \in [Drivers -> DriverRow]
      BY <1>2, <3>1, <3>2 DEF Deactivate
    <3>4. tx' \in [Workers -> Request] /\ UNCHANGED <<used, template, bus, route, trip>>
      BY <1>2, EndIsTyped DEF Deactivate
    <3> QED
      BY <3>3, <3>4 DEF IInv, TypeOK
  <2>2. Stable
    BY <1>2 DEF IInv, Deactivate, TypeOK, Stable, Known
  <2>3. ReferencesExist'
    BY <1>2 DEF IInv, Deactivate, TypeOK, ReferencesExist, References, Known
  <2>4. TripsStayInBranch'
    BY <1>2, <2>2, <2>3, BranchesKept DEF Deactivate
  <2>5. Prepared'
    BY <1>2, <2>2, EndIsTyped, PreparedKept DEF Deactivate
  <2>6. Known'
    BY <1>2 DEF IInv, Deactivate, TypeOK, Known
  <2>7. LabelsUnique'
    BY <1>2 DEF IInv, Deactivate, LabelsUnique, OneSeatPerLabel, LabelsDiffer
  <2>8. QED
    BY <2>1, <2>2, <2>3, <2>4, <2>5, <2>6, <2>7 DEF IInv
<1>3. CASE DeleteDriver(w)
  <2>0. /\ tx[w].of \in Drivers
        /\ trip' \in [Trips -> TripRow]
        /\ \A t \in Trips : trip'[t].seats = trip[t].seats
    <3>1. tx[w].of \in Drivers /\ trip \in [Trips -> TripRow]
      BY <1>3 DEF IInv, TypeOK, DeleteDriver, Prepared, Grounded
    <3>2. \A t \in Trips : /\ [trip[t] EXCEPT !.driver = None] \in TripRow
                           /\ [trip[t] EXCEPT !.driver = None].seats = trip[t].seats
      BY <3>1 DEF TripRow
    <3>3. QED
      BY <1>3, <3>1, <3>2 DEF DeleteDriver
  <2>1. TypeOK'
    BY <1>3, <2>0, EndIsTyped DEF IInv, TypeOK, DeleteDriver, NoDriver, MaybeBranch
  <2>2. Stable
    BY <1>3 DEF IInv, DeleteDriver, NoDriver, MaybeBranch, TypeOK, Stable, Known
  <2>3. ReferencesExist'
    BY <1>3 DEF IInv, DeleteDriver, NoDriver, MaybeBranch, TypeOK, ReferencesExist, References, Known
  <2>4. TripsStayInBranch'
    BY <1>3, <2>2, <2>3, BranchesKept DEF DeleteDriver, NoDriver, MaybeBranch
  <2>5. Prepared'
    BY <1>3, <2>2, EndIsTyped, PreparedKept DEF DeleteDriver, NoDriver, MaybeBranch
  <2>6. Known'
    BY <1>3 DEF IInv, DeleteDriver, NoDriver, MaybeBranch, TypeOK, Known
  <2>7. LabelsUnique'
    BY <1>3, <2>0 DEF IInv, LabelsUnique, OneSeatPerLabel, LabelsDiffer, DeleteDriver
  <2>8. QED
    BY <2>1, <2>2, <2>3, <2>4, <2>5, <2>6, <2>7 DEF IInv
<1>4. QED
  BY <1>1, <1>2, <1>3

\* A trip is written as it was read, if what it names still exists.
LEMMA TripCreation ==
  ASSUME IInv, NEW w \in Workers, NEW t \in Trips,
         TripWrite(w, t)
  PROVE  IInv'
<1>1. CASE TripWrite(w, t)
  <2>0. /\ tx[w].to \in TripRow /\ tx[w].to.exists
        /\ tx[w].to.route \in Routes /\ tx[w].to.bus \in Buses
        /\ References(tx[w].to) /\ InBranch(tx[w].to) /\ LabelsDiffer(tx[w].to.seats)
        /\ trip' = [trip EXCEPT ![t] = tx[w].to]
        /\ UNCHANGED <<template, bus, driver, route>>
    BY <1>1 DEF IInv, TypeOK, Request, TripWrite, Prepared, Grounded, References
  <2>1. TypeOK'
    BY <1>1, <2>0, EndIsTyped DEF IInv, TypeOK, TripWrite, Give, Ids
  <2>2. Stable
    BY <1>1 DEF IInv, TripWrite, Give, Ids, TypeOK, Stable, Known
  <2>3. ReferencesExist'
    BY <2>0 DEF IInv, TypeOK, ReferencesExist, References
  <2>4. TripsStayInBranch'
    BY <2>0 DEF IInv, TypeOK, TripsStayInBranch, InBranch
  <2>5. Prepared'
    BY <1>1, <2>2, EndIsTyped, PreparedKept DEF TripWrite, Give, Ids
  <2>6. Known'
    BY <1>1 DEF IInv, TripWrite, Give, Ids, TypeOK, Known
  <2>7. LabelsUnique'
    BY <2>0 DEF IInv, TypeOK, LabelsUnique, OneSeatPerLabel, LabelsDiffer
  <2>8. QED
    BY <2>1, <2>2, <2>3, <2>4, <2>5, <2>6, <2>7 DEF IInv
<1>2. QED
  BY <1>1

\* A trip changes its driver or gains seats.
LEMMA TripWrites ==
  ASSUME IInv, NEW w \in Workers,
         AssignWrite(w) \/ SeatsWrite(w)
  PROVE  IInv'
<1>1. CASE AssignWrite(w)
  <2>0. tx[w].of \in Trips /\ tx[w].to.driver \in Drivers
    BY <1>1 DEF IInv, TypeOK, AssignWrite, Prepared, Grounded
  <2>1. TypeOK'
    <3>1. trip \in [Trips -> TripRow]
      BY DEF IInv, TypeOK
    <3>2. [trip[tx[w].of] EXCEPT !.driver = tx[w].to.driver] \in TripRow
      BY <2>0, <3>1 DEF TripRow
    <3>3. trip' = [trip EXCEPT ![tx[w].of] = [trip[tx[w].of] EXCEPT !.driver = tx[w].to.driver]]
      BY <1>1 DEF AssignWrite
    <3>4. trip' \in [Trips -> TripRow]
      BY <2>0, <3>1, <3>2, <3>3
    <3>5. QED
      BY <1>1, <3>4, EndIsTyped DEF IInv, TypeOK, AssignWrite
  <2>2. Stable
    BY <1>1 DEF IInv, AssignWrite, TypeOK, Stable, Known
  <2>3. ReferencesExist'
    BY <1>1 DEF IInv, AssignWrite, TypeOK, ReferencesExist, References, Known
  <2>4. TripsStayInBranch'
    BY <1>1, <2>2, <2>3, BranchesKept DEF AssignWrite
  <2>5. Prepared'
    BY <1>1, <2>2, EndIsTyped, PreparedKept DEF AssignWrite
  <2>6. Known'
    BY <1>1 DEF IInv, AssignWrite, TypeOK, Known
  <2>7. LabelsUnique'
    BY <1>1 DEF IInv, AssignWrite, LabelsUnique, OneSeatPerLabel, LabelsDiffer
  <2>8. QED
    BY <2>1, <2>2, <2>3, <2>4, <2>5, <2>6, <2>7 DEF IInv
<1>2. CASE SeatsWrite(w)
  <2> DEFINE t0 == tx[w].of
             added == Added(t0, tx[w].to.seats)
  <2>0. /\ t0 \in Trips /\ added \subseteq Seat /\ LabelsDiffer(added)
        /\ \A s \in added : \A x \in trip[t0].seats : x.label # s.label
        /\ trip' = [trip EXCEPT ![t0].seats = trip[t0].seats \cup added]
    <3>1. t0 \in Trips /\ LabelsDiffer(tx[w].to.seats)
      BY <1>2 DEF IInv, SeatsWrite, Prepared, Grounded
    <3>2. tx[w].to.seats \subseteq Seat
      BY DEF IInv, TypeOK, Request, TripRow
    <3>3. added \subseteq tx[w].to.seats
      BY DEF Added, Lacking
    <3>4. \A s \in added : \A x \in trip[t0].seats : x.label # s.label
      BY DEF Added, Lacking
    <3>5. trip' = [trip EXCEPT ![t0].seats = trip[t0].seats \cup added]
      BY <1>2 DEF SeatsWrite
    <3> HIDE DEF added
    <3>6. LabelsDiffer(added)
      BY <3>1, <3>3 DEF LabelsDiffer
    <3> QED BY <3>1, <3>2, <3>3, <3>4, <3>5, <3>6
  <2>1. TypeOK'
    <3> HIDE DEF added
    <3>1. trip' \in [Trips -> TripRow]
      <4>1. trip \in [Trips -> TripRow]
        BY DEF IInv, TypeOK
      <4>2. [trip[t0] EXCEPT !.seats = trip[t0].seats \cup added] \in TripRow
        BY <2>0, <4>1 DEF TripRow
      <4>3. QED
        BY <2>0, <4>1, <4>2
    <3>2. QED
      BY <1>2, <3>1, EndIsTyped DEF IInv, TypeOK, SeatsWrite
  <2>2. Stable
    BY <1>2 DEF IInv, SeatsWrite, TypeOK, Stable, Known
  <2>3. ReferencesExist'
    BY <1>2 DEF IInv, SeatsWrite, TypeOK, ReferencesExist, References, Known
  <2>4. TripsStayInBranch'
    BY <1>2, <2>2, <2>3, BranchesKept DEF SeatsWrite
  <2>5. Prepared'
    BY <1>2, <2>2, EndIsTyped, PreparedKept DEF SeatsWrite
  <2>6. Known'
    BY <1>2 DEF IInv, SeatsWrite, TypeOK, Known
  <2>7. LabelsUnique'
    <3> HIDE DEF added
    <3>1. \A u \in Trips : LabelsDiffer(trip'[u].seats)
      <4>1. trip \in [Trips -> TripRow] /\ \A u \in Trips : LabelsDiffer(trip[u].seats)
        BY DEF IInv, TypeOK, LabelsUnique, OneSeatPerLabel
      <4>2. LabelsDiffer(trip[t0].seats \cup added)
        BY <2>0, <4>1 DEF LabelsDiffer
      <4>3. /\ trip'[t0].seats = trip[t0].seats \cup added
            /\ \A u \in Trips \ {t0} : trip'[u] = trip[u]
        BY <2>0, <4>1 DEF TripRow
      <4>4. QED
        BY <2>0, <4>1, <4>2, <4>3
    <3>2. QED
      BY <1>2, <3>1 DEF IInv, SeatsWrite, LabelsUnique, OneSeatPerLabel, LabelsDiffer
  <2>8. QED
    BY <2>1, <2>2, <2>3, <2>4, <2>5, <2>6, <2>7 DEF IInv
<1>3. QED
  BY <1>1, <1>2

\* A trip is deleted with all it names.
LEMMA TripRemoval ==
  ASSUME IInv, NEW t \in Trips, NEW user \in MaybeBranch,
         RemoveTrip(t, user)
  PROVE  IInv'
<1>1. CASE RemoveTrip(t, user)
  <2>1. TypeOK'
    BY <1>1 DEF IInv, RemoveTrip, NoTrip, TypeOK, TripRow, NoTrip, MaybeBranch
  <2>2. Stable
    BY <1>1 DEF IInv, RemoveTrip, NoTrip, TypeOK, Stable, Known
  <2>3. ReferencesExist'
    BY <1>1 DEF IInv, RemoveTrip, NoTrip, TypeOK, ReferencesExist, References, Known
  <2>4. TripsStayInBranch'
    BY <1>1, <2>2, <2>3, BranchesKept DEF RemoveTrip, NoTrip
  <2>5. Prepared'
    BY <1>1, <2>2, PreparedKept DEF RemoveTrip, NoTrip
  <2>6. Known'
    BY <1>1 DEF IInv, RemoveTrip, NoTrip, TypeOK, Known
  <2>7. LabelsUnique'
    BY <1>1 DEF IInv, RemoveTrip, NoTrip, LabelsUnique, OneSeatPerLabel, LabelsDiffer
  <2>8. QED
    BY <2>1, <2>2, <2>3, <2>4, <2>5, <2>6, <2>7 DEF IInv
<1>2. QED
  BY <1>1

\* What a request reads is what the invariant says of it until it writes.
LEMMA DriverReads ==
  ASSUME IInv, NEW w \in Workers, NEW user \in MaybeBranch, NEW d \in Drivers,
         DriverRead(w, d, user) \/ RemoveDriverRead(w, d, user)
  PROVE  IInv'
<1>0. NoTrip \in TripRow /\ None \in MaybeBranch
  BY DEF NoTrip, TripRow, MaybeBranch
<1>1. CASE DriverRead(w, d, user)
  <2>1. PICK asked \in MaybeBranch :
           Begin(w, "driver", user, d,
                 [NoTrip EXCEPT !.branch = Or(user, Or(asked, driver[d].branch))])
    BY <1>1 DEF DriverRead
  <2>2. Or(user, Or(asked, driver[d].branch)) \in MaybeBranch
    BY DEF IInv, TypeOK, Or
  <2> DEFINE request == [op |-> "driver", by |-> user, of |-> d,
                 to |-> [NoTrip EXCEPT !.branch = Or(user, Or(asked, driver[d].branch))]]
  <2>3. request \in Request /\ Grounded(request)
    BY <1>0, <2>2 DEF Request, Operations, Grounded, TripRow
  <2>4. QED
    BY <2>1, <2>3, ReadStep DEF Begin
<1>2. CASE RemoveDriverRead(w, d, user)
  <2> DEFINE request == [op |-> IF Unused(d) THEN "delete" ELSE "deactivate",
                         by |-> user, of |-> d, to |-> NoTrip]
  <2>1. request \in Request /\ Grounded(request)
    BY <1>0 DEF Request, Operations, Grounded
  <2>2. QED
    BY <1>2, <2>1, ReadStep DEF RemoveDriverRead, Begin
<1>3. QED
  BY <1>1, <1>2

\* The rows a trip will name are in the branch of its user.
LEMMA TripReads ==
  ASSUME IInv, NEW w \in Workers, NEW user \in MaybeBranch, NEW r \in Routes,
         NEW b \in Buses, NEW e \in Drivers \cup {None},
         TripRead(w, user, r, b, e)
  PROVE  IInv'
<1>0. NoTrip \in TripRow /\ None \in MaybeBranch
  BY DEF NoTrip, TripRow, MaybeBranch
<1>1. CASE TripRead(w, user, r, b, e)
  <2> DEFINE row == [exists |-> TRUE, by |-> user,
                     branch |-> Or(user, Or(route[r].branch, bus[b].branch)),
                     route |-> r, bus |-> b, driver |-> e,
                     seats |-> template[bus[b].template]]
             request == [op |-> "trip", by |-> user, of |-> None, to |-> row]
  <2>1. bus[b].template \in Templates /\ bus[b].exists /\ route[r].exists
    BY <1>1 DEF IInv, ReferencesExist, TripRead, InScope
  <2>2. row \in TripRow
    BY <2>1 DEF IInv, TypeOK, TripRow, MaybeBranch, Or
  <2>3. InBranch(row)
    BY <1>1 DEF IInv, TypeOK, TripRead, InScope, InBranch, Or, MaybeBranch
  <2>4. LabelsDiffer(row.seats) /\ r \in used /\ b \in used
    BY <2>1 DEF IInv, LabelsUnique, OneSeatPerLabel, Known
  <2>5. request \in Request
    BY <2>2 DEF Request, Operations
  <2>6. Grounded(request)
    BY <2>3, <2>4 DEF Grounded
  <2>7. QED
    BY <1>1, <2>5, <2>6, ReadStep DEF TripRead, Begin
<1>2. QED
  BY <1>1

\* The driver of an assignment exists.
LEMMA AssignReads ==
  ASSUME IInv, NEW w \in Workers, NEW user \in MaybeBranch, NEW t \in Trips,
         NEW d \in Drivers,
         AssignRead(w, t, user, d)
  PROVE  IInv'
<1>0. NoTrip \in TripRow /\ None \in MaybeBranch
  BY DEF NoTrip, TripRow, MaybeBranch
<1>1. CASE AssignRead(w, t, user, d)
  <2> DEFINE request == [op |-> "assign", by |-> user, of |-> t,
                         to |-> [NoTrip EXCEPT !.driver = d]]
  <2>1. request \in Request /\ Grounded(request)
    BY <1>0 DEF Request, Operations, Grounded, TripRow, NoTrip
  <2>2. QED
    BY <1>1, <2>1, ReadStep DEF AssignRead, Begin
<1>2. QED
  BY <1>1

\* The seats to add are those of a template.
LEMMA SeatsReads ==
  ASSUME IInv, NEW w \in Workers, NEW user \in MaybeBranch, NEW t \in Trips,
         SeatsRead(w, t, user)
  PROVE  IInv'
<1>0. NoTrip \in TripRow /\ None \in MaybeBranch
  BY DEF NoTrip, TripRow, MaybeBranch
<1>1. CASE SeatsRead(w, t, user)
  <2> DEFINE request == [op |-> "seats", by |-> user, of |-> t,
                         to |-> [NoTrip EXCEPT !.seats = Missing(t)]]
  <2>1. bus[trip[t].bus].template \in Templates
    BY <1>1 DEF IInv, ReferencesExist, References, SeatsRead, InScope
  <2>2. Missing(t) \subseteq Seat /\ LabelsDiffer(Missing(t))
    <3>1. Missing(t) \subseteq template[bus[trip[t].bus].template]
      BY DEF Missing, Lacking
    <3>2. LabelsDiffer(template[bus[trip[t].bus].template])
      BY <2>1 DEF IInv, LabelsUnique
    <3>3. template[bus[trip[t].bus].template] \subseteq Seat
      BY <2>1 DEF IInv, TypeOK
    <3> QED BY <3>1, <3>2, <3>3 DEF LabelsDiffer
  <2>3. request \in Request /\ Grounded(request)
    BY <1>0, <2>2 DEF Request, Operations, Grounded, TripRow, NoTrip
  <2>4. QED
    BY <1>1, <2>3, ReadStep DEF SeatsRead, Begin
<1>2. QED
  BY <1>1

\* A request that is lost leaves the rows as they are.
LEMMA Aborts ==
  ASSUME IInv, NEW w \in Workers,
         Abort(w)
  PROVE  IInv'
<1>0. NoTrip \in TripRow /\ None \in MaybeBranch
  BY DEF NoTrip, TripRow, MaybeBranch
<1>1. CASE Abort(w)
  BY <1>1, IdleIsGrounded, ReadStep DEF Abort, End
<1>2. QED
  BY <1>1

\* The rows and the requests in progress are consistent in every state.
THEOREM CatalogueInvariant == Spec => []IInv
<1>1. Init => IInv
  <2> SUFFICES ASSUME Init PROVE IInv
    OBVIOUS
  <2>1. TypeOK /\ Prepared
    BY IdleIsGrounded DEF Init, TypeOK, Prepared, NoBus, NoDriver, NoRoute, NoTrip,
                          MaybeBranch, TripRow
  <2>2. QED
    BY <2>1 DEF Init, IInv, ReferencesExist, TripsStayInBranch, Known, LabelsUnique, OneSeatPerLabel,
                LabelsDiffer, NoBus, NoDriver, NoRoute, NoTrip
<1>2. IInv /\ [Next]_vars => IInv'
  <2> SUFFICES ASSUME IInv, [Next]_vars PROVE IInv'
    OBVIOUS
  <2>1. CASE Next
    <3>1. CASE TemplateRequests
      BY <3>1, TemplateSteps DEF TemplateRequests
    <3>2. CASE \E user \in MaybeBranch : BusRequests(user)
      BY <3>2, BusSteps, BusRemoval DEF BusRequests
    <3>3. CASE \E user \in MaybeBranch : RouteRequests(user)
      BY <3>3, RouteSteps DEF RouteRequests
    <3>4. CASE \E user \in MaybeBranch : DriverRequests(user)
      BY <3>4, DriverSteps, DriverReads DEF DriverRequests
    <3>5. CASE \E user \in MaybeBranch : TripRequests(user)
      BY <3>5, TripRemoval, TripReads, AssignReads, SeatsReads DEF TripRequests
    <3>6. CASE \E d \in Drivers : LicenseExpires(d)
      <4>1. None \in MaybeBranch
        BY DEF MaybeBranch
      <4>2. QED
        BY <3>6, <4>1, DriverSteps
    <3>7. CASE \E w \in Workers : Writes(w)
      BY <3>7, DriverWrites, TripCreation, TripWrites, Aborts DEF Writes
    <3>8. QED
      BY <2>1, <3>1, <3>2, <3>3, <3>4, <3>5, <3>6, <3>7 DEF Next
  <2>2. CASE UNCHANGED vars
    BY <2>2 DEF vars, rows, IInv, TypeOK, ReferencesExist, References, Prepared, Grounded,
                TripsStayInBranch, InBranch, Known, LabelsUnique, OneSeatPerLabel, LabelsDiffer
  <2>3. QED
    BY <2>1, <2>2
<1>3. QED
  BY <1>1, <1>2, PTL DEF Spec

\* Trips of a branch stay on the buses and routes of that branch.
THEOREM TripsInTheirBranch == Spec => []TripsStayInBranch
<1>1. IInv => TripsStayInBranch
  BY DEF IInv
<1>2. QED
  BY <1>1, CatalogueInvariant, PTL

\* A label names one seat of a trip.
THEOREM LabelsStayUnique == Spec => []OneSeatPerLabel
<1>1. IInv => OneSeatPerLabel
  BY DEF IInv, LabelsUnique
<1>2. QED
  BY <1>1, CatalogueInvariant, PTL

=============================================================================
