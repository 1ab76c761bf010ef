-------------------------------- MODULE Reports --------------------------------
(***************************************************************************)
(* The reports of managers, computed while clerks sell, cancel and spend.  *)
(*                                                                         *)
(* A report is one READ COMMITTED transaction of several queries, and each *)
(* query sees what is committed when it runs: the figures of one report    *)
(* may be of different moments.  Promise.all starts the queries together   *)
(* and promises no order.  Reports only read, which makes one report at a  *)
(* time enough.  The reported are those of the reader's branch.  Time is   *)
(* counted in instants, of which DayLength make a UTC day.                 *)
(***************************************************************************)
EXTENDS Integers, FiniteSets, Functions

CONSTANTS
  Bookings,
  Expenses,
  Fare,         \* what a booking pays
  Earned,       \* what its agent earns
  Cost,         \* what an expense comes to
  Departs,      \* when the trip of the bookings departs
  DayLength,
  Today,        \* bound: the last day
  MaxAdjusted,  \* bound: what is adjusted of an expense, up and down
  SeriesDays,   \* days of the chart of the dashboard: 7
  MaxDays,      \* days a range may have: 366
  Lag,          \* how long before its commit a row is stamped, at most
  NoDay

ASSUME ReportedIsFinite == IsFiniteSet(Bookings) /\ IsFiniteSet(Expenses)
ASSUME AmountsAreNumbers == {Fare, Earned, Cost, MaxAdjusted} \subseteq Nat
ASSUME TimesAreNumbers ==
  /\ {DayLength, SeriesDays, MaxDays} \subseteq Nat \ {0}
  /\ {Today, Lag, Departs} \subseteq Nat
ASSUME NoDayIsNoNumber == NoDay \notin Nat

VARIABLES
  now,
  booking,  \* sold at an instant, refunded an amount, commission reversed or not
  expense,  \* status, instant, and what adjustments add and take away
  report,   \* the report in progress: its kind, request, queries and figures
  touched   \* history: the rows written since it began

reported == <<booking, expense>>
reportsVars == <<now, reported, report, touched>>

Days == 0 .. Today
Instants == 0 .. (Today + 1) * DayLength - 1
DayOf(t) == t \div DayLength
InstantsOf(day) == day * DayLength .. day * DayLength + DayLength - 1

\* The queries of each report.
Queries == [sales     |-> {"total", "byMethod"},
            financial |-> {"revenue", "commissions", "expenses"},
            occupancy |-> {"booked"},
            dashboard |-> {"today", "yesterday", "spent", "series"},
            none      |-> {}]
Ranged == Queries.sales \cup Queries.financial \cup Queries.occupancy
Summed == {"total", "byMethod", "revenue", "commissions", "booked", "today", "yesterday"}

Query == [from : Days \cup {NoDay}, to : Days \cup {NoDay}]
Whole == [from |-> NoDay, to |-> NoDay]
Begun(kind, query) ==
  [kind |-> kind, query |-> query, asked |-> now, todo |-> Queries[kind], listed |-> {},
   figure |-> [f \in Summed \cup {"expenses", "spent"} |-> 0],
   series |-> [i \in 0 .. SeriesDays - 1 |-> 0]]
NoReport == [Begun("none", Whole) EXCEPT !.asked = 0]

ReportsInit ==
  /\ now = 0
  /\ booking = [b \in Bookings |->
                  [sold |-> FALSE, at |-> 0, refunded |-> 0, reversed |-> FALSE]]
  /\ expense = [e \in Expenses |-> [status |-> "NONE", at |-> 0, up |-> 0, down |-> 0]]
  /\ report = NoReport
  /\ touched = {}

--------------------------------------------------------------------------------
\* What is committed meanwhile: each step is one transaction.
Wrote(row) == touched' = IF report.kind = "none" THEN {} ELSE touched \cup {row}
Stamps == {t \in Instants : now - Lag <= t /\ t <= now}

WriteBooking(b, columns) ==
  /\ booking' = [booking EXCEPT ![b] = columns]
  /\ Wrote(b)
  /\ UNCHANGED <<now, expense, report>>

WriteExpense(e, columns) ==
  /\ expense' = [expense EXCEPT ![e] = columns]
  /\ Wrote(e)
  /\ UNCHANGED <<now, booking, report>>

Sell(b, at) ==
  /\ ~booking[b].sold
  /\ WriteBooking(b, [booking[b] EXCEPT !.sold = TRUE, !.at = at])

\* A cancellation refunds what the fee leaves and reverses the commission.
Cancel(b, amount) ==
  /\ booking[b].sold /\ ~booking[b].reversed
  /\ WriteBooking(b, [booking[b] EXCEPT !.refunded = amount, !.reversed = TRUE])

CreateExpense(e, at) ==
  /\ expense[e].status = "NONE"
  /\ WriteExpense(e, [expense[e] EXCEPT !.status = "DRAFT", !.at = at])

SetStatus(e, status) ==
  /\ expense[e].status = "DRAFT"
  /\ WriteExpense(e, [expense[e] EXCEPT !.status = status])

\* APPROVED stands for ADJUSTED as well.
Adjust(e, up, down) ==
  /\ expense[e].status = "APPROVED"
  /\ up + down \in 1 .. MaxAdjusted - expense[e].up - expense[e].down
  /\ WriteExpense(e, [expense[e] EXCEPT !.up = @ + up, !.down = @ + down])

Tick ==
  /\ now' \in Instants /\ now' = now + 1
  /\ UNCHANGED <<reported, report, touched>>

--------------------------------------------------------------------------------
\* reportRange: days are whole, and a missing first day is that of the end.
LastAtMidnight(query, asked) ==
  IF query.to = NoDay THEN asked ELSE query.to * DayLength
Last(query, asked) ==
  IF query.to = NoDay THEN asked ELSE query.to * DayLength + DayLength - 1
First(query, asked) ==
  DayLength * IF query.from = NoDay THEN DayOf(Last(query, asked)) ELSE query.from
RangeOf(query, asked) == First(query, asked) .. Last(query, asked)

Ask(kind, query) ==
  /\ report.kind = "none"
  /\ kind = "dashboard" => query = Whole
  /\ kind # "dashboard" =>
       Last(query, now) - First(query, now) \in 0 .. MaxDays * DayLength
  /\ report' = Begun(kind, query)
  /\ touched' = {}
  /\ UNCHANGED <<now, reported>>

\* The instants a query asks for.
Asked(f) ==
  IF f \in Ranged THEN RangeOf(report.query, report.asked)
  ELSE InstantsOf(DayOf(report.asked) - IF f = "yesterday" THEN 1 ELSE 0)

\* Gross in the dashboard and in sales, net of refunds in the financial report.
\* The seat of a reversed booking is not BOOKED any more.
Most(f) == CASE f = "commissions" -> Earned [] f = "booked" -> 1 [] OTHER -> Fare
Worth(f, b) ==
  CASE f = "revenue"                   -> Fare - booking[b].refunded
    [] f \in {"commissions", "booked"} -> IF booking[b].reversed THEN 0 ELSE Most(f)
    [] OTHER                           -> Fare

WorthOf(f) == [b \in Bookings |-> Worth(f, b)]
Net == [e \in Expenses |-> Cost + expense[e].up - expense[e].down]

\* The occupancy is that of the trips that depart in the range.
When(f, b) == IF f = "booked" THEN Departs ELSE booking[b].at

Answered(query, result) == report' = [result EXCEPT !.todo = @ \ {query}]

Sum(f) ==
  /\ f \in report.todo \cap Summed
  /\ LET found == {b \in Bookings : booking[b].sold /\ When(f, b) \in Asked(f)}
     IN  Answered(f, [report EXCEPT !.figure[f] =
                        SumFunctionOnSet(WorthOf(f), found)])
  /\ UNCHANGED <<now, reported, touched>>

\* Expenses come first, and a second query brings their adjustments.
ListWithDrafts ==
  /\ "expenses" \in report.todo
  /\ report' = [report EXCEPT
       !.todo = (@ \ {"expenses"}) \cup {"adjustments"},
       !.listed = {e \in Expenses : /\ expense[e].status \in {"DRAFT", "APPROVED"}
                                    /\ expense[e].at \in Asked("expenses")}]
  /\ UNCHANGED <<now, reported, touched>>
ListExpenses ==
  /\ "expenses" \in report.todo
  /\ report' = [report EXCEPT
       !.todo = (@ \ {"expenses"}) \cup {"adjustments"},
       !.listed = {e \in Expenses : /\ expense[e].status = "APPROVED"
                                    /\ expense[e].at \in Asked("expenses")}]
  /\ UNCHANGED <<now, reported, touched>>

SumExpenses ==
  /\ "adjustments" \in report.todo
  /\ Answered("adjustments", [report EXCEPT !.figure["expenses"] =
       SumFunctionOnSet(Net, report.listed)])
  /\ UNCHANGED <<now, reported, touched>>

\* The dashboard counts drafts, and no adjustments.
SumSpent ==
  /\ "spent" \in report.todo
  /\ LET found == {e \in Expenses : /\ expense[e].status \in {"DRAFT", "APPROVED"}
                                    /\ expense[e].at \in Asked("spent")}
     IN  Answered("spent", [report EXCEPT !.figure["spent"] =
                              Cost * Cardinality(found)])
  /\ UNCHANGED <<now, reported, touched>>

\* The chart: one query for all its days, from the midnight that begins the first to
\* the one that ends today, put into a bucket for each.
SeriesFromWeekAgo == DayOf(report.asked) - SeriesDays
SeriesFrom == DayOf(report.asked) - (SeriesDays - 1)
Charted ==
  {b \in Bookings : /\ booking[b].sold
                    /\ SeriesFrom * DayLength <= booking[b].at
                    /\ booking[b].at < (DayOf(report.asked) + 1) * DayLength}
Bucket(i) == DayOf(SeriesFrom * DayLength + i * DayLength)
FillSeries ==
  /\ "series" \in report.todo
  /\ Answered("series", [report EXCEPT !.series =
       [i \in DOMAIN report.series |->
          Fare * Cardinality({b \in Charted : DayOf(booking[b].at) = Bucket(i)})]])
  /\ UNCHANGED <<now, reported, touched>>

\* The report is answered, or it fails on the way.
EndReport ==
  /\ report.kind # "none"
  /\ report' = NoReport
  /\ touched' = {}
  /\ UNCHANGED <<now, reported>>

Trading ==
  \/ \E b \in Bookings : \/ \E at \in Stamps : Sell(b, at)
                         \/ \E amount \in 0 .. Fare : Cancel(b, amount)
  \/ \E e \in Expenses : \/ \E at \in Stamps : CreateExpense(e, at)
                         \/ \E status \in {"APPROVED", "DELETED"} : SetStatus(e, status)
                         \/ \E up, down \in 0 .. MaxAdjusted : Adjust(e, up, down)

ReportsNext ==
  \/ Tick
  \/ Trading
  \/ \E kind \in DOMAIN Queries \ {"none"}, query \in Query : Ask(kind, query)
  \/ \E f \in Summed : Sum(f)
  \/ ListExpenses \/ SumExpenses \/ SumSpent \/ FillSeries
  \/ EndReport

ReportsSpec == ReportsInit /\ [][ReportsNext]_reportsVars

--------------------------------------------------------------------------------
\* The days a figure is asked for, in the words of the request.  Without a last
\* day the report stops now: trips that depart later today have no occupancy yet.
IsAsked(f, at) ==
  LET today == DayOf(report.asked)
      last  == IF report.query.to = NoDay THEN today ELSE report.query.to
      first == IF report.query.from = NoDay THEN last ELSE report.query.from
  IN  \/ /\ f \in Ranged
         /\ DayOf(at) \in first .. last
         /\ f = "booked" /\ report.query.to = NoDay => at <= report.asked
      \/ f = "yesterday" /\ DayOf(at) = today - 1
      \/ f \notin Ranged \cup {"yesterday"} /\ DayOf(at) = today

Between(x, low, high) == low <= x /\ x <= high

\* A figure that sums payments, commissions or booked seats of the days asked for
\* misses and invents nothing: a booking nobody wrote since the report began counts
\* with exactly what is left of it, and one that changed meanwhile with something
\* between nothing and all of it.  The filters and the bounds of
\* ReportsService.sales, financial, occupancy and dashboard.
AskedBookings(f) == {b \in Bookings : booking[b].sold /\ IsAsked(f, When(f, b))}
BookingsAreBracketed ==
  \A f \in (Summed \cap Queries[report.kind]) \ report.todo :
    LET sure == SumFunctionOnSet(WorthOf(f), AskedBookings(f) \ touched)
    IN  Between(report.figure[f], sure,
                sure + Most(f) * Cardinality(AskedBookings(f) \cap touched))

\* The same of expenses, with their adjustments as long as they are approved.
AskedExpenses == {e \in Expenses : /\ expense[e].status = "APPROVED"
                                   /\ IsAsked("expenses", expense[e].at)}
LeastNet == [e \in Expenses |-> IF expense[e].down > Cost THEN Cost - expense[e].down ELSE 0]
MostNet == [e \in Expenses |-> Cost + expense[e].up]
NetIsBracketed ==
  "expenses" \in Queries[report.kind] /\ report.todo \cap {"expenses", "adjustments"} = {} =>
    LET sure  == SumFunctionOnSet(Net, AskedExpenses \ touched)
        moved == AskedExpenses \cap touched
    IN  Between(report.figure["expenses"], sure + SumFunctionOnSet(LeastNet, moved),
                sure + SumFunctionOnSet(MostNet, moved))

\* And of what was spent today, drafts included.
SpentToday == {e \in Expenses : /\ expense[e].status # "NONE"
                                /\ IsAsked("spent", expense[e].at)}
SpentIsBracketed ==
  "spent" \in Queries[report.kind] \ report.todo =>
    LET sure == Cost * Cardinality({e \in SpentToday : expense[e].status # "DELETED"} \ touched)
    IN  Between(report.figure["spent"], sure,
                sure + Cost * Cardinality(SpentToday \cap touched))

\* The figures of a report are those of the days asked for, although its
\* queries run at different moments and days end in between.
FiguresAreBracketed == BookingsAreBracketed /\ NetIsBracketed /\ SpentIsBracketed

\* The last bar of the chart is today's, the one before yesterday's, and each
\* holds all payments of its day: what is paid while the report is computed
\* may be missing, anything else may not.  buildRevenueSeries.
PaidOn(day) == {b \in Bookings : booking[b].sold /\ DayOf(booking[b].at) = day}
SeriesIsBracketed ==
  "series" \in Queries[report.kind] \ report.todo =>
    \A i \in DOMAIN report.series :
      LET day  == DayOf(report.asked) + 1 - SeriesDays + i
          sure == Fare * Cardinality(PaidOn(day) \ touched)
      IN  Between(report.series[i], sure, sure + Fare * Cardinality(PaidOn(day) \cap touched))

--------------------------------------------------------------------------------
(* Why they hold: the inductive invariant of FinanceProofs *)

ReportsTypeOK ==
  /\ now \in Nat
  /\ booking \in [Bookings -> [sold : BOOLEAN, at : Nat, refunded : 0 .. Fare, reversed : BOOLEAN]]
  /\ expense \in [Expenses -> [status : {"NONE", "DRAFT", "APPROVED", "DELETED"},
                              at : Nat, up : Nat, down : Nat]]
  /\ report \in [kind : DOMAIN Queries, query : Query, asked : Nat,
                 todo : SUBSET ((UNION Range(Queries)) \cup {"adjustments"}),
                 listed : SUBSET Expenses,
                 figure : [Summed \cup {"expenses", "spent"} -> Int],
                 series : [0 .. SeriesDays - 1 -> Int]]
  /\ report.todo \subseteq
       Queries[report.kind] \cup IF report.kind = "financial" THEN {"adjustments"} ELSE {}

\* What nobody wrote since the report began is not of later than that.
StampsInv ==
  /\ report.asked <= now
  /\ \A b \in Bookings :
       /\ booking[b].at <= now
       /\ report.kind # "none" /\ b \notin touched => booking[b].at <= report.asked
  /\ \A e \in Expenses :
       /\ expense[e].at <= now
       /\ report.kind # "none" /\ e \notin touched => expense[e].at <= report.asked

\* Between its two queries the financial report has the expenses asked for, but for
\* what is written meanwhile.
ListedInv ==
  "adjustments" \in report.todo =>
    AskedExpenses \ touched \subseteq report.listed /\ report.listed \subseteq AskedExpenses

ReportsInv ==
  /\ ReportsTypeOK
  /\ StampsInv
  /\ ListedInv
  /\ FiguresAreBracketed
  /\ SeriesIsBracketed
=============================================================================
