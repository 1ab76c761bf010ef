----------------------------- MODULE FinanceProofs -----------------------------
(***************************************************************************)
(* The money of an organization: the Ledger it is booked in, and the       *)
(* Reports managers read.  The two share no state; this module proves      *)
(* their invariants, and both are about sums over the rows (Sums).         *)
(*                                                                         *)
(* Ledger: what a request has inserted or locked stays its own until it    *)
(* commits (WriterInv, PeriodInv), and the original of a reversal in       *)
(* progress stays POSTED (ReversalInv); every entry balances, and the      *)
(* trial balance is their sum (BalancedInv).                               *)
(*                                                                         *)
(* Reports: each row adds to a figure at least and at most so much         *)
(* (LowWorth, HighWorth, ...), and what anybody writes meanwhile only      *)
(* widens that (RowsMove): a figure within the sum of its rows' brackets   *)
(* stays there (RowByRow).                                                 *)
(***************************************************************************)
EXTENDS Ledger, Reports, Sums, TLAPS

-----------------------------------------------------------------------------
(* The reports *)

LEMMA Numbers ==
  /\ Fare \in Nat /\ Earned \in Nat /\ Cost \in Nat /\ MaxAdjusted \in Nat
  /\ DayLength \in Nat \ {0} /\ SeriesDays \in Nat \ {0} /\ MaxDays \in Nat \ {0}
  /\ Today \in Nat /\ Lag \in Nat /\ Departs \in Nat
BY AmountsAreNumbers, TimesAreNumbers

\* An instant is of a later day iff it is not before the first instant of that day.
LEMMA DayBegins ==
  ASSUME NEW t \in Nat, NEW day \in Int
  PROVE  DayOf(t) \in Nat /\ (day <= DayOf(t) <=> day * DayLength <= t)
<1> DEFINE q == DayOf(t)
           r == t % DayLength
<1>1. DayLength \in Nat \ {0}
  BY Numbers
<1>2. q \in Nat /\ r \in 0 .. DayLength - 1 /\ t = q * DayLength + r
  BY <1>1 DEF DayOf
<1> HIDE DEF q, r
<1>3. CASE day <= q
  <2>1. PICK n \in Nat : q = day + n
    <3>1. q - day \in Nat /\ q = day + (q - day)
      BY <1>2, <1>3
    <3> QED BY <3>1
  <2>2. q * DayLength = day * DayLength + n * DayLength /\ n * DayLength \in Nat
    BY <1>1, <2>1
  <2>3. day * DayLength \in Int
    BY <1>1
  <2> QED BY <1>2, <1>3, <2>2, <2>3 DEF q
<1>4. CASE ~(day <= q)
  <2>1. PICK n \in Nat : day = q + 1 + n
    <3>1. day - q - 1 \in Nat /\ day = q + 1 + (day - q - 1)
      BY <1>2, <1>4
    <3> QED BY <3>1
  <2>2. /\ day * DayLength = q * DayLength + DayLength + n * DayLength
        /\ n * DayLength \in Nat /\ q * DayLength \in Nat
    BY <1>1, <1>2, <2>1
  <2> QED BY <1>1, <1>2, <1>4, <2>2 DEF q
<1> QED BY <1>3, <1>4

\* The instants of a day, also of the day before the first.
LEMMA InstantsOfDay ==
  ASSUME NEW t \in Nat, NEW day \in Int
  PROVE  t \in InstantsOf(day) <=> DayOf(t) = day
<1>1. /\ DayOf(t) \in Nat
      /\ day <= DayOf(t) <=> day * DayLength <= t
      /\ day + 1 <= DayOf(t) <=> (day + 1) * DayLength <= t
  BY DayBegins
<1>2. DayLength \in Nat /\ day * DayLength \in Int /\ (day + 1) * DayLength = day * DayLength + DayLength
  BY Numbers
<1> QED BY <1>1, <1>2 DEF InstantsOf

\* A day begins at its own midnight.
LEMMA MidnightOfDay ==
  ASSUME NEW day \in Int
  PROVE  DayOf(day * DayLength) = day
<1>1. DayLength \in Nat \ {0}
  BY Numbers
<1>2. PICK m \in Int : m = day * DayLength
  BY <1>1
<1>3. PICK q \in Int : q = m \div DayLength
  BY <1>1, <1>2
<1>4. q * DayLength <= m /\ m < q * DayLength + DayLength
  BY <1>1, <1>3
<1>5. q <= day
  BY <1>1, <1>2, <1>4
<1>6. day <= q
  BY <1>1, <1>2, <1>4
<1> QED BY <1>2, <1>3, <1>5, <1>6 DEF DayOf

LEMMA EarlierDay ==
  ASSUME NEW s \in Nat, NEW t \in Nat, s <= t
  PROVE  DayOf(s) <= DayOf(t)
<1>1. DayOf(s) \in Nat /\ DayOf(s) * DayLength <= s
  BY DayBegins
<1>2. DayOf(s) * DayLength <= t
  BY <1>1, Numbers
<1> QED BY <1>1, <1>2, DayBegins

\* The range of a request: whole days, the last one until now if it is left out.
LEMMA RangeIsOfDays ==
  ASSUME NEW query \in Query, NEW asked \in Nat, NEW t \in Nat
  PROVE  LET last  == IF query.to = NoDay THEN DayOf(asked) ELSE query.to
             first == IF query.from = NoDay THEN last ELSE query.from
         IN  t \in RangeOf(query, asked) <=> /\ DayOf(t) \in first .. last
                                             /\ query.to = NoDay => t <= asked
<1> DEFINE last  == IF query.to = NoDay THEN DayOf(asked) ELSE query.to
           first == IF query.from = NoDay THEN last ELSE query.from
<1>1. DayOf(asked) \in Nat /\ DayOf(t) \in Nat
  BY DayBegins
<1>2. /\ query.to # NoDay => query.to \in Nat
      /\ query.from # NoDay => query.from \in Nat
  BY DEF Query, Days
<1>3. last \in Nat /\ first \in Nat
  BY <1>1, <1>2
<1>4. Last(query, asked) \in Nat /\ DayOf(Last(query, asked)) = last
  <2>1. CASE query.to = NoDay
    BY <2>1 DEF Last
  <2>2. CASE query.to # NoDay
    <3> DEFINE end == query.to * DayLength + DayLength - 1
    <3>1. end \in Nat /\ end \in InstantsOf(query.to)
      BY <1>2, <2>2, Numbers DEF InstantsOf
    <3> HIDE DEF end
    <3>2. DayOf(end) = query.to
      BY <1>2, <2>2, <3>1, InstantsOfDay
    <3> QED BY <2>2, <3>1, <3>2 DEF Last, end
  <2> QED BY <2>1, <2>2
<1>5. First(query, asked) = first * DayLength
  BY <1>3, <1>4, Numbers DEF First
<1>6. first <= DayOf(t) <=> first * DayLength <= t
  BY <1>3, DayBegins
<1>7. t <= Last(query, asked) <=> DayOf(t) <= last /\ (query.to = NoDay => t <= asked)
  <2>1. CASE query.to = NoDay
    <3>1. t <= asked => DayOf(t) <= DayOf(asked)
      BY EarlierDay
    <3> QED BY <2>1, <3>1 DEF Last
  <2>2. CASE query.to # NoDay
    <3> DEFINE next == query.to + 1
    <3>1. next \in Nat /\ next * DayLength \in Nat
          /\ next * DayLength = query.to * DayLength + DayLength
          /\ query.to * DayLength \in Nat
      BY <1>2, <2>2, Numbers
    <3>2. next <= DayOf(t) <=> next * DayLength <= t
      BY <3>1, DayBegins
    <3>3. next <= DayOf(t) <=> ~(DayOf(t) <= query.to)
      BY <1>1, <1>2, <2>2
    <3>4. Last(query, asked) = next * DayLength - 1
      BY <2>2, <3>1, Numbers DEF Last
    <3> QED BY <2>2, <3>1, <3>2, <3>3, <3>4
  <2> QED BY <2>1, <2>2
<1> HIDE DEF last, first
<1>8. t \in RangeOf(query, asked) <=> first * DayLength <= t /\ t <= Last(query, asked)
  BY <1>3, <1>4, <1>5, Numbers DEF RangeOf
<1> QED BY <1>1, <1>3, <1>6, <1>7, <1>8 DEF last, first

\* The queries ask for the days of the request: nothing else, and nothing less but
\* what is stamped after the report was asked for.
LEMMA QueriesAskForDays ==
  ASSUME ReportsTypeOK, NEW f \in Summed \cup {"expenses", "spent"}, NEW t \in Nat
  PROVE  /\ t \in Asked(f) => IsAsked(f, t)
         /\ IsAsked(f, t) /\ (t <= report.asked \/ f = "booked") => t \in Asked(f)
<1> DEFINE today == DayOf(report.asked)
<1>1. report.query \in Query /\ report.asked \in Nat
  BY DEF ReportsTypeOK
<1>2. today \in Nat /\ DayOf(t) \in Nat
  BY <1>1, DayBegins
<1>3. CASE f \in Ranged
  <2> DEFINE query == report.query
             asked == report.asked
             last  == IF query.to = NoDay THEN DayOf(asked) ELSE query.to
             first == IF query.from = NoDay THEN last ELSE query.from
  <2>1. t \in RangeOf(query, asked) <=> /\ DayOf(t) \in first .. last
                                        /\ query.to = NoDay => t <= asked
    <3> HIDE DEF query, asked
    <3> QED BY <1>1, RangeIsOfDays DEF query, asked
  <2>2. Asked(f) = RangeOf(query, asked)
    BY <1>3 DEF Asked
  <2>3. IsAsked(f, t) <=> /\ DayOf(t) \in first .. last
                          /\ f = "booked" /\ query.to = NoDay => t <= asked
    BY <1>3 DEF IsAsked, Ranged, Queries
  <2> QED BY <2>1, <2>2, <2>3
<1>4. CASE f \notin Ranged /\ f = "yesterday"
  <2>1. t \in InstantsOf(today - 1) <=> DayOf(t) = today - 1
    BY <1>2, InstantsOfDay
  <2>2. Asked(f) = InstantsOf(today - 1)
    BY <1>4 DEF Asked
  <2>3. IsAsked(f, t) <=> DayOf(t) = today - 1
    BY <1>4 DEF IsAsked
  <2> QED BY <2>1, <2>2, <2>3
<1>5. CASE f \notin Ranged /\ f # "yesterday"
  <2>1. t \in InstantsOf(today) <=> DayOf(t) = today
    BY <1>2, InstantsOfDay
  <2>2. Asked(f) = InstantsOf(today - 0) /\ today - 0 = today
    BY <1>2, <1>5 DEF Asked
  <2>3. IsAsked(f, t) <=> DayOf(t) = today
    BY <1>5 DEF IsAsked
  <2> QED BY <2>1, <2>2, <2>3
<1> QED BY <1>3, <1>4, <1>5

(* What each row adds to a figure, at least and at most. *)

LowWorth(f) == [b \in Bookings |->
  IF b \in AskedBookings(f) \ touched THEN Worth(f, b) ELSE 0]
HighWorth(f) == [b \in Bookings |->
  IF b \in AskedBookings(f) \ touched THEN Worth(f, b)
  ELSE IF b \in AskedBookings(f) THEN Most(f) ELSE 0]

LowNet == [e \in Expenses |->
  IF e \in AskedExpenses \ touched THEN Net[e]
  ELSE IF e \in AskedExpenses THEN LeastNet[e] ELSE 0]
HighNet == [e \in Expenses |->
  IF e \in AskedExpenses \ touched THEN Net[e]
  ELSE IF e \in AskedExpenses THEN MostNet[e] ELSE 0]

Undeleted == {e \in SpentToday : expense[e].status # "DELETED"}
LowSpent == [e \in Expenses |-> IF e \in Undeleted \ touched THEN Cost ELSE 0]
HighSpent == [e \in Expenses |->
  IF e \in Undeleted \ touched \/ e \in SpentToday \cap touched THEN Cost ELSE 0]

LowPaid(day) == [b \in Bookings |-> IF b \in PaidOn(day) \ touched THEN Fare ELSE 0]
HighPaid(day) == [b \in Bookings |-> IF b \in PaidOn(day) THEN Fare ELSE 0]

Bracketed(x, low, high, S) ==
  Between(x, SumFunctionOnSet(low, S), SumFunctionOnSet(high, S))

\* A bracket that only widens still holds what it held, and it holds a sum of terms
\* that lie between its own, one by one.
LEMMA BracketWidens ==
  ASSUME NEW S, IsFiniteSet(S), NEW low, NEW high, NEW wideLow, NEW wideHigh, NEW x \in Int,
         \A s \in S : /\ low[s] \in Int /\ high[s] \in Int
                      /\ wideLow[s] \in Int /\ wideHigh[s] \in Int
                      /\ wideLow[s] <= low[s] /\ high[s] <= wideHigh[s],
         Bracketed(x, low, high, S)
  PROVE  Bracketed(x, wideLow, wideHigh, S)
<1>1. /\ SumFunctionOnSet(wideLow, S) <= SumFunctionOnSet(low, S)
      /\ SumFunctionOnSet(high, S) <= SumFunctionOnSet(wideHigh, S)
  BY SumMonotone
<1>2. /\ SumFunctionOnSet(wideLow, S) \in Int /\ SumFunctionOnSet(low, S) \in Int
      /\ SumFunctionOnSet(high, S) \in Int /\ SumFunctionOnSet(wideHigh, S) \in Int
  BY SumType
<1> QED BY <1>1, <1>2 DEF Bracketed, Between

LEMMA BracketOfTerms ==
  ASSUME NEW S, IsFiniteSet(S), NEW low, NEW high, NEW A \in SUBSET S, NEW f,
         \A s \in A : f[s] \in Int /\ low[s] <= f[s] /\ f[s] <= high[s],
         \A s \in S \ A : low[s] <= 0 /\ 0 <= high[s],
         \A s \in S : low[s] \in Int /\ high[s] \in Int
  PROVE  Bracketed(SumFunctionOnSet(f, A), low, high, S)
<1> DEFINE g == [s \in S |-> IF s \in A THEN f[s] ELSE 0]
<1>1. \A s \in S : g[s] \in Int /\ low[s] <= g[s] /\ g[s] <= high[s]
  OBVIOUS
<1>2. (\A s \in A : g[s] = f[s]) /\ (\A s \in S \ A : g[s] = 0)
  OBVIOUS
<1> HIDE DEF g
<1>3. SumFunctionOnSet(g, S) = SumFunctionOnSet(f, A)
  BY <1>2, SumOfSome
<1>4. /\ SumFunctionOnSet(low, S) <= SumFunctionOnSet(g, S)
      /\ SumFunctionOnSet(g, S) <= SumFunctionOnSet(high, S)
  BY <1>1, SumMonotone
<1> QED BY <1>3, <1>4 DEF Bracketed, Between

LEMMA MostIsNat == ASSUME NEW f PROVE Most(f) \in Nat
BY Numbers DEF Most

LEMMA WorthIsBounded ==
  ASSUME ReportsTypeOK, NEW f, NEW b \in Bookings
  PROVE  /\ Most(f) \in Nat /\ Worth(f, b) \in 0 .. Most(f)
         /\ WorthOf(f)[b] = Worth(f, b)
<1>1. booking[b].refunded \in 0 .. Fare
  BY DEF ReportsTypeOK
<1>2. Most(f) \in Nat /\ (f = "revenue" => Most(f) = Fare)
  BY Numbers DEF Most
<1>3. Worth(f, b) \in 0 .. Most(f)
  <2>1. CASE f = "revenue"
    BY <1>1, <1>2, <2>1, Numbers DEF Worth
  <2>2. CASE f \in {"commissions", "booked"}
    BY <1>2, <2>2 DEF Worth
  <2>3. CASE f \notin {"revenue", "commissions", "booked"}
    <3>1. Worth(f, b) = Fare /\ Most(f) = Fare
      BY <2>3 DEF Worth, Most
    <3> QED BY <3>1, Numbers
  <2> QED BY <2>1, <2>2, <2>3
<1> QED BY <1>2, <1>3 DEF WorthOf

LEMMA WorthIsInt ==
  ASSUME ReportsTypeOK, NEW f, NEW b \in Bookings
  PROVE  /\ LowWorth(f)[b] \in Int /\ HighWorth(f)[b] \in Int
         /\ LowWorth(f)[b] >= 0 /\ HighWorth(f)[b] <= Most(f)
         /\ HighWorth(f)[b] >= 0
BY WorthIsBounded DEF LowWorth, HighWorth

\* The brackets of Reports, row by row.
LEMMA WorthBracket ==
  ASSUME ReportsTypeOK, NEW f
  PROVE  /\ SumFunctionOnSet(LowWorth(f), Bookings)
              = SumFunctionOnSet(WorthOf(f), AskedBookings(f) \ touched)
         /\ SumFunctionOnSet(HighWorth(f), Bookings)
              = SumFunctionOnSet(WorthOf(f), AskedBookings(f) \ touched)
                + Most(f) * Cardinality(AskedBookings(f) \cap touched)
<1> DEFINE A == AskedBookings(f) \ touched
           B == AskedBookings(f) \cap touched
           worth == WorthOf(f)
           low == LowWorth(f)
           high == HighWorth(f)
           most == Most(f)
           g == [b \in Bookings |-> most]
<1>1. A \in SUBSET Bookings /\ B \in SUBSET Bookings /\ A \cap B = {}
  BY DEF AskedBookings
<1>2. most \in Nat /\ \A b \in Bookings : worth[b] \in Int
  BY MostIsNat, WorthIsBounded
<1>3. \A b \in A : low[b] = worth[b] /\ high[b] = worth[b]
  BY <1>1 DEF LowWorth, HighWorth, WorthOf
<1>4. \A b \in B : low[b] = 0 /\ high[b] = most
  BY <1>1 DEF LowWorth, HighWorth
<1>5. \A b \in Bookings \ (A \cup B) : low[b] = 0 /\ high[b] = 0
  BY DEF LowWorth, HighWorth
<1>6. \A b \in B : g[b] = most
  BY <1>1
<1>7. IsFiniteSet(Bookings) /\ IsFiniteSet(A) /\ IsFiniteSet(B)
  BY <1>1, ReportedIsFinite, FS_Subset
<1> HIDE DEF A, B, worth, low, high, most, g
<1>8. SumFunctionOnSet(high, Bookings) = SumFunctionOnSet(worth, A) + SumFunctionOnSet(g, B)
  <2>1. (\A b \in A : worth[b] \in Int /\ high[b] = worth[b])
        /\ (\A b \in B : g[b] \in Int /\ high[b] = g[b])
        /\ (\A b \in Bookings \ (A \cup B) : high[b] = 0)
    BY <1>1, <1>2, <1>3, <1>4, <1>5, <1>6
  <2> QED BY <1>1, <1>7, <2>1, SumByCases
<1>9. SumFunctionOnSet(g, B) = most * Cardinality(B)
  BY <1>2, <1>6, <1>7, SumOfEqual
<1>10. SumFunctionOnSet(low, Bookings) = SumFunctionOnSet(worth, A)
  <2>1. /\ \A b \in A : worth[b] \in Int /\ low[b] = worth[b]
        /\ \A b \in Bookings \ A : low[b] = 0
    BY <1>1, <1>2, <1>3, <1>4, <1>5
  <2> QED BY <1>1, <1>7, <2>1, SumOfSome
<1> QED BY <1>8, <1>9, <1>10 DEF A, B, worth, low, high, most

LEMMA NetIsInt ==
  ASSUME ReportsTypeOK, NEW e \in Expenses
  PROVE  /\ Net[e] \in Int /\ LeastNet[e] \in Int /\ MostNet[e] \in Int
         /\ LeastNet[e] <= Net[e] /\ Net[e] <= MostNet[e]
         /\ LeastNet[e] <= 0 /\ MostNet[e] >= 0
         /\ LowNet[e] \in Int /\ HighNet[e] \in Int
<1>1. expense[e].up \in Nat /\ expense[e].down \in Nat /\ Cost \in Nat
  BY Numbers DEF ReportsTypeOK
<1>2. /\ Net[e] = Cost + expense[e].up - expense[e].down
      /\ LeastNet[e] = (IF expense[e].down > Cost THEN Cost - expense[e].down ELSE 0)
      /\ MostNet[e] = Cost + expense[e].up
  BY DEF Net, LeastNet, MostNet
<1>3. /\ Net[e] \in Int /\ LeastNet[e] \in Int /\ MostNet[e] \in Int
      /\ LeastNet[e] <= Net[e] /\ Net[e] <= MostNet[e]
      /\ LeastNet[e] <= 0 /\ MostNet[e] >= 0
  BY <1>1, <1>2
<1>4. LowNet[e] \in {Net[e], LeastNet[e], 0} /\ HighNet[e] \in {Net[e], MostNet[e], 0}
  BY DEF LowNet, HighNet
<1> QED BY <1>3, <1>4

LEMMA NetBracket ==
  ASSUME ReportsTypeOK
  PROVE  /\ SumFunctionOnSet(LowNet, Expenses)
              = SumFunctionOnSet(Net, AskedExpenses \ touched)
                + SumFunctionOnSet(LeastNet, AskedExpenses \cap touched)
         /\ SumFunctionOnSet(HighNet, Expenses)
              = SumFunctionOnSet(Net, AskedExpenses \ touched)
                + SumFunctionOnSet(MostNet, AskedExpenses \cap touched)
<1> DEFINE A == AskedExpenses \ touched
           B == AskedExpenses \cap touched
           net == Net
           least == LeastNet
           most == MostNet
           low == LowNet
           high == HighNet
<1>1. A \in SUBSET Expenses /\ B \in SUBSET Expenses /\ A \cap B = {}
  BY DEF AskedExpenses
<1>2. \A e \in Expenses : net[e] \in Int /\ least[e] \in Int /\ most[e] \in Int
  BY NetIsInt
<1>3. \A e \in A : low[e] = net[e] /\ high[e] = net[e]
  BY <1>1 DEF LowNet, HighNet
<1>4. \A e \in B : low[e] = least[e] /\ high[e] = most[e]
  BY <1>1 DEF LowNet, HighNet
<1>5. \A e \in Expenses \ (A \cup B) : low[e] = 0 /\ high[e] = 0
  BY DEF LowNet, HighNet
<1> HIDE DEF A, B, net, least, most, low, high
<1>6. SumFunctionOnSet(low, Expenses) = SumFunctionOnSet(net, A) + SumFunctionOnSet(least, B)
  <2>1. (\A e \in A : net[e] \in Int /\ low[e] = net[e])
        /\ (\A e \in B : least[e] \in Int /\ low[e] = least[e])
        /\ (\A e \in Expenses \ (A \cup B) : low[e] = 0)
    BY <1>1, <1>2, <1>3, <1>4, <1>5
  <2> QED BY <1>1, <2>1, ReportedIsFinite, SumByCases
<1>7. SumFunctionOnSet(high, Expenses) = SumFunctionOnSet(net, A) + SumFunctionOnSet(most, B)
  <2>1. (\A e \in A : net[e] \in Int /\ high[e] = net[e])
        /\ (\A e \in B : most[e] \in Int /\ high[e] = most[e])
        /\ (\A e \in Expenses \ (A \cup B) : high[e] = 0)
    BY <1>1, <1>2, <1>3, <1>4, <1>5
  <2> QED BY <1>1, <2>1, ReportedIsFinite, SumByCases
<1> QED BY <1>6, <1>7 DEF A, B, net, least, most, low, high

LEMMA SpentBracket ==
  /\ SumFunctionOnSet(LowSpent, Expenses) = Cost * Cardinality(Undeleted \ touched)
  /\ SumFunctionOnSet(HighSpent, Expenses)
       = Cost * Cardinality(Undeleted \ touched) + Cost * Cardinality(SpentToday \cap touched)
<1> DEFINE A == Undeleted \ touched
           B == SpentToday \cap touched
           low == LowSpent
           high == HighSpent
           g == [e \in Expenses |-> Cost]
<1>1. A \in SUBSET Expenses /\ B \in SUBSET Expenses /\ A \cap B = {}
  BY DEF Undeleted, SpentToday
<1>2. \A e \in A : low[e] = Cost /\ high[e] = Cost
  BY <1>1 DEF LowSpent, HighSpent
<1>3. \A e \in B : high[e] = Cost
  BY <1>1 DEF HighSpent
<1>4. /\ \A e \in Expenses \ A : low[e] = 0
      /\ \A e \in Expenses \ (A \cup B) : high[e] = 0
  BY DEF LowSpent, HighSpent
<1>5. \A e \in Expenses : g[e] = Cost
  OBVIOUS
<1>6. Cost \in Int /\ IsFiniteSet(A) /\ IsFiniteSet(B)
  BY <1>1, Numbers, ReportedIsFinite, FS_Subset
<1> HIDE DEF A, B, low, high, g
<1>7. SumFunctionOnSet(low, Expenses) = Cost * Cardinality(A)
  BY <1>1, <1>2, <1>4, <1>6, ReportedIsFinite, SumOfCount
<1>8. SumFunctionOnSet(high, Expenses) = SumFunctionOnSet(g, A) + SumFunctionOnSet(g, B)
  <2>1. (\A e \in A : g[e] \in Int /\ high[e] = g[e]) /\ (\A e \in B : g[e] \in Int /\ high[e] = g[e])
    BY <1>1, <1>2, <1>3, <1>5, <1>6
  <2> QED BY <1>1, <1>4, <2>1, ReportedIsFinite, SumByCases
<1>9. /\ SumFunctionOnSet(g, A) = Cost * Cardinality(A)
      /\ SumFunctionOnSet(g, B) = Cost * Cardinality(B)
  BY <1>1, <1>5, <1>6, SumOfEqual
<1> QED BY <1>7, <1>8, <1>9 DEF A, B, low, high

LEMMA PaidBracket ==
  ASSUME NEW day
  PROVE  /\ SumFunctionOnSet(LowPaid(day), Bookings) = Fare * Cardinality(PaidOn(day) \ touched)
         /\ SumFunctionOnSet(HighPaid(day), Bookings)
              = Fare * Cardinality(PaidOn(day) \ touched)
                + Fare * Cardinality(PaidOn(day) \cap touched)
<1> DEFINE A == PaidOn(day) \ touched
           B == PaidOn(day) \cap touched
           low == LowPaid(day)
           high == HighPaid(day)
           g == [b \in Bookings |-> Fare]
<1>1. A \in SUBSET Bookings /\ B \in SUBSET Bookings /\ A \cap B = {}
  BY DEF PaidOn
<1>2. \A b \in A : low[b] = Fare /\ high[b] = Fare
  BY <1>1 DEF LowPaid, HighPaid
<1>3. \A b \in B : high[b] = Fare
  BY <1>1 DEF HighPaid
<1>4. /\ \A b \in Bookings \ A : low[b] = 0
      /\ \A b \in Bookings \ (A \cup B) : high[b] = 0
  BY DEF LowPaid, HighPaid
<1>5. \A b \in Bookings : g[b] = Fare
  OBVIOUS
<1>6. Fare \in Int /\ IsFiniteSet(A) /\ IsFiniteSet(B)
  BY <1>1, Numbers, ReportedIsFinite, FS_Subset
<1> HIDE DEF A, B, low, high, g
<1>7. SumFunctionOnSet(low, Bookings) = Fare * Cardinality(A)
  BY <1>1, <1>2, <1>4, <1>6, ReportedIsFinite, SumOfCount
<1>8. SumFunctionOnSet(high, Bookings) = SumFunctionOnSet(g, A) + SumFunctionOnSet(g, B)
  <2>1. (\A b \in A : g[b] \in Int /\ high[b] = g[b]) /\ (\A b \in B : g[b] \in Int /\ high[b] = g[b])
    BY <1>1, <1>2, <1>3, <1>5, <1>6
  <2> QED BY <1>1, <1>4, <2>1, ReportedIsFinite, SumByCases
<1>9. /\ SumFunctionOnSet(g, A) = Fare * Cardinality(A)
      /\ SumFunctionOnSet(g, B) = Fare * Cardinality(B)
  BY <1>1, <1>5, <1>6, SumOfEqual
<1> QED BY <1>7, <1>8, <1>9 DEF A, B, low, high

(* What may happen to the rows while a report is computed. *)

\* A booking is as it was, or it is touched and was not sold, or still is of then.
BookingMoves(b) ==
  \/ booking'[b] = booking[b]
  \/ /\ b \in touched'
     /\ booking[b].sold => booking'[b].sold /\ booking'[b].at = booking[b].at

\* What is approved stays so, and its adjustments are added to.
ExpenseMoves(e) ==
  \/ expense'[e] = expense[e]
  \/ /\ e \in touched'
     /\ expense[e].status # "NONE" =>
          expense'[e].status # "NONE" /\ expense'[e].at = expense[e].at
     /\ expense[e].status = "APPROVED" =>
          /\ expense'[e].status = "APPROVED"
          /\ expense[e].up <= expense'[e].up
          /\ expense[e].down <= expense'[e].down

RowsMove ==
  /\ touched \subseteq touched'
  /\ \A b \in Bookings : BookingMoves(b)
  /\ \A e \in Expenses : ExpenseMoves(e)

SameRequest ==
  report'.kind = report.kind /\ report'.query = report.query /\ report'.asked = report.asked

\* Whoever was asked for still is; and a row that was not touched counts as it did.
LEMMA AskedBookingsMove ==
  ASSUME SameRequest, RowsMove, NEW f, NEW b \in Bookings
  PROVE  /\ b \in AskedBookings(f) => b \in AskedBookings(f)'
         /\ b \notin touched' => /\ b \in AskedBookings(f)' <=> b \in AskedBookings(f)
                                 /\ Worth(f, b)' = Worth(f, b)
<1>1. BookingMoves(b)
  BY DEF RowsMove
<1>2. booking[b].sold => booking'[b].sold /\ booking'[b].at = booking[b].at
  BY <1>1 DEF BookingMoves
<1>3. b \notin touched' => booking'[b] = booking[b]
  BY <1>1 DEF BookingMoves
<1>4. b \in AskedBookings(f) => b \in AskedBookings(f)'
  BY <1>2 DEF AskedBookings, IsAsked, When, SameRequest
<1>5. b \notin touched' => (b \in AskedBookings(f)' <=> b \in AskedBookings(f))
  BY <1>3 DEF AskedBookings, IsAsked, When, SameRequest
<1>6. b \notin touched' => Worth(f, b)' = Worth(f, b)
  BY <1>3 DEF Worth, Most
<1> QED BY <1>4, <1>5, <1>6

LEMMA WorthWidens ==
  ASSUME ReportsTypeOK, ReportsTypeOK', SameRequest, RowsMove, NEW f, NEW b \in Bookings
  PROVE  /\ LowWorth(f)'[b] \in Int /\ HighWorth(f)'[b] \in Int
         /\ LowWorth(f)'[b] <= LowWorth(f)[b] /\ HighWorth(f)[b] <= HighWorth(f)'[b]
<1>1. /\ b \in AskedBookings(f) => b \in AskedBookings(f)'
      /\ b \notin touched' => /\ b \in AskedBookings(f)' <=> b \in AskedBookings(f)
                              /\ Worth(f, b)' = Worth(f, b)
      /\ b \in touched => b \in touched'
  BY AskedBookingsMove DEF RowsMove
<1>2. /\ LowWorth(f)[b] \in Int /\ HighWorth(f)[b] \in Int
      /\ LowWorth(f)[b] >= 0 /\ HighWorth(f)[b] <= Most(f)
      /\ Most(f) \in Nat
  BY WorthIsInt, MostIsNat
<1>3. Worth(f, b) \in Int
  BY <1>2, WorthIsBounded
<1>4. CASE b \in touched'
  <2>1. LowWorth(f)'[b] = 0
    BY <1>4 DEF LowWorth
  <2>2. HighWorth(f)'[b] = IF b \in AskedBookings(f)' THEN Most(f) ELSE 0
    BY <1>4 DEF HighWorth, Most
  <2>3. b \notin AskedBookings(f) => HighWorth(f)[b] = 0
    BY DEF HighWorth
  <2> QED BY <1>1, <1>2, <2>1, <2>2, <2>3
<1>5. CASE b \notin touched'
  <2>1. /\ LowWorth(f)'[b] = IF b \in AskedBookings(f)' THEN Worth(f, b)' ELSE 0
        /\ HighWorth(f)'[b] = IF b \in AskedBookings(f)' THEN Worth(f, b)' ELSE 0
    BY <1>5 DEF LowWorth, HighWorth
  <2>2. /\ LowWorth(f)[b] = IF b \in AskedBookings(f) THEN Worth(f, b) ELSE 0
        /\ HighWorth(f)[b] = IF b \in AskedBookings(f) THEN Worth(f, b) ELSE 0
    BY <1>1, <1>5 DEF LowWorth, HighWorth
  <2> QED BY <1>1, <1>3, <1>5, <2>1, <2>2
<1> QED BY <1>4, <1>5

LEMMA AskedExpensesMove ==
  ASSUME SameRequest, RowsMove, NEW e \in Expenses
  PROVE  /\ e \in AskedExpenses => e \in AskedExpenses'
         /\ e \notin touched' => /\ e \in AskedExpenses' <=> e \in AskedExpenses
                                 /\ Net'[e] = Net[e]
         /\ e \in touched => e \in touched'
<1>1. ExpenseMoves(e) /\ touched \subseteq touched'
  BY DEF RowsMove
<1>2. expense[e].status = "APPROVED" =>
        expense'[e].status = "APPROVED" /\ expense'[e].at = expense[e].at
  BY <1>1 DEF ExpenseMoves
<1>3. e \notin touched' => expense'[e] = expense[e]
  BY <1>1 DEF ExpenseMoves
<1>4. e \in AskedExpenses => e \in AskedExpenses'
  BY <1>2 DEF AskedExpenses, IsAsked, SameRequest
<1>5. e \notin touched' => (e \in AskedExpenses' <=> e \in AskedExpenses)
  BY <1>3 DEF AskedExpenses, IsAsked, SameRequest
<1>6. e \notin touched' => Net'[e] = Net[e]
  BY <1>3 DEF Net
<1> QED BY <1>1, <1>4, <1>5, <1>6

LEMMA NetWidens ==
  ASSUME ReportsTypeOK, ReportsTypeOK', SameRequest, RowsMove, NEW e \in Expenses
  PROVE  /\ LowNet'[e] \in Int /\ HighNet'[e] \in Int
         /\ LowNet'[e] <= LowNet[e] /\ HighNet[e] <= HighNet'[e]
<1>1. /\ e \in AskedExpenses => e \in AskedExpenses'
      /\ e \notin touched' => /\ e \in AskedExpenses' <=> e \in AskedExpenses
                              /\ Net'[e] = Net[e]
      /\ e \in touched => e \in touched'
  BY AskedExpensesMove
<1>2. /\ Net[e] \in Int /\ LeastNet[e] \in Int /\ MostNet[e] \in Int
      /\ LeastNet[e] <= Net[e] /\ Net[e] <= MostNet[e]
  BY NetIsInt
<1>3. /\ LeastNet'[e] \in Int /\ MostNet'[e] \in Int
      /\ LeastNet'[e] <= 0 /\ MostNet'[e] >= 0
  <2>1. expense'[e].up \in Nat /\ expense'[e].down \in Nat /\ Cost \in Nat
    BY Numbers DEF ReportsTypeOK
  <2>2. /\ LeastNet'[e] = (IF expense'[e].down > Cost THEN Cost - expense'[e].down ELSE 0)
        /\ MostNet'[e] = Cost + expense'[e].up
    BY DEF LeastNet, MostNet
  <2> QED BY <2>1, <2>2
<1>4. CASE e \in touched'
  <2>1. /\ LowNet'[e] = IF e \in AskedExpenses' THEN LeastNet'[e] ELSE 0
        /\ HighNet'[e] = IF e \in AskedExpenses' THEN MostNet'[e] ELSE 0
    BY <1>4 DEF LowNet, HighNet
  <2>2. CASE e \in AskedExpenses
    <3>1. /\ expense[e].up <= expense'[e].up /\ expense[e].down <= expense'[e].down
          /\ expense[e].up \in Nat /\ expense[e].down \in Nat
          /\ expense'[e].up \in Nat /\ expense'[e].down \in Nat /\ Cost \in Nat
      <4>1. ExpenseMoves(e) /\ expense[e].status = "APPROVED"
        BY <2>2 DEF RowsMove, AskedExpenses
      <4>2. /\ expense[e].up \in Nat /\ expense[e].down \in Nat
            /\ expense'[e].up \in Nat /\ expense'[e].down \in Nat /\ Cost \in Nat
        BY Numbers DEF ReportsTypeOK
      <4> QED BY <4>1, <4>2 DEF ExpenseMoves
    <3>2. /\ LeastNet'[e] = (IF expense'[e].down > Cost THEN Cost - expense'[e].down ELSE 0)
          /\ LeastNet[e] = (IF expense[e].down > Cost THEN Cost - expense[e].down ELSE 0)
          /\ MostNet'[e] = Cost + expense'[e].up
          /\ MostNet[e] = Cost + expense[e].up
      BY DEF LeastNet, MostNet
    <3>3. LeastNet'[e] <= LeastNet[e] /\ MostNet[e] <= MostNet'[e]
      BY <3>1, <3>2
    <3>4. LowNet[e] \in {Net[e], LeastNet[e]} /\ HighNet[e] \in {Net[e], MostNet[e]}
      BY <2>2 DEF LowNet, HighNet
    <3>5. LowNet'[e] = LeastNet'[e] /\ HighNet'[e] = MostNet'[e]
      BY <1>1, <2>1, <2>2
    <3> QED BY <1>2, <1>3, <3>3, <3>4, <3>5
  <2>3. CASE e \notin AskedExpenses
    <3>1. LowNet[e] = 0 /\ HighNet[e] = 0
      BY <2>3 DEF LowNet, HighNet
    <3> QED BY <1>3, <2>1, <3>1
  <2> QED BY <2>2, <2>3
<1>5. CASE e \notin touched'
  <2>1. /\ LowNet'[e] = IF e \in AskedExpenses' THEN Net'[e] ELSE 0
        /\ HighNet'[e] = IF e \in AskedExpenses' THEN Net'[e] ELSE 0
    BY <1>5 DEF LowNet, HighNet
  <2>2. /\ LowNet[e] = IF e \in AskedExpenses THEN Net[e] ELSE 0
        /\ HighNet[e] = IF e \in AskedExpenses THEN Net[e] ELSE 0
    BY <1>1, <1>5 DEF LowNet, HighNet
  <2> QED BY <1>1, <1>2, <1>5, <2>1, <2>2
<1> QED BY <1>4, <1>5

LEMMA SpentWidens ==
  ASSUME SameRequest, RowsMove, NEW e \in Expenses
  PROVE  /\ {LowSpent[e], HighSpent[e], LowSpent'[e], HighSpent'[e]} \subseteq Int
         /\ LowSpent'[e] <= LowSpent[e] /\ HighSpent[e] <= HighSpent'[e]
<1>1. ExpenseMoves(e) /\ (e \in touched => e \in touched') /\ Cost \in Nat
  BY Numbers DEF RowsMove
<1>2. e \in SpentToday => e \in SpentToday'
  BY <1>1 DEF ExpenseMoves, SpentToday, IsAsked, SameRequest
<1>3. e \notin touched' => expense'[e] = expense[e]
  BY <1>1 DEF ExpenseMoves
<1>4. e \notin touched' => (e \in Undeleted' <=> e \in Undeleted)
  BY <1>3 DEF Undeleted, SpentToday, IsAsked, SameRequest
<1>5. e \in Undeleted => e \in SpentToday
  BY DEF Undeleted
<1>6. /\ LowSpent[e] = (IF e \in Undeleted \ touched THEN Cost ELSE 0)
      /\ HighSpent[e] = (IF e \in Undeleted \ touched \/ e \in SpentToday \cap touched
                         THEN Cost ELSE 0)
      /\ LowSpent'[e] = (IF e \in Undeleted' \ touched' THEN Cost ELSE 0)
      /\ HighSpent'[e] = (IF e \in Undeleted' \ touched' \/ e \in SpentToday' \cap touched'
                          THEN Cost ELSE 0)
  BY DEF LowSpent, HighSpent
<1>7. CASE e \in touched'
  BY <1>1, <1>2, <1>5, <1>6, <1>7
<1>8. CASE e \notin touched'
  BY <1>1, <1>4, <1>6, <1>8
<1> QED BY <1>7, <1>8

LEMMA PaidWidens ==
  ASSUME SameRequest, RowsMove, NEW day, NEW b \in Bookings
  PROVE  /\ {LowPaid(day)[b], HighPaid(day)[b], LowPaid(day)'[b], HighPaid(day)'[b]} \subseteq Int
         /\ LowPaid(day)'[b] <= LowPaid(day)[b] /\ HighPaid(day)[b] <= HighPaid(day)'[b]
<1>1. BookingMoves(b) /\ (b \in touched => b \in touched') /\ Fare \in Nat
  BY Numbers DEF RowsMove
<1>2. b \in PaidOn(day) => b \in PaidOn(day)'
  BY <1>1 DEF BookingMoves, PaidOn
<1>3. b \notin touched' => (b \in PaidOn(day)' <=> b \in PaidOn(day))
  BY <1>1 DEF BookingMoves, PaidOn
<1>4. /\ LowPaid(day)[b] = (IF b \in PaidOn(day) \ touched THEN Fare ELSE 0)
      /\ HighPaid(day)[b] = (IF b \in PaidOn(day) THEN Fare ELSE 0)
      /\ LowPaid(day)'[b] = (IF b \in PaidOn(day)' \ touched' THEN Fare ELSE 0)
      /\ HighPaid(day)'[b] = (IF b \in PaidOn(day)' THEN Fare ELSE 0)
  BY DEF LowPaid, HighPaid
<1>5. CASE b \in touched'
  BY <1>1, <1>2, <1>4, <1>5
<1>6. CASE b \notin touched'
  BY <1>1, <1>3, <1>4, <1>6
<1> QED BY <1>5, <1>6

(* The steps. *)

BookingColumns == [sold : BOOLEAN, at : Nat, refunded : 0 .. Fare, reversed : BOOLEAN]
ExpenseColumns == [status : {"NONE", "DRAFT", "APPROVED", "DELETED"},
                   at : Nat, up : Nat, down : Nat]

LEMMA TypesUnfold ==
  ReportsTypeOK => /\ booking \in [Bookings -> BookingColumns]
                   /\ expense \in [Expenses -> ExpenseColumns]
                   /\ now \in Nat
BY DEF ReportsTypeOK, BookingColumns, ExpenseColumns

\* What each transaction writes.
LEMMA BookingWrites ==
  ASSUME ReportsTypeOK, StampsInv, NEW b \in Bookings,
         \/ \E at \in Stamps : Sell(b, at)
         \/ \E amount \in 0 .. Fare : Cancel(b, amount)
  PROVE  \E columns \in BookingColumns :
           /\ WriteBooking(b, columns)
           /\ columns.at <= now
           /\ booking[b].sold => columns.sold /\ columns.at = booking[b].at
<1>1. booking[b] \in BookingColumns /\ booking[b].at <= now
  BY TypesUnfold DEF StampsInv
<1>2. ASSUME NEW at \in Stamps, Sell(b, at)
      PROVE  /\ [booking[b] EXCEPT !.sold = TRUE, !.at = at] \in BookingColumns
             /\ at <= now
  <2>1. at \in Nat /\ at <= now
    BY DEF Stamps, Instants
  <2> QED BY <1>1, <2>1 DEF BookingColumns
<1>3. ASSUME NEW amount \in 0 .. Fare, Cancel(b, amount)
      PROVE  [booking[b] EXCEPT !.refunded = amount, !.reversed = TRUE] \in BookingColumns
  BY <1>1 DEF BookingColumns
<1>4. CASE \E at \in Stamps : Sell(b, at)
  <2>1. PICK at \in Stamps : Sell(b, at)
    BY <1>4
  <2> DEFINE c == [booking[b] EXCEPT !.sold = TRUE, !.at = at]
  <2>2. /\ c \in BookingColumns /\ c.at <= now /\ ~booking[b].sold
        /\ WriteBooking(b, c)
    <3>1. c.at = at
      BY <1>1 DEF BookingColumns
    <3> QED BY <1>2, <2>1, <3>1 DEF Sell
  <2> HIDE DEF c
  <2> QED BY <2>2
<1>5. CASE \E amount \in 0 .. Fare : Cancel(b, amount)
  <2>1. PICK amount \in 0 .. Fare : Cancel(b, amount)
    BY <1>5
  <2> DEFINE c == [booking[b] EXCEPT !.refunded = amount, !.reversed = TRUE]
  <2>2. /\ c \in BookingColumns /\ c.at = booking[b].at /\ c.sold = booking[b].sold
        /\ WriteBooking(b, c)
    <3>1. c.at = booking[b].at /\ c.sold = booking[b].sold
      BY <1>1 DEF BookingColumns
    <3> QED BY <1>3, <2>1, <3>1 DEF Cancel
  <2> HIDE DEF c
  <2> QED BY <1>1, <2>2
<1> QED BY <1>4, <1>5

LEMMA ExpenseWrites ==
  ASSUME ReportsTypeOK, StampsInv, NEW e \in Expenses,
         \/ \E at \in Stamps : CreateExpense(e, at)
         \/ \E status \in {"APPROVED", "DELETED"} : SetStatus(e, status)
         \/ \E up, down \in 0 .. MaxAdjusted : Adjust(e, up, down)
  PROVE  \E columns \in ExpenseColumns :
           /\ WriteExpense(e, columns)
           /\ columns.at <= now
           /\ expense[e].status # "NONE" =>
                columns.status # "NONE" /\ columns.at = expense[e].at
           /\ expense[e].status = "APPROVED" =>
                /\ columns.status = "APPROVED"
                /\ expense[e].up <= columns.up /\ expense[e].down <= columns.down
<1>1. expense[e] \in ExpenseColumns /\ expense[e].at <= now
  BY TypesUnfold DEF StampsInv
<1>2. CASE \E at \in Stamps : CreateExpense(e, at)
  <2>1. PICK at \in Stamps : CreateExpense(e, at)
    BY <1>2
  <2> DEFINE c == [expense[e] EXCEPT !.status = "DRAFT", !.at = at]
  <2>2. at \in Nat /\ at <= now
    BY DEF Stamps, Instants
  <2>3. c \in ExpenseColumns /\ c.at = at
    BY <1>1, <2>2 DEF ExpenseColumns
  <2>4. expense[e].status = "NONE" /\ WriteExpense(e, c)
    BY <2>1 DEF CreateExpense
  <2> HIDE DEF c
  <2> QED BY <2>2, <2>3, <2>4
<1>3. CASE \E status \in {"APPROVED", "DELETED"} : SetStatus(e, status)
  <2>1. PICK status \in {"APPROVED", "DELETED"} : SetStatus(e, status)
    BY <1>3
  <2> DEFINE c == [expense[e] EXCEPT !.status = status]
  <2>2. c \in ExpenseColumns /\ c.at = expense[e].at /\ c.status # "NONE"
    BY <1>1 DEF ExpenseColumns
  <2>3. expense[e].status = "DRAFT" /\ WriteExpense(e, c)
    BY <2>1 DEF SetStatus
  <2> HIDE DEF c
  <2> QED BY <1>1, <2>2, <2>3
<1>4. CASE \E up, down \in 0 .. MaxAdjusted : Adjust(e, up, down)
  <2>1. PICK up \in 0 .. MaxAdjusted, down \in 0 .. MaxAdjusted : Adjust(e, up, down)
    BY <1>4
  <2> DEFINE c == [expense[e] EXCEPT !.up = @ + up, !.down = @ + down]
  <2>2. expense[e].up \in Nat /\ expense[e].down \in Nat /\ up \in Nat /\ down \in Nat
    BY <1>1, Numbers DEF ExpenseColumns
  <2>3. c = [expense[e] EXCEPT !.up = expense[e].up + up, !.down = expense[e].down + down]
    BY <1>1 DEF ExpenseColumns
  <2>4. /\ c \in ExpenseColumns /\ c.at = expense[e].at /\ c.status = expense[e].status
        /\ c.up = expense[e].up + up /\ c.down = expense[e].down + down
    <3>1. expense[e].up + up \in Nat /\ expense[e].down + down \in Nat
      BY <2>2
    <3> HIDE DEF c
    <3> QED BY <1>1, <2>3, <3>1 DEF ExpenseColumns
  <2>5. expense[e].status = "APPROVED" /\ WriteExpense(e, c)
    BY <2>1 DEF Adjust
  <2> HIDE DEF c
  <2> QED BY <1>1, <2>2, <2>4, <2>5
<1> QED BY <1>2, <1>3, <1>4

LEMMA TradingMoves ==
  ASSUME ReportsTypeOK, StampsInv, Trading
  PROVE  /\ UNCHANGED <<now, report>>
         /\ booking' \in [Bookings -> BookingColumns]
         /\ expense' \in [Expenses -> ExpenseColumns]
         /\ StampsInv'
         /\ report.kind # "none" => RowsMove
<1>1. /\ booking \in [Bookings -> BookingColumns]
      /\ expense \in [Expenses -> ExpenseColumns]
  BY TypesUnfold
<1>2. ASSUME NEW b \in Bookings,
             \/ \E at \in Stamps : Sell(b, at)
             \/ \E amount \in 0 .. Fare : Cancel(b, amount)
      PROVE  /\ UNCHANGED <<now, report, expense>>
             /\ booking' \in [Bookings -> BookingColumns]
             /\ StampsInv'
             /\ report.kind # "none" => RowsMove
  <2>1. PICK columns \in BookingColumns :
             /\ WriteBooking(b, columns)
             /\ columns.at <= now
             /\ booking[b].sold => columns.sold /\ columns.at = booking[b].at
    BY <1>2, BookingWrites
  <2>2. /\ UNCHANGED <<now, report, expense>>
        /\ booking' = [booking EXCEPT ![b] = columns]
        /\ report.kind # "none" => touched' = touched \cup {b}
    BY <2>1 DEF WriteBooking, Wrote
  <2>3. booking'[b] = columns /\ \A a \in Bookings \ {b} : booking'[a] = booking[a]
    BY <1>1, <2>2
  <2>4. booking' \in [Bookings -> BookingColumns]
    BY <1>1, <2>2
  <2>5. StampsInv'
    <3>1. report'.asked <= now' /\ \A e \in Expenses :
            /\ expense'[e].at <= now'
            /\ report'.kind # "none" /\ e \notin touched' => expense'[e].at <= report'.asked
      BY <2>2 DEF StampsInv
    <3>2. ASSUME NEW a \in Bookings
          PROVE  /\ booking'[a].at <= now'
                 /\ report'.kind # "none" /\ a \notin touched' => booking'[a].at <= report'.asked
      <4>1. CASE a = b
        BY <2>1, <2>2, <2>3, <4>1
      <4>2. CASE a # b
        BY <2>2, <2>3, <4>2 DEF StampsInv
      <4> QED BY <4>1, <4>2
    <3> QED BY <3>1, <3>2 DEF StampsInv
  <2>6. report.kind # "none" => RowsMove
    BY <2>1, <2>2, <2>3 DEF RowsMove, BookingMoves, ExpenseMoves
  <2> QED BY <2>2, <2>4, <2>5, <2>6
<1>3. ASSUME NEW e \in Expenses,
             \/ \E at \in Stamps : CreateExpense(e, at)
             \/ \E status \in {"APPROVED", "DELETED"} : SetStatus(e, status)
             \/ \E up, down \in 0 .. MaxAdjusted : Adjust(e, up, down)
      PROVE  /\ UNCHANGED <<now, report, booking>>
             /\ expense' \in [Expenses -> ExpenseColumns]
             /\ StampsInv'
             /\ report.kind # "none" => RowsMove
  <2>1. PICK columns \in ExpenseColumns :
             /\ WriteExpense(e, columns)
             /\ columns.at <= now
             /\ expense[e].status # "NONE" =>
                  columns.status # "NONE" /\ columns.at = expense[e].at
             /\ expense[e].status = "APPROVED" =>
                  /\ columns.status = "APPROVED"
                  /\ expense[e].up <= columns.up /\ expense[e].down <= columns.down
    BY <1>3, ExpenseWrites
  <2>2. /\ UNCHANGED <<now, report, booking>>
        /\ expense' = [expense EXCEPT ![e] = columns]
        /\ report.kind # "none" => touched' = touched \cup {e}
    BY <2>1 DEF WriteExpense, Wrote
  <2>3. expense'[e] = columns /\ \A a \in Expenses \ {e} : expense'[a] = expense[a]
    BY <1>1, <2>2
  <2>4. expense' \in [Expenses -> ExpenseColumns]
    BY <1>1, <2>2
  <2>5. StampsInv'
    <3>1. report'.asked <= now' /\ \A b \in Bookings :
            /\ booking'[b].at <= now'
            /\ report'.kind # "none" /\ b \notin touched' => booking'[b].at <= report'.asked
      BY <2>2 DEF StampsInv
    <3>2. ASSUME NEW a \in Expenses
          PROVE  /\ expense'[a].at <= now'
                 /\ report'.kind # "none" /\ a \notin touched' => expense'[a].at <= report'.asked
      <4>1. CASE a = e
        BY <2>1, <2>2, <2>3, <4>1
      <4>2. CASE a # e
        BY <2>2, <2>3, <4>2 DEF StampsInv
      <4> QED BY <4>1, <4>2
    <3> QED BY <3>1, <3>2 DEF StampsInv
  <2>6. report.kind # "none" => RowsMove
    <3>1. ASSUME NEW a \in Expenses, report.kind # "none" PROVE ExpenseMoves(a)
      <4>1. CASE a = e
        BY <2>1, <2>2, <2>3, <3>1, <4>1 DEF ExpenseMoves
      <4>2. CASE a # e
        BY <2>3, <4>2 DEF ExpenseMoves
      <4> QED BY <4>1, <4>2
    <3> QED BY <2>2, <3>1 DEF RowsMove, BookingMoves
  <2> QED BY <2>2, <2>4, <2>5, <2>6
<1> QED BY <1>1, <1>2, <1>3 DEF Trading

\* Untouched rows that were asked for are found, and only such that were asked for.
LEMMA BookingsFound ==
  ASSUME ReportsTypeOK, StampsInv, report.kind # "none", NEW f \in Summed, NEW b \in Bookings
  PROVE  LET found == booking[b].sold /\ When(f, b) \in Asked(f)
         IN  /\ found => b \in AskedBookings(f)
             /\ b \in AskedBookings(f) \ touched => found
<1> DEFINE t == When(f, b)
<1>1. t \in Nat
  BY TypesUnfold, Numbers DEF When, BookingColumns
<1>2. b \notin touched /\ f # "booked" => t <= report.asked
  BY DEF When, StampsInv
<1>3. b \in AskedBookings(f) <=> booking[b].sold /\ IsAsked(f, t)
  BY DEF AskedBookings
<1> HIDE DEF t
<1>4. /\ t \in Asked(f) => IsAsked(f, t)
      /\ IsAsked(f, t) /\ (t <= report.asked \/ f = "booked") => t \in Asked(f)
  BY <1>1, QueriesAskForDays
<1> QED BY <1>2, <1>3, <1>4 DEF t

LEMMA ExpensesFound ==
  ASSUME ReportsTypeOK, StampsInv, report.kind # "none", NEW e \in Expenses,
         NEW f \in {"expenses", "spent"}
  PROVE  /\ expense[e].at \in Asked(f) => IsAsked(f, expense[e].at)
         /\ IsAsked(f, expense[e].at) /\ e \notin touched => expense[e].at \in Asked(f)
<1> DEFINE t == expense[e].at
<1>1. t \in Nat
  BY TypesUnfold DEF ExpenseColumns
<1>2. e \notin touched => t <= report.asked
  BY DEF StampsInv
<1> HIDE DEF t
<1>3. /\ t \in Asked(f) => IsAsked(f, t)
      /\ IsAsked(f, t) /\ (t <= report.asked \/ f = "booked") => t \in Asked(f)
  BY <1>1, QueriesAskForDays
<1> QED BY <1>2, <1>3 DEF t

\* Each query answers within its bracket.
LEMMA SumBrackets ==
  ASSUME ReportsTypeOK, StampsInv, report.kind # "none", NEW f \in Summed
  PROVE  LET found == {b \in Bookings : booking[b].sold /\ When(f, b) \in Asked(f)}
         IN  /\ SumFunctionOnSet(WorthOf(f), found) \in Int
             /\ Bracketed(SumFunctionOnSet(WorthOf(f), found),
                          LowWorth(f), HighWorth(f), Bookings)
<1> DEFINE found == {b \in Bookings : booking[b].sold /\ When(f, b) \in Asked(f)}
           worth == WorthOf(f)
           low == LowWorth(f)
           high == HighWorth(f)
<1>1. \A b \in found : b \in AskedBookings(f)
  BY BookingsFound
<1>2. \A b \in Bookings \ found : b \notin AskedBookings(f) \ touched
  BY BookingsFound
<1>3. \A b \in Bookings : /\ worth[b] \in Int /\ low[b] \in Int /\ high[b] \in Int
                          /\ low[b] >= 0 /\ high[b] >= 0
                          /\ worth[b] >= 0 /\ worth[b] <= Most(f)
  BY WorthIsInt, WorthIsBounded, MostIsNat
<1>4. \A b \in found : low[b] <= worth[b] /\ worth[b] <= high[b]
  <2> SUFFICES ASSUME NEW b \in found PROVE low[b] <= worth[b] /\ worth[b] <= high[b]
    OBVIOUS
  <2>1. /\ low[b] = (IF b \in AskedBookings(f) \ touched THEN Worth(f, b) ELSE 0)
        /\ high[b] = (IF b \in AskedBookings(f) \ touched THEN Worth(f, b) ELSE Most(f))
        /\ worth[b] = Worth(f, b)
    BY <1>1 DEF LowWorth, HighWorth, WorthOf
  <2> QED BY <1>3, <2>1
<1>5. \A b \in Bookings \ found : low[b] = 0
  BY <1>2 DEF LowWorth
<1>6. found \in SUBSET Bookings /\ IsFiniteSet(found)
  BY ReportedIsFinite, FS_Subset
<1> HIDE DEF found, worth, low, high
<1>7. SumFunctionOnSet(worth, found) \in Int
  BY <1>3, <1>6, SumType
<1>8. /\ \A b \in found : worth[b] \in Int /\ low[b] <= worth[b] /\ worth[b] <= high[b]
      /\ \A b \in Bookings \ found : low[b] <= 0 /\ 0 <= high[b]
      /\ \A b \in Bookings : low[b] \in Int /\ high[b] \in Int
  BY <1>3, <1>4, <1>5, <1>6
<1>9. Bracketed(SumFunctionOnSet(worth, found), low, high, Bookings)
  BY <1>6, <1>8, ReportedIsFinite, BracketOfTerms
<1> QED BY <1>7, <1>9 DEF found, worth, low, high

LEMMA NetBrackets ==
  ASSUME ReportsTypeOK, ListedInv, "adjustments" \in report.todo
  PROVE  /\ SumFunctionOnSet(Net, report.listed) \in Int
         /\ Bracketed(SumFunctionOnSet(Net, report.listed), LowNet, HighNet, Expenses)
<1> DEFINE listed == report.listed
           net == Net
           low == LowNet
           high == HighNet
<1>1. AskedExpenses \ touched \subseteq listed /\ listed \subseteq AskedExpenses
  BY DEF ListedInv
<1>2. listed \in SUBSET Expenses /\ IsFiniteSet(listed)
  BY ReportedIsFinite, FS_Subset DEF ReportsTypeOK
<1>3. \A e \in Expenses : net[e] \in Int /\ low[e] \in Int /\ high[e] \in Int
  BY NetIsInt
<1>4. ASSUME NEW e \in listed PROVE low[e] <= net[e] /\ net[e] <= high[e]
  <2>1. e \in Expenses /\ e \in AskedExpenses
    BY <1>1, <1>2
  <2>2. /\ low[e] \in {Net[e], LeastNet[e]}
        /\ high[e] \in {Net[e], MostNet[e]}
    BY <2>1 DEF LowNet, HighNet
  <2> QED BY <2>1, <2>2, NetIsInt
<1>5. ASSUME NEW e \in Expenses \ listed PROVE low[e] <= 0 /\ 0 <= high[e]
  <2>1. /\ low[e] \in {LeastNet[e], 0}
        /\ high[e] \in {MostNet[e], 0}
    BY <1>1, <1>5 DEF LowNet, HighNet
  <2> QED BY <2>1, NetIsInt
<1> HIDE DEF listed, net, low, high
<1>6. SumFunctionOnSet(net, listed) \in Int
  BY <1>2, <1>3, SumType
<1>7. \A e \in listed : net[e] \in Int /\ low[e] <= net[e] /\ net[e] <= high[e]
  BY <1>2, <1>3, <1>4
<1>8. Bracketed(SumFunctionOnSet(net, listed), low, high, Expenses)
  BY <1>2, <1>3, <1>5, <1>7, ReportedIsFinite, BracketOfTerms
<1> QED BY <1>6, <1>8 DEF listed, net, low, high

LEMMA SpentBrackets ==
  ASSUME ReportsTypeOK, StampsInv, report.kind # "none"
  PROVE  LET found == {e \in Expenses : /\ expense[e].status \in {"DRAFT", "APPROVED"}
                                        /\ expense[e].at \in Asked("spent")}
         IN  /\ Cost * Cardinality(found) \in Int
             /\ Bracketed(Cost * Cardinality(found), LowSpent, HighSpent, Expenses)
<1> DEFINE found == {e \in Expenses : /\ expense[e].status \in {"DRAFT", "APPROVED"}
                                      /\ expense[e].at \in Asked("spent")}
           cost == [e \in Expenses |-> Cost]
           low == LowSpent
           high == HighSpent
<1>1. \A e \in Expenses : /\ e \in found => e \in SpentToday /\ e \in Undeleted
                          /\ e \in Undeleted \ touched => e \in found
  <2> SUFFICES ASSUME NEW e \in Expenses
               PROVE  /\ e \in found => e \in SpentToday /\ e \in Undeleted
                      /\ e \in Undeleted \ touched => e \in found
    OBVIOUS
  <2>1. /\ expense[e].at \in Asked("spent") => IsAsked("spent", expense[e].at)
        /\ IsAsked("spent", expense[e].at) /\ e \notin touched => expense[e].at \in Asked("spent")
    BY ExpensesFound
  <2>2. expense[e].status \in {"NONE", "DRAFT", "APPROVED", "DELETED"}
    BY TypesUnfold DEF ExpenseColumns
  <2> QED BY <2>1, <2>2 DEF SpentToday, Undeleted
<1>2. Cost \in Nat
  BY Numbers
<1>3. \A e \in Expenses :
        /\ low[e] = IF e \in Undeleted \ touched THEN Cost ELSE 0
        /\ high[e] = IF e \in Undeleted \ touched \/ e \in SpentToday \cap touched
                     THEN Cost ELSE 0
        /\ cost[e] = Cost
  BY DEF LowSpent, HighSpent
<1>4. found \in SUBSET Expenses /\ IsFiniteSet(found) /\ Cardinality(found) \in Nat
  BY ReportedIsFinite, FS_Subset, FS_CardinalityType
<1> HIDE DEF found, cost, low, high
<1>5. /\ \A e \in found : cost[e] \in Int /\ low[e] <= cost[e] /\ cost[e] <= high[e]
      /\ \A e \in Expenses \ found : low[e] <= 0 /\ 0 <= high[e]
      /\ \A e \in Expenses : low[e] \in Int /\ high[e] \in Int
  BY <1>1, <1>2, <1>3, <1>4
<1>6. Bracketed(SumFunctionOnSet(cost, found), low, high, Expenses)
  BY <1>4, <1>5, ReportedIsFinite, BracketOfTerms
<1>7. SumFunctionOnSet(cost, found) = Cost * Cardinality(found)
  <2>1. \A e \in found : cost[e] = Cost
    BY <1>3, <1>4
  <2> QED BY <1>2, <1>4, <2>1, SumOfEqual
<1> QED BY <1>2, <1>4, <1>6, <1>7 DEF found, low, high

LEMMA PaidBrackets ==
  ASSUME NEW day
  PROVE  /\ Fare * Cardinality(PaidOn(day)) \in Int
         /\ Bracketed(Fare * Cardinality(PaidOn(day)), LowPaid(day), HighPaid(day), Bookings)
<1> DEFINE found == PaidOn(day)
           fare == [b \in Bookings |-> Fare]
           low == LowPaid(day)
           high == HighPaid(day)
<1>1. Fare \in Nat
  BY Numbers
<1>2. found \in SUBSET Bookings /\ IsFiniteSet(found) /\ Cardinality(found) \in Nat
  <2>1. found \in SUBSET Bookings
    BY DEF PaidOn
  <2> QED BY <2>1, ReportedIsFinite, FS_Subset, FS_CardinalityType
<1>3. \A b \in Bookings : /\ low[b] = IF b \in found \ touched THEN Fare ELSE 0
                          /\ high[b] = IF b \in found THEN Fare ELSE 0
                          /\ fare[b] = Fare
  BY DEF LowPaid, HighPaid
<1> HIDE DEF found, fare, low, high
<1>4. /\ \A b \in found : fare[b] \in Int /\ low[b] <= fare[b] /\ fare[b] <= high[b]
      /\ \A b \in Bookings \ found : low[b] <= 0 /\ 0 <= high[b]
      /\ \A b \in Bookings : low[b] \in Int /\ high[b] \in Int
  BY <1>1, <1>2, <1>3
<1>5. Bracketed(SumFunctionOnSet(fare, found), low, high, Bookings)
  BY <1>2, <1>4, ReportedIsFinite, BracketOfTerms
<1>6. SumFunctionOnSet(fare, found) = Fare * Cardinality(found)
  <2>1. \A b \in found : fare[b] = Fare
    BY <1>2, <1>3
  <2> QED BY <1>1, <1>2, <2>1, SumOfEqual
<1> QED BY <1>1, <1>2, <1>5, <1>6 DEF found, low, high

\* A figure that was answered stays within its bracket while rows move.
LEMMA WorthKept ==
  ASSUME ReportsTypeOK, ReportsTypeOK', SameRequest, RowsMove, NEW f, NEW x \in Int,
         Bracketed(x, LowWorth(f), HighWorth(f), Bookings)
  PROVE  Bracketed(x, LowWorth(f)', HighWorth(f)', Bookings)
<1> DEFINE low == LowWorth(f)
           high == HighWorth(f)
           wideLow == LowWorth(f)'
           wideHigh == HighWorth(f)'
<1>1. \A b \in Bookings : /\ low[b] \in Int /\ high[b] \in Int
                          /\ wideLow[b] \in Int /\ wideHigh[b] \in Int
                          /\ wideLow[b] <= low[b] /\ high[b] <= wideHigh[b]
  BY WorthIsInt, WorthWidens
<1>2. Bracketed(x, low, high, Bookings)
  OBVIOUS
<1> HIDE DEF low, high, wideLow, wideHigh
<1>3. Bracketed(x, wideLow, wideHigh, Bookings)
  BY <1>1, <1>2, ReportedIsFinite, BracketWidens
<1> QED BY <1>3 DEF wideLow, wideHigh

LEMMA NetKept ==
  ASSUME ReportsTypeOK, ReportsTypeOK', SameRequest, RowsMove, NEW x \in Int,
         Bracketed(x, LowNet, HighNet, Expenses)
  PROVE  Bracketed(x, LowNet', HighNet', Expenses)
<1> DEFINE low == LowNet
           high == HighNet
           wideLow == LowNet'
           wideHigh == HighNet'
<1>1. \A e \in Expenses : /\ low[e] \in Int /\ high[e] \in Int
                          /\ wideLow[e] \in Int /\ wideHigh[e] \in Int
                          /\ wideLow[e] <= low[e] /\ high[e] <= wideHigh[e]
  BY NetIsInt, NetWidens
<1>2. Bracketed(x, low, high, Expenses)
  OBVIOUS
<1> HIDE DEF low, high, wideLow, wideHigh
<1>3. Bracketed(x, wideLow, wideHigh, Expenses)
  BY <1>1, <1>2, ReportedIsFinite, BracketWidens
<1> QED BY <1>3 DEF wideLow, wideHigh

LEMMA SpentKept ==
  ASSUME SameRequest, RowsMove, NEW x \in Int, Bracketed(x, LowSpent, HighSpent, Expenses)
  PROVE  Bracketed(x, LowSpent', HighSpent', Expenses)
<1> DEFINE low == LowSpent
           high == HighSpent
           wideLow == LowSpent'
           wideHigh == HighSpent'
<1>1. \A e \in Expenses : /\ low[e] \in Int /\ high[e] \in Int
                          /\ wideLow[e] \in Int /\ wideHigh[e] \in Int
                          /\ wideLow[e] <= low[e] /\ high[e] <= wideHigh[e]
  BY SpentWidens
<1>2. Bracketed(x, low, high, Expenses)
  OBVIOUS
<1> HIDE DEF low, high, wideLow, wideHigh
<1>3. Bracketed(x, wideLow, wideHigh, Expenses)
  BY <1>1, <1>2, ReportedIsFinite, BracketWidens
<1> QED BY <1>3 DEF wideLow, wideHigh

LEMMA PaidKept ==
  ASSUME SameRequest, RowsMove, NEW x \in Int, NEW day,
         Bracketed(x, LowPaid(day), HighPaid(day), Bookings)
  PROVE  Bracketed(x, LowPaid(day)', HighPaid(day)', Bookings)
<1> DEFINE low == LowPaid(day)
           high == HighPaid(day)
           wideLow == LowPaid(day)'
           wideHigh == HighPaid(day)'
<1>1. \A b \in Bookings : /\ low[b] \in Int /\ high[b] \in Int
                          /\ wideLow[b] \in Int /\ wideHigh[b] \in Int
                          /\ wideLow[b] <= low[b] /\ high[b] <= wideHigh[b]
  BY PaidWidens
<1>2. Bracketed(x, low, high, Bookings)
  OBVIOUS
<1> HIDE DEF low, high, wideLow, wideHigh
<1>3. Bracketed(x, wideLow, wideHigh, Bookings)
  BY <1>1, <1>2, ReportedIsFinite, BracketWidens
<1> QED BY <1>3 DEF wideLow, wideHigh

(* The invariant, row by row. *)

RowByRow ==
  /\ \A f \in (Summed \cap Queries[report.kind]) \ report.todo :
       Bracketed(report.figure[f], LowWorth(f), HighWorth(f), Bookings)
  /\ "expenses" \in Queries[report.kind] /\ report.todo \cap {"expenses", "adjustments"} = {} =>
       Bracketed(report.figure["expenses"], LowNet, HighNet, Expenses)
  /\ "spent" \in Queries[report.kind] \ report.todo =>
       Bracketed(report.figure["spent"], LowSpent, HighSpent, Expenses)
  /\ "series" \in Queries[report.kind] \ report.todo =>
       \A i \in 0 .. SeriesDays - 1, day \in Int : day = SeriesFrom + i =>
         Bracketed(report.series[i], LowPaid(day), HighPaid(day), Bookings)

RowInv == ReportsTypeOK /\ StampsInv /\ ListedInv /\ RowByRow

LEMMA RowByRowIsEnough == RowInv => ReportsInv
<1> SUFFICES ASSUME RowInv PROVE ReportsInv
  OBVIOUS
<1>1. ReportsTypeOK /\ StampsInv /\ ListedInv /\ RowByRow
  BY DEF RowInv
<1>2. BookingsAreBracketed
  BY <1>1, WorthBracket DEF BookingsAreBracketed, RowByRow, Bracketed
<1>3. NetIsBracketed
  BY <1>1, NetBracket DEF NetIsBracketed, RowByRow, Bracketed
<1>4. SpentIsBracketed
  BY <1>1, SpentBracket DEF SpentIsBracketed, RowByRow, Bracketed, Undeleted
<1>5. SeriesIsBracketed
  <2> SUFFICES ASSUME "series" \in Queries[report.kind] \ report.todo,
                      NEW i \in DOMAIN report.series
               PROVE  LET day  == DayOf(report.asked) + 1 - SeriesDays + i
                          sure == Fare * Cardinality(PaidOn(day) \ touched)
                      IN  Between(report.series[i], sure,
                                  sure + Fare * Cardinality(PaidOn(day) \cap touched))
    BY DEF SeriesIsBracketed
  <2>1. i \in 0 .. SeriesDays - 1 /\ report.asked \in Nat /\ SeriesDays \in Nat
    BY <1>1, Numbers DEF ReportsTypeOK
  <2>2. PICK day \in Int : day = SeriesFrom + i /\ day = DayOf(report.asked) + 1 - SeriesDays + i
    <3>1. DayOf(report.asked) \in Nat
      BY <2>1, DayBegins
    <3>2. SeriesFrom + i \in Int /\ SeriesFrom + i = DayOf(report.asked) + 1 - SeriesDays + i
      BY <2>1, <3>1 DEF SeriesFrom
    <3> QED BY <3>2
  <2>3. Bracketed(report.series[i], LowPaid(day), HighPaid(day), Bookings)
    BY <1>1, <2>1, <2>2 DEF RowByRow
  <2> QED BY <2>2, <2>3, PaidBracket DEF Bracketed
<1> QED BY <1>1, <1>2, <1>3, <1>4, <1>5 DEF ReportsInv, FiguresAreBracketed

LEMMA QueriesOfKinds ==
  /\ DOMAIN Queries = {"sales", "financial", "occupancy", "dashboard", "none"}
  /\ Queries["none"] = {}
  /\ \A kind \in DOMAIN Queries :
       /\ "adjustments" \notin Queries[kind]
       /\ "expenses" \in Queries[kind] => kind = "financial"
       /\ "spent" \in Queries[kind] \/ "series" \in Queries[kind] => kind = "dashboard"
BY DEF Queries

LEMMA TodoOfKinds ==
  ASSUME ReportsTypeOK
  PROVE  /\ "expenses" \in report.todo \/ "adjustments" \in report.todo =>
              report.kind = "financial"
         /\ "spent" \in report.todo \/ "series" \in report.todo => report.kind = "dashboard"
<1>1. /\ report.kind \in DOMAIN Queries
      /\ \A f \in report.todo :
           f \in Queries[report.kind] \/ (f = "adjustments" /\ report.kind = "financial")
  BY DEF ReportsTypeOK
<1> QED BY <1>1, QueriesOfKinds

\* A report that just began or ended has answered nothing.
Unanswered == report'.todo = Queries[report'.kind] /\ report'.kind \in DOMAIN Queries

LEMMA UnansweredOK ==
  ASSUME Unanswered
  PROVE  ListedInv' /\ RowByRow'
<1>1. "adjustments" \notin report'.todo
  BY QueriesOfKinds DEF Unanswered
<1>2. Queries[report'.kind] \ report'.todo = {}
  BY DEF Unanswered
<1>3. ~("expenses" \in Queries[report'.kind] /\ report'.todo \cap {"expenses", "adjustments"} = {})
  BY DEF Unanswered
<1>4. (Summed \cap Queries[report'.kind]) \ report'.todo = {}
  BY <1>2
<1> QED BY <1>1, <1>2, <1>3, <1>4 DEF ListedInv, RowByRow

LEMMA BeginEffect ==
  ASSUME ReportsTypeOK, StampsInv,
         \/ EndReport
         \/ \E kind \in DOMAIN Queries \ {"none"}, query \in Query : Ask(kind, query)
  PROVE  ReportsTypeOK' /\ StampsInv' /\ Unanswered
<1> DEFINE Fresh(kind, query, asked) ==
             report' = [kind |-> kind, query |-> query, asked |-> asked,
                        todo |-> Queries[kind], listed |-> {},
                        figure |-> [f \in Summed \cup {"expenses", "spent"} |-> 0],
                        series |-> [i \in 0 .. SeriesDays - 1 |-> 0]]
<1>1. \E kind \in DOMAIN Queries, query \in Query, asked \in {0, now} :
        Fresh(kind, query, asked) /\ (kind = "none" \/ asked = now)
  <2>1. CASE EndReport
    <3>1. Whole \in Query /\ Fresh("none", Whole, 0)
      BY <2>1 DEF EndReport, NoReport, Begun, Whole, Query
    <3> QED BY <3>1, QueriesOfKinds, Zenon
  <2>2. CASE \E kind \in DOMAIN Queries \ {"none"}, query \in Query : Ask(kind, query)
    <3>1. PICK kind \in DOMAIN Queries \ {"none"}, query \in Query : Ask(kind, query)
      BY <2>2
    <3>2. Fresh(kind, query, now)
      BY <3>1 DEF Ask, Begun
    <3> QED BY <3>2
  <2> QED BY <2>1, <2>2
<1>3. PICK kind \in DOMAIN Queries, query \in Query, asked \in {0, now} :
        Fresh(kind, query, asked) /\ (kind = "none" \/ asked = now)
  BY <1>1
<1>4. UNCHANGED <<now, booking, expense>> /\ now \in Nat /\ touched' = {}
  BY DEF EndReport, Ask, reported, ReportsTypeOK
<1>5. ReportsTypeOK'
  <2>1. asked \in Nat
    BY <1>4
  <2>2. report' \in [kind : DOMAIN Queries, query : Query, asked : Nat,
                     todo : SUBSET ((UNION Range(Queries)) \cup {"adjustments"}),
                     listed : SUBSET Expenses,
                     figure : [Summed \cup {"expenses", "spent"} -> Int],
                     series : [0 .. SeriesDays - 1 -> Int]]
    <3>1. Queries[kind] \in SUBSET ((UNION Range(Queries)) \cup {"adjustments"})
      BY <1>3 DEF Range
    <3> DEFINE figure == [f \in Summed \cup {"expenses", "spent"} |-> 0]
               series == [i \in 0 .. SeriesDays - 1 |-> 0]
    <3>2. /\ figure \in [Summed \cup {"expenses", "spent"} -> Int]
          /\ series \in [0 .. SeriesDays - 1 -> Int]
      OBVIOUS
    <3>3. report' = [kind |-> kind, query |-> query, asked |-> asked, todo |-> Queries[kind],
                     listed |-> {}, figure |-> figure, series |-> series]
      BY <1>3
    <3> HIDE DEF figure, series
    <3> QED BY <2>1, <3>1, <3>2, <3>3
  <2>3. report'.todo = Queries[report'.kind]
    BY <1>3
  <2> QED BY <1>4, <2>2, <2>3 DEF ReportsTypeOK
<1>6. StampsInv'
  <2>1. asked <= now /\ (report'.kind # "none" => asked = now)
    BY <1>3, <1>4
  <2>2. /\ \A b \in Bookings : booking'[b].at <= now
        /\ \A e \in Expenses : expense'[e].at <= now
    BY <1>4 DEF StampsInv
  <2> QED BY <1>3, <1>4, <2>1, <2>2 DEF StampsInv
<1>7. Unanswered
  BY <1>3 DEF Unanswered
<1> QED BY <1>5, <1>6, <1>7

\* What was answered stays right while rows move.
LEMMA AnswersKept ==
  ASSUME RowInv, ReportsTypeOK', SameRequest, RowsMove
  PROVE  /\ \A f \in (Summed \cap Queries[report.kind]) \ report.todo :
              Bracketed(report.figure[f], LowWorth(f)', HighWorth(f)', Bookings)
         /\ "expenses" \in Queries[report.kind] /\ report.todo \cap {"expenses", "adjustments"} = {} =>
              Bracketed(report.figure["expenses"], LowNet', HighNet', Expenses)
         /\ "spent" \in Queries[report.kind] \ report.todo =>
              Bracketed(report.figure["spent"], LowSpent', HighSpent', Expenses)
         /\ "series" \in Queries[report.kind] \ report.todo =>
              \A i \in 0 .. SeriesDays - 1, day \in Int : day = SeriesFrom' + i =>
                Bracketed(report.series[i], LowPaid(day)', HighPaid(day)', Bookings)
<1>1. /\ ReportsTypeOK /\ RowByRow
      /\ \A f \in Summed \cup {"expenses", "spent"} : report.figure[f] \in Int
      /\ \A i \in 0 .. SeriesDays - 1 : report.series[i] \in Int
  BY DEF RowInv, ReportsTypeOK
<1>2. ASSUME NEW f \in (Summed \cap Queries[report.kind]) \ report.todo
      PROVE  Bracketed(report.figure[f], LowWorth(f)', HighWorth(f)', Bookings)
  <2>1. PICK x \in Int : x = report.figure[f]
    BY <1>1
  <2>2. Bracketed(x, LowWorth(f), HighWorth(f), Bookings)
    BY <1>1, <2>1 DEF RowByRow
  <2>3. Bracketed(x, LowWorth(f)', HighWorth(f)', Bookings)
    BY <1>1, <2>2, WorthKept
  <2> QED BY <2>1, <2>3
<1>3. ASSUME "expenses" \in Queries[report.kind],
             report.todo \cap {"expenses", "adjustments"} = {}
      PROVE  Bracketed(report.figure["expenses"], LowNet', HighNet', Expenses)
  <2>1. PICK x \in Int : x = report.figure["expenses"]
    BY <1>1
  <2>2. Bracketed(x, LowNet, HighNet, Expenses)
    BY <1>1, <1>3, <2>1 DEF RowByRow
  <2>3. Bracketed(x, LowNet', HighNet', Expenses)
    BY <1>1, <2>2, NetKept
  <2> QED BY <2>1, <2>3
<1>4. ASSUME "spent" \in Queries[report.kind] \ report.todo
      PROVE  Bracketed(report.figure["spent"], LowSpent', HighSpent', Expenses)
  <2>1. PICK x \in Int : x = report.figure["spent"]
    BY <1>1
  <2>2. Bracketed(x, LowSpent, HighSpent, Expenses)
    BY <1>1, <1>4, <2>1 DEF RowByRow
  <2>3. Bracketed(x, LowSpent', HighSpent', Expenses)
    BY <2>2, SpentKept
  <2> QED BY <2>1, <2>3
<1>5. ASSUME "series" \in Queries[report.kind] \ report.todo,
             NEW i \in 0 .. SeriesDays - 1, NEW day \in Int, day = SeriesFrom' + i
      PROVE  Bracketed(report.series[i], LowPaid(day)', HighPaid(day)', Bookings)
  <2>1. PICK x \in Int : x = report.series[i]
    BY <1>1
  <2>2. SeriesFrom' = SeriesFrom
    BY DEF SeriesFrom, SameRequest
  <2>3. Bracketed(x, LowPaid(day), HighPaid(day), Bookings)
    BY <1>1, <1>5, <2>1, <2>2 DEF RowByRow
  <2>4. Bracketed(x, LowPaid(day)', HighPaid(day)', Bookings)
    BY <2>3, PaidKept
  <2> QED BY <2>1, <2>4
<1> QED BY <1>2, <1>3, <1>4, <1>5

\* What was listed is still asked for, and what is not listed was touched.
LEMMA ListedKept ==
  ASSUME ListedInv, SameRequest, RowsMove, report'.listed = report.listed,
         report.listed \subseteq Expenses, "adjustments" \in report.todo
  PROVE  ListedInv'
<1>1. \A e \in Expenses : /\ e \in AskedExpenses => e \in AskedExpenses'
                          /\ e \notin touched' => (e \in AskedExpenses' <=> e \in AskedExpenses)
                          /\ e \in touched => e \in touched'
  BY AskedExpensesMove
<1>2. AskedExpenses' \subseteq Expenses
  BY DEF AskedExpenses
<1>3. AskedExpenses \ touched \subseteq report.listed /\ report.listed \subseteq AskedExpenses
  BY DEF ListedInv
<1> QED BY <1>1, <1>2, <1>3 DEF ListedInv

\* The steps of everybody else while a report is computed.
LEMMA MovesOK ==
  ASSUME RowInv, ReportsTypeOK', RowsMove, report' = report
  PROVE  ListedInv' /\ RowByRow'
<1>1. SameRequest /\ ReportsTypeOK /\ ListedInv
  BY DEF SameRequest, RowInv
<1>2. ListedInv'
  <2>1. CASE "adjustments" \in report.todo
    BY <1>1, <2>1, ListedKept DEF ReportsTypeOK
  <2>2. CASE "adjustments" \notin report.todo
    BY <2>2 DEF ListedInv
  <2> QED BY <2>1, <2>2
<1>3. RowByRow'
  BY <1>1, AnswersKept DEF RowByRow
<1> QED BY <1>2, <1>3

\* A query only reads.
OnlyReads == UNCHANGED <<now, booking, expense, touched>> /\ SameRequest

LEMMA ReadsMove ==
  ASSUME StampsInv, OnlyReads
  PROVE  RowsMove /\ StampsInv'
<1>1. RowsMove
  BY DEF OnlyReads, RowsMove, BookingMoves, ExpenseMoves
<1>2. report'.asked = report.asked /\ report'.kind = report.kind
  BY DEF OnlyReads, SameRequest
<1>3. StampsInv'
  BY <1>2 DEF OnlyReads, StampsInv
<1> QED BY <1>1, <1>3

LEMMA SumOK ==
  ASSUME RowInv, NEW f \in Summed, Sum(f)
  PROVE  RowInv'
<1> DEFINE x == SumFunctionOnSet(WorthOf(f), {b \in Bookings : booking[b].sold /\ When(f, b) \in Asked(f)})
<1>1. ReportsTypeOK /\ StampsInv /\ ListedInv
  BY DEF RowInv
<1>2. /\ UNCHANGED <<now, booking, expense, touched>> /\ f \in report.todo
      /\ report' = [[report EXCEPT !.figure[f] = x] EXCEPT !.todo = @ \ {f}]
  BY DEF Sum, Answered, reported
<1>3. report.kind # "none" /\ f # "adjustments" /\ f # "expenses" /\ f # "spent" /\ f # "series"
  BY <1>1, <1>2, QueriesOfKinds DEF ReportsTypeOK, Summed
<1>4. x \in Int /\ Bracketed(x, LowWorth(f), HighWorth(f), Bookings)
  BY <1>1, <1>3, SumBrackets
<1> HIDE DEF x
<1>5. /\ report'.kind = report.kind /\ report'.query = report.query /\ report'.asked = report.asked
      /\ report'.todo = report.todo \ {f} /\ report'.listed = report.listed
      /\ report'.figure = [report.figure EXCEPT ![f] = x]
      /\ report'.series = report.series
  BY <1>1, <1>2 DEF ReportsTypeOK
<1>6. ReportsTypeOK'
  <2>1. [report.figure EXCEPT ![f] = x] \in [Summed \cup {"expenses", "spent"} -> Int]
    BY <1>1, <1>4 DEF ReportsTypeOK
  <2> QED BY <1>1, <1>2, <1>5, <2>1 DEF ReportsTypeOK
<1>7. OnlyReads /\ SameRequest
  BY <1>2, <1>5 DEF OnlyReads, SameRequest
<1>8. RowsMove /\ StampsInv'
  BY <1>1, <1>7, ReadsMove
<1>9. ListedInv'
  BY <1>1, <1>3, <1>5, <1>7, <1>8, ListedKept DEF ReportsTypeOK, ListedInv
<1>10. Bracketed(x, LowWorth(f)', HighWorth(f)', Bookings)
  BY <1>1, <1>4, <1>6, <1>7, <1>8, WorthKept
<1>11. /\ report'.figure[f] = x
       /\ \A g \in (Summed \cup {"expenses", "spent"}) \ {f} : report'.figure[g] = report.figure[g]
  BY <1>1, <1>5 DEF ReportsTypeOK
<1>12. \A g \in Summed \cup {"expenses", "spent", "series"} :
         g # f => (g \in report'.todo <=> g \in report.todo)
  BY <1>5
<1>13. RowByRow'
  <2>1. \A g \in (Summed \cap Queries[report'.kind]) \ report'.todo :
          Bracketed(report'.figure[g], LowWorth(g)', HighWorth(g)', Bookings)
    <3> SUFFICES ASSUME NEW g \in (Summed \cap Queries[report'.kind]) \ report'.todo
                 PROVE  Bracketed(report'.figure[g], LowWorth(g)', HighWorth(g)', Bookings)
      OBVIOUS
    <3>1. CASE g = f
      BY <1>10, <1>11, <3>1
    <3>2. CASE g # f
      BY <1>5, <1>6, <1>7, <1>8, <1>11, <1>12, <3>2, AnswersKept
    <3> QED BY <3>1, <3>2
  <2>2. "expenses" \in Queries[report'.kind] /\ report'.todo \cap {"expenses", "adjustments"} = {} =>
          Bracketed(report'.figure["expenses"], LowNet', HighNet', Expenses)
    BY <1>3, <1>5, <1>6, <1>7, <1>8, <1>11, AnswersKept
  <2>3. "spent" \in Queries[report'.kind] \ report'.todo =>
          Bracketed(report'.figure["spent"], LowSpent', HighSpent', Expenses)
    BY <1>3, <1>5, <1>6, <1>7, <1>8, <1>11, AnswersKept
  <2>4. "series" \in Queries[report'.kind] \ report'.todo =>
          \A i \in 0 .. SeriesDays - 1, day \in Int : day = SeriesFrom' + i =>
            Bracketed(report'.series[i], LowPaid(day)', HighPaid(day)', Bookings)
    BY <1>3, <1>5, <1>6, <1>7, <1>8, AnswersKept
  <2> QED BY <2>1, <2>2, <2>3, <2>4 DEF RowByRow
<1> QED BY <1>6, <1>8, <1>9, <1>13 DEF RowInv

LEMMA ListExpensesOK ==
  ASSUME RowInv, ListExpenses
  PROVE  RowInv'
<1> DEFINE found == {e \in Expenses : /\ expense[e].status = "APPROVED"
                                      /\ expense[e].at \in Asked("expenses")}
<1>1. ReportsTypeOK /\ StampsInv
  BY DEF RowInv
<1>2. /\ UNCHANGED <<now, booking, expense, touched>> /\ "expenses" \in report.todo
      /\ report' = [report EXCEPT !.todo = (@ \ {"expenses"}) \cup {"adjustments"},
                                  !.listed = found]
  BY DEF ListExpenses, reported
<1>3. report.kind = "financial"
  BY <1>1, <1>2, TodoOfKinds
<1>4. \A e \in Expenses : /\ e \in found => e \in AskedExpenses
                          /\ e \in AskedExpenses \ touched => e \in found
  BY <1>1, <1>3, ExpensesFound DEF AskedExpenses
<1>5. found \subseteq Expenses
  OBVIOUS
<1> HIDE DEF found
<1>6. /\ report'.kind = report.kind /\ report'.query = report.query /\ report'.asked = report.asked
      /\ report'.todo = (report.todo \ {"expenses"}) \cup {"adjustments"}
      /\ report'.listed = found
      /\ report'.figure = report.figure /\ report'.series = report.series
  BY <1>1, <1>2 DEF ReportsTypeOK
<1>7. ReportsTypeOK'
  <2>1. /\ report.todo \in SUBSET ((UNION Range(Queries)) \cup {"adjustments"})
        /\ report.todo \subseteq Queries[report.kind] \cup {"adjustments"}
    BY <1>1, <1>3 DEF ReportsTypeOK
  <2> DEFINE todo == (report.todo \ {"expenses"}) \cup {"adjustments"}
  <2>2. /\ todo \in SUBSET ((UNION Range(Queries)) \cup {"adjustments"})
        /\ todo \subseteq Queries[report.kind] \cup {"adjustments"}
    BY <2>1
  <2>3. report' = [report EXCEPT !.todo = todo, !.listed = found] /\ report'.todo = todo
    BY <1>2, <1>6
  <2> HIDE DEF todo
  <2>4. report' \in [kind : DOMAIN Queries, query : Query, asked : Nat,
                     todo : SUBSET ((UNION Range(Queries)) \cup {"adjustments"}),
                     listed : SUBSET Expenses,
                     figure : [Summed \cup {"expenses", "spent"} -> Int],
                     series : [0 .. SeriesDays - 1 -> Int]]
    BY <1>1, <1>5, <2>2, <2>3 DEF ReportsTypeOK
  <2>5. report'.todo \subseteq Queries[report'.kind] \cup
          IF report'.kind = "financial" THEN {"adjustments"} ELSE {}
    BY <1>3, <1>6, <2>2, <2>3
  <2>6. booking' = booking /\ expense' = expense /\ now' = now
    BY <1>2
  <2> QED BY <1>1, <2>4, <2>5, <2>6 DEF ReportsTypeOK
<1>8. OnlyReads /\ SameRequest
  BY <1>2, <1>6 DEF OnlyReads, SameRequest
<1>9. RowsMove /\ StampsInv'
  BY <1>1, <1>8, ReadsMove
<1>10. ListedInv'
  <2>1. AskedExpenses' = AskedExpenses /\ touched' = touched
    BY <1>2, <1>6 DEF AskedExpenses, IsAsked
  <2>2. AskedExpenses \subseteq Expenses
    BY DEF AskedExpenses
  <2> QED BY <1>4, <1>5, <1>6, <2>1, <2>2 DEF ListedInv
<1>11. RowByRow'
  BY <1>6, <1>7, <1>8, <1>9, AnswersKept DEF RowByRow, Summed
<1> QED BY <1>7, <1>9, <1>10, <1>11 DEF RowInv

LEMMA SumExpensesOK ==
  ASSUME RowInv, SumExpenses
  PROVE  RowInv'
<1> DEFINE x == SumFunctionOnSet(Net, report.listed)
<1>1. ReportsTypeOK /\ StampsInv /\ ListedInv
  BY DEF RowInv
<1>2. /\ UNCHANGED <<now, booking, expense, touched>> /\ "adjustments" \in report.todo
      /\ report' = [[report EXCEPT !.figure["expenses"] = x] EXCEPT !.todo = @ \ {"adjustments"}]
  BY DEF SumExpenses, Answered, reported
<1>3. x \in Int /\ Bracketed(x, LowNet, HighNet, Expenses)
  BY <1>1, <1>2, NetBrackets
<1> HIDE DEF x
<1>4. /\ report'.kind = report.kind /\ report'.query = report.query /\ report'.asked = report.asked
      /\ report'.todo = report.todo \ {"adjustments"} /\ report'.listed = report.listed
      /\ report'.figure = [report.figure EXCEPT !["expenses"] = x]
      /\ report'.series = report.series
  BY <1>1, <1>2 DEF ReportsTypeOK
<1>5. ReportsTypeOK'
  <2>1. [report.figure EXCEPT !["expenses"] = x] \in [Summed \cup {"expenses", "spent"} -> Int]
    BY <1>1, <1>3 DEF ReportsTypeOK
  <2> QED BY <1>1, <1>2, <1>4, <2>1 DEF ReportsTypeOK
<1>6. OnlyReads /\ SameRequest
  BY <1>2, <1>4 DEF OnlyReads, SameRequest
<1>7. RowsMove /\ StampsInv'
  BY <1>1, <1>6, ReadsMove
<1>8. ListedInv'
  BY <1>4 DEF ListedInv
<1>9. Bracketed(x, LowNet', HighNet', Expenses)
  BY <1>1, <1>3, <1>5, <1>6, <1>7, NetKept
<1>10. /\ report'.figure["expenses"] = x
       /\ \A g \in Summed \cup {"spent"} : report'.figure[g] = report.figure[g]
  BY <1>1, <1>4 DEF ReportsTypeOK, Summed
<1>11. \A g \in Summed \cup {"spent", "series"} : g \in report'.todo <=> g \in report.todo
  BY <1>4 DEF Summed
<1>12. RowByRow'
  <2>1. \A g \in (Summed \cap Queries[report'.kind]) \ report'.todo :
          Bracketed(report'.figure[g], LowWorth(g)', HighWorth(g)', Bookings)
    BY <1>4, <1>5, <1>6, <1>7, <1>10, <1>11, AnswersKept
  <2>2. "spent" \in Queries[report'.kind] \ report'.todo =>
          Bracketed(report'.figure["spent"], LowSpent', HighSpent', Expenses)
    BY <1>4, <1>5, <1>6, <1>7, <1>10, AnswersKept
  <2>3. "series" \in Queries[report'.kind] \ report'.todo =>
          \A i \in 0 .. SeriesDays - 1, day \in Int : day = SeriesFrom' + i =>
            Bracketed(report'.series[i], LowPaid(day)', HighPaid(day)', Bookings)
    BY <1>4, <1>5, <1>6, <1>7, AnswersKept
  <2> QED BY <1>9, <1>10, <2>1, <2>2, <2>3 DEF RowByRow
<1> QED BY <1>5, <1>7, <1>8, <1>12 DEF RowInv

LEMMA SumSpentOK ==
  ASSUME RowInv, SumSpent
  PROVE  RowInv'
<1> DEFINE x == Cost * Cardinality({e \in Expenses : /\ expense[e].status \in {"DRAFT", "APPROVED"}
                                                     /\ expense[e].at \in Asked("spent")})
<1>1. ReportsTypeOK /\ StampsInv /\ ListedInv
  BY DEF RowInv
<1>2. /\ UNCHANGED <<now, booking, expense, touched>> /\ "spent" \in report.todo
      /\ report' = [[report EXCEPT !.figure["spent"] = x] EXCEPT !.todo = @ \ {"spent"}]
  BY DEF SumSpent, Answered, reported
<1>3. report.kind = "dashboard"
  BY <1>1, <1>2, TodoOfKinds
<1>4. x \in Int /\ Bracketed(x, LowSpent, HighSpent, Expenses)
  BY <1>1, <1>3, SpentBrackets
<1> HIDE DEF x
<1>5. /\ report'.kind = report.kind /\ report'.query = report.query /\ report'.asked = report.asked
      /\ report'.todo = report.todo \ {"spent"} /\ report'.listed = report.listed
      /\ report'.figure = [report.figure EXCEPT !["spent"] = x]
      /\ report'.series = report.series
  BY <1>1, <1>2 DEF ReportsTypeOK
<1>6. ReportsTypeOK'
  <2>1. [report.figure EXCEPT !["spent"] = x] \in [Summed \cup {"expenses", "spent"} -> Int]
    BY <1>1, <1>4 DEF ReportsTypeOK
  <2> QED BY <1>1, <1>2, <1>5, <2>1 DEF ReportsTypeOK
<1>7. OnlyReads /\ SameRequest
  BY <1>2, <1>5 DEF OnlyReads, SameRequest
<1>8. RowsMove /\ StampsInv'
  BY <1>1, <1>7, ReadsMove
<1>9. ListedInv' /\ "expenses" \notin Queries[report'.kind]
  BY <1>1, <1>3, <1>5, QueriesOfKinds, TodoOfKinds DEF ListedInv
<1>10. Bracketed(x, LowSpent', HighSpent', Expenses)
  BY <1>4, <1>7, <1>8, SpentKept
<1>11. /\ report'.figure["spent"] = x
       /\ \A g \in Summed : report'.figure[g] = report.figure[g]
  BY <1>1, <1>5 DEF ReportsTypeOK, Summed
<1>12. \A g \in Summed \cup {"series"} : g \in report'.todo <=> g \in report.todo
  BY <1>5 DEF Summed
<1>13. RowByRow'
  <2>1. \A g \in (Summed \cap Queries[report'.kind]) \ report'.todo :
          Bracketed(report'.figure[g], LowWorth(g)', HighWorth(g)', Bookings)
    BY <1>5, <1>6, <1>7, <1>8, <1>11, <1>12, AnswersKept
  <2>2. "series" \in Queries[report'.kind] \ report'.todo =>
          \A i \in 0 .. SeriesDays - 1, day \in Int : day = SeriesFrom' + i =>
            Bracketed(report'.series[i], LowPaid(day)', HighPaid(day)', Bookings)
    BY <1>5, <1>6, <1>7, <1>8, AnswersKept
  <2> QED BY <1>9, <1>10, <1>11, <2>1, <2>2 DEF RowByRow
<1> QED BY <1>6, <1>8, <1>9, <1>13 DEF RowInv

\* A bucket of the chart gets every payment of its day that is there.
LEMMA BucketOfDay ==
  ASSUME ReportsTypeOK, NEW i \in 0 .. SeriesDays - 1, NEW day \in Int, day = SeriesFrom + i
  PROVE  {b \in Charted : DayOf(booking[b].at) = Bucket(i)} = PaidOn(day)
<1>1. report.asked \in Nat /\ (\A b \in Bookings : booking[b].at \in Nat) /\ SeriesDays \in Nat
      /\ DayLength \in Nat \ {0}
  BY Numbers DEF ReportsTypeOK
<1>2. PICK today \in Nat : today = DayOf(report.asked)
  BY <1>1, DayBegins
<1>3. PICK first \in Int : first = SeriesFrom /\ first = today - (SeriesDays - 1)
  BY <1>1, <1>2 DEF SeriesFrom
<1>4. first <= day /\ day <= today
  BY <1>1, <1>2, <1>3
<1>5. Bucket(i) = day
  <2>1. first * DayLength + i * DayLength = day * DayLength
    BY <1>1, <1>3
  <2> QED BY <1>3, <2>1, MidnightOfDay DEF Bucket
<1>6. ASSUME NEW b \in Bookings, DayOf(booking[b].at) = day
      PROVE  /\ first * DayLength <= booking[b].at
             /\ booking[b].at < (today + 1) * DayLength
  <2>1. PICK at \in Nat : at = booking[b].at
    BY <1>1
  <2>2. first <= DayOf(at) <=> first * DayLength <= at
    BY <2>1, DayBegins
  <2>3. today + 1 <= DayOf(at) <=> (today + 1) * DayLength <= at
    BY <1>2, <2>1, DayBegins
  <2>4. first * DayLength <= at /\ ~ ((today + 1) * DayLength <= at)
    BY <1>4, <1>6, <2>1, <2>2, <2>3
  <2>5. (today + 1) * DayLength \in Int
    BY <1>1
  <2> QED BY <2>1, <2>4, <2>5
<1> QED BY <1>2, <1>3, <1>5, <1>6 DEF Charted, PaidOn

LEMMA FillSeriesOK ==
  ASSUME RowInv, FillSeries
  PROVE  RowInv'
<1> DEFINE days == 0 .. SeriesDays - 1
           series == [i \in days |-> Fare * Cardinality({b \in Charted :
                                       DayOf(booking[b].at) = Bucket(i)})]
<1>1. ReportsTypeOK /\ StampsInv /\ ListedInv
  BY DEF RowInv
<1>2. /\ UNCHANGED <<now, booking, expense, touched>> /\ "series" \in report.todo
      /\ report' = [[report EXCEPT !.series = series] EXCEPT !.todo = @ \ {"series"}]
  <2>1. DOMAIN report.series = days
    BY <1>1 DEF ReportsTypeOK
  <2> QED BY <2>1 DEF FillSeries, Answered, reported
<1>3. report.kind = "dashboard"
  BY <1>1, <1>2, TodoOfKinds
<1>4. ASSUME NEW i \in days, NEW day \in Int, day = SeriesFrom + i
      PROVE  series[i] \in Int /\ Bracketed(series[i], LowPaid(day), HighPaid(day), Bookings)
  <2>1. {b \in Charted : DayOf(booking[b].at) = Bucket(i)} = PaidOn(day)
    BY <1>1, <1>4, BucketOfDay DEF ReportsTypeOK
  <2>2. series[i] = Fare * Cardinality(PaidOn(day))
    BY <1>4, <2>1
  <2> HIDE DEF series
  <2> QED BY <2>2, PaidBrackets
<1>5. series \in [days -> Int]
  <2>1. \A i \in days : SeriesFrom + i \in Int
    BY <1>1, Numbers, DayBegins DEF SeriesFrom, ReportsTypeOK
  <2>2. \A i \in days : series[i] \in Int
    BY <1>4, <2>1
  <2>3. series = [i \in days |-> series[i]]
    OBVIOUS
  <2> HIDE DEF series
  <2> QED BY <2>2, <2>3
<1> HIDE DEF series
<1>6. /\ report'.kind = report.kind /\ report'.query = report.query /\ report'.asked = report.asked
      /\ report'.todo = report.todo \ {"series"} /\ report'.listed = report.listed
      /\ report'.figure = report.figure /\ report'.series = series
  BY <1>1, <1>2 DEF ReportsTypeOK
<1>7. ReportsTypeOK'
  BY <1>1, <1>2, <1>5, <1>6 DEF ReportsTypeOK
<1>8. OnlyReads /\ SameRequest
  BY <1>2, <1>6 DEF OnlyReads, SameRequest
<1>9. RowsMove /\ StampsInv'
  BY <1>1, <1>8, ReadsMove
<1>10. ListedInv' /\ "expenses" \notin Queries[report'.kind]
  BY <1>1, <1>3, <1>6, QueriesOfKinds, TodoOfKinds DEF ListedInv
<1>11. \A g \in Summed \cup {"spent"} : g \in report'.todo <=> g \in report.todo
  BY <1>6 DEF Summed
<1>12. RowByRow'
  <2>1. \A g \in (Summed \cap Queries[report'.kind]) \ report'.todo :
          Bracketed(report'.figure[g], LowWorth(g)', HighWorth(g)', Bookings)
    BY <1>6, <1>7, <1>8, <1>9, <1>11, AnswersKept
  <2>2. "spent" \in Queries[report'.kind] \ report'.todo =>
          Bracketed(report'.figure["spent"], LowSpent', HighSpent', Expenses)
    BY <1>6, <1>7, <1>8, <1>9, AnswersKept
  <2>3. ASSUME NEW i \in days, NEW day \in Int, day = SeriesFrom' + i
        PROVE  Bracketed(report'.series[i], LowPaid(day)', HighPaid(day)', Bookings)
    <3>1. SeriesFrom' = SeriesFrom
      BY <1>6 DEF SeriesFrom
    <3>2. PICK x \in Int : x = series[i]
      BY <1>5
    <3>3. Bracketed(x, LowPaid(day), HighPaid(day), Bookings)
      BY <1>4, <2>3, <3>1, <3>2
    <3>4. Bracketed(x, LowPaid(day)', HighPaid(day)', Bookings)
      BY <1>8, <1>9, <3>3, PaidKept
    <3> QED BY <1>6, <3>2, <3>4
  <2> QED BY <1>10, <2>1, <2>2, <2>3 DEF RowByRow
<1> QED BY <1>7, <1>9, <1>10, <1>12 DEF RowInv

LEMMA ReportsStart == ReportsInit => RowInv
<1> SUFFICES ASSUME ReportsInit PROVE RowInv
  OBVIOUS
<1>1. /\ report.kind = "none" /\ report.asked = 0 /\ report.todo = {} /\ now = 0
      /\ \A b \in Bookings : booking[b].at = 0
      /\ \A e \in Expenses : expense[e].at = 0
  BY QueriesOfKinds DEF ReportsInit, NoReport, Begun
<1>2. ReportsTypeOK
  <2> DEFINE figure == [f \in Summed \cup {"expenses", "spent"} |-> 0]
             series == [i \in 0 .. SeriesDays - 1 |-> 0]
  <2>1. /\ figure \in [Summed \cup {"expenses", "spent"} -> Int]
        /\ series \in [0 .. SeriesDays - 1 -> Int]
        /\ Whole \in Query /\ "none" \in DOMAIN Queries
    BY QueriesOfKinds DEF Whole, Query
  <2>2. report = [kind |-> "none", query |-> Whole, asked |-> 0, todo |-> {}, listed |-> {},
                  figure |-> figure, series |-> series]
    BY QueriesOfKinds DEF ReportsInit, NoReport, Begun
  <2> HIDE DEF figure, series
  <2>3. report \in [kind : DOMAIN Queries, query : Query, asked : Nat,
                    todo : SUBSET ((UNION Range(Queries)) \cup {"adjustments"}),
                    listed : SUBSET Expenses,
                    figure : [Summed \cup {"expenses", "spent"} -> Int],
                    series : [0 .. SeriesDays - 1 -> Int]]
    BY <2>1, <2>2
  <2>4. /\ booking \in [Bookings -> BookingColumns]
        /\ expense \in [Expenses -> ExpenseColumns]
    BY Numbers DEF ReportsInit, BookingColumns, ExpenseColumns
  <2> QED BY <1>1, <2>3, <2>4 DEF ReportsTypeOK, BookingColumns, ExpenseColumns
<1>3. StampsInv /\ ListedInv
  BY <1>1 DEF StampsInv, ListedInv
<1>4. RowByRow
  BY <1>1, QueriesOfKinds DEF RowByRow
<1> QED BY <1>2, <1>3, <1>4 DEF RowInv

LEMMA TradingOK ==
  ASSUME RowInv, Trading
  PROVE  RowInv'
<1>1. ReportsTypeOK /\ StampsInv
  BY DEF RowInv
<1>2. /\ UNCHANGED <<now, report>>
      /\ booking' \in [Bookings -> BookingColumns]
      /\ expense' \in [Expenses -> ExpenseColumns]
      /\ StampsInv'
      /\ report.kind # "none" => RowsMove
  BY <1>1, TradingMoves
<1>3. ReportsTypeOK'
  BY <1>1, <1>2 DEF ReportsTypeOK, BookingColumns, ExpenseColumns
<1>4. CASE report.kind = "none"
  <2>1. Unanswered
    BY <1>1, <1>2, <1>4, QueriesOfKinds DEF Unanswered, ReportsTypeOK
  <2> QED BY <1>2, <1>3, <2>1, UnansweredOK DEF RowInv
<1>5. CASE report.kind # "none"
  BY <1>2, <1>3, <1>5, MovesOK DEF RowInv
<1> QED BY <1>4, <1>5

LEMMA ReportsStep == RowInv /\ [ReportsNext]_reportsVars => RowInv'
<1> SUFFICES ASSUME RowInv, [ReportsNext]_reportsVars PROVE RowInv'
  OBVIOUS
<1>1. ReportsTypeOK /\ StampsInv
  BY DEF RowInv
<1>2. CASE Tick \/ UNCHANGED reportsVars
  <2>1. /\ UNCHANGED <<booking, expense, report, touched>>
        /\ now' \in Nat /\ now <= now'
    BY <1>1, <1>2 DEF Tick, Instants, reported, reportsVars, ReportsTypeOK
  <2>2. ReportsTypeOK'
    BY <1>1, <2>1 DEF ReportsTypeOK
  <2>3. StampsInv'
    <3>1. report.asked \in Nat /\ now \in Nat
      BY <1>1 DEF ReportsTypeOK
    <3>2. /\ \A b \in Bookings : booking[b].at \in Nat
          /\ \A e \in Expenses : expense[e].at \in Nat
      BY <1>1, TypesUnfold DEF BookingColumns, ExpenseColumns
    <3> QED BY <1>1, <2>1, <3>1, <3>2 DEF StampsInv
  <2>4. RowsMove
    BY <2>1 DEF RowsMove, BookingMoves, ExpenseMoves
  <2> QED BY <2>1, <2>2, <2>3, <2>4, MovesOK DEF RowInv
<1>3. CASE Trading
  BY <1>3, TradingOK
<1>4. CASE \/ EndReport
           \/ \E kind \in DOMAIN Queries \ {"none"}, query \in Query : Ask(kind, query)
  <2>1. ReportsTypeOK' /\ StampsInv' /\ Unanswered
    BY <1>1, <1>4, BeginEffect
  <2> QED BY <2>1, UnansweredOK DEF RowInv
<1>5. CASE \E f \in Summed : Sum(f)
  BY <1>5, SumOK
<1>6. CASE ListExpenses \/ SumExpenses \/ SumSpent \/ FillSeries
  BY <1>6, ListExpensesOK, SumExpensesOK, SumSpentOK, FillSeriesOK
<1> QED BY <1>2, <1>3, <1>4, <1>5, <1>6 DEF ReportsNext

\* The figures of every report are right: what its queries have answered lies, row by
\* row, between what the rows are worth that nobody wrote since the report began and
\* what those may be worth in addition that somebody did.  ReportsService.
THEOREM ReportsInvariant == ReportsSpec => []ReportsInv
<1>1. ReportsSpec => []RowInv
  BY ReportsStart, ReportsStep, PTL DEF ReportsSpec
<1> QED BY <1>1, RowByRowIsEnough, PTL

\* No figure misses a row of the days asked for, or has one of another day, although
\* the queries run at different moments.  ReportsService.sales, financial, occupancy
\* and dashboard.
THEOREM FiguresStayBracketed == ReportsSpec => []FiguresAreBracketed
<1>1. ReportsInv => FiguresAreBracketed
  BY DEF ReportsInv
<1> QED BY <1>1, ReportsInvariant, PTL

\* Each bar of the chart holds the payments of its day, the last bar those of today.
\* buildRevenueSeries.
THEOREM SeriesStaysBracketed == ReportsSpec => []SeriesIsBracketed
<1>1. ReportsInv => SeriesIsBracketed
  BY DEF ReportsInv
<1> QED BY <1>1, ReportsInvariant, PTL

-----------------------------------------------------------------------------
(* The ledger *)

USE LinesAddUp, NoneIsNothing, BooksAreFinite

LEMMA NoEntryIsRow == NoEntry \in EntryRow
BY DEF NoEntry, EntryRow, Source, Amounts

LEMMA IdleIsRequest == Idle \in Request
BY NoEntryIsRow DEF Idle, Request, Points

LEMMA InitOK == Init => IInv
<1> SUFFICES ASSUME Init PROVE IInv
  OBVIOUS
<1>1. TypeOK
  BY NoEntryIsRow, IdleIsRequest DEF Init, TypeOK
<1>2. WriterInv /\ PeriodInv /\ ReversalInv /\ RequestInv
  BY DEF Init, WriterInv, PeriodInv, ReversalInv, ReversalOK, RequestInv, Idle, NoEntry
<1>3. ReversedOnce /\ ReplayedReversalHappened
  BY DEF Init, ReversedOnce, ReplayedReversalHappened, NoEntry, Existing,
    Booked, ReversalsOf
<1>4. BalancedInv
  BY DEF Init, BalancedInv, Idle, NoEntry, Booked
<1> QED
  BY <1>1, <1>2, <1>3, <1>4 DEF IInv, EntriesInv

\* The lines of a reversal are amounts.
LEMMA SwappedIsAmount ==
  ASSUME NEW l \in Amounts
  PROVE  /\ l \in [Accounts -> Int]
         /\ Swapped(l) \in Amounts
<1>1. l \in [Accounts -> Int]
  BY DEF Amounts, Nothing
<1>2. CASE l \in Lines
  BY <1>1, <1>2 DEF Amounts, Swapped
<1>3. CASE l = Nothing
  <2>1. Swapped(l) = Nothing
    <3>1. \A a \in Accounts : l[a] = 0
      BY <1>3 DEF Nothing
    <3>2. \A a \in Accounts : -l[a] = 0
      BY <3>1
    <3> QED
      BY <3>2 DEF Swapped, Nothing
  <2> QED
    BY <1>1, <2>1 DEF Amounts
<1>4. ASSUME NEW m \in Lines, l = [a \in Accounts |-> -m[a]] PROVE Swapped(l) = m
  <2>1. m \in [Accounts -> Int]
    OBVIOUS
  <2> QED
    BY <1>4, <2>1 DEF Swapped
<1> QED
  BY <1>1, <1>2, <1>3, <1>4 DEF Amounts

-----------------------------------------------------------------------------
(* Steps that write no row *)

\* A request starts, goes on or ends.
Reads(w) ==
  \/ \E e \in Entries, p \in Periods, s \in Source \ {None}, l \in Accepted :
       CreateRead(w, "create", e, p, s, l)
  \/ \E e \in Entries, p \in Periods, s \in Sources, l \in Accepted :
       CreateRead(w, "insert", e, p, s, l)
  \/ \E e, r \in Entries, p \in Periods, k \in Keys : ReverseRead(w, e, r, p, k)
  \/ \E e \in Entries : PostRead(w, e)
  \/ \E p \in Periods : CloseRead(w, p)
  \/ Insert(w)
  \/ Book(w)
  \/ Abort(w)

LEMMA StartEffect ==
  ASSUME TypeOK, NEW w \in Requests, NEW request, Start(w, request)
  PROVE  /\ tx[w] = Idle /\ tx'[w] = request
         /\ \A v \in Requests \ {w} : tx'[v] = tx[v]
         /\ UNCHANGED rows
         /\ request \in Request => TypeOK'
BY DEF Start, TypeOK, rows

\* A new request relies on what it has read.
NewRequestOK(w, request) ==
  /\ request \in Request
  /\ request.pc \in {"create", "insert", "post", "close"}
  /\ request.pc \in {"create", "insert"} =>
       request.entry \in Entries /\ request.row.status = "DRAFT" /\ request.row.period \in Periods
  /\ request.pc = "create" => request.row.of = None
  /\ request.key # None => request.row.of # None
  /\ request.pc = "post" =>
       /\ request.entry \in Entries /\ entry[request.entry].status = "DRAFT"
       /\ PostingFree(w, request.entry)
  /\ request.pc = "close" => request.period \in Periods
  /\ request.row.of # None =>
       /\ request.pc = "insert"
       /\ entry[request.row.of].status = "POSTED"
       /\ ReversalFree(w, request.row.of)
       /\ request.row.source = <<"REVERSAL", request.row.of>>
       /\ request.row.lines = [a \in Accounts |-> -entry[request.row.of].lines[a]]

LEMMA StartOK ==
  ASSUME EntriesInv, NEW w \in Requests, NEW request, Start(w, request), NewRequestOK(w, request)
  PROVE  EntriesInv'
<1> USE DEF EntriesInv
<1>1. /\ tx[w] = Idle /\ tx'[w] = request
      /\ \A v \in Requests \ {w} : tx'[v] = tx[v]
      /\ UNCHANGED <<period, entry, record>>
      /\ TypeOK'
  BY StartEffect DEF NewRequestOK, rows
<1>2. \A v \in Requests : Writing(v)' = Writing(v)
  BY <1>1 DEF Writing, NewRequestOK, Idle
<1>3. WriterInv'
  BY <1>1, <1>2 DEF WriterInv, Unique, Existing, NewRequestOK, Writing
<1>4. PeriodInv'
  BY <1>1, <1>2 DEF PeriodInv, NewRequestOK, Writing
<1>5. ReversalInv'
  <2> SUFFICES ASSUME NEW v \in Requests PROVE ReversalOK(v)'
    BY DEF ReversalInv
  <2>1. CASE v = w
    BY <1>1, <2>1 DEF ReversalOK, ReversalFree, NewRequestOK
  <2>2. CASE v # w
    <3>1. ReversalOK(v) /\ tx'[v] = tx[v]
      BY <1>1, <2>2 DEF ReversalInv
    <3>2. tx[v].row.of # None => ReversalFree(v, tx[v].row.of)'
      BY <1>1, <2>2, <3>1 DEF ReversalOK, ReversalFree, NewRequestOK
    <3> QED
      BY <1>1, <3>1, <3>2 DEF ReversalOK
  <2> QED
    BY <2>1, <2>2
<1>6. RequestInv'
  BY <1>1 DEF RequestInv, PostingFree, NewRequestOK, Idle, NoEntry
<1>7. ReversedOnce' /\ ReplayedReversalHappened'
  BY <1>1 DEF ReversedOnce, ReplayedReversalHappened, Existing, Booked, ReversalsOf
<1> QED
  BY <1>1, <1>3, <1>4, <1>5, <1>6, <1>7

\* Insert, Book and Abort move one request and write nothing.
LEMMA MoveOK ==
  ASSUME EntriesInv, NEW w \in Requests, Insert(w) \/ Book(w) \/ Abort(w)
  PROVE  EntriesInv'
<1> USE DEF EntriesInv
<1>1. /\ UNCHANGED <<period, entry, record>>
      /\ \A v \in Requests \ {w} : tx'[v] = tx[v]
      /\ TypeOK'
  <2>1. Insert(w) \/ Book(w) => TypeOK'
    BY DEF Insert, Book, Goto, rows, TypeOK, Request, Points
  <2>2. Abort(w) => TypeOK'
    BY IdleIsRequest DEF Abort, End, rows, TypeOK
  <2> QED
    BY <2>1, <2>2 DEF Insert, Book, Abort, Goto, End, rows, TypeOK
<1>2. /\ Insert(w) => tx[w].pc = "insert" /\ tx'[w] = [tx[w] EXCEPT !.pc = "inserted"]
      /\ Book(w) => tx[w].pc = "inserted" /\ tx'[w] = [tx[w] EXCEPT !.pc = "booked"]
      /\ Abort(w) => tx'[w] = Idle
      /\ tx[w] \in Request
  BY DEF Insert, Book, Abort, Goto, End, TypeOK
<1>3. /\ tx'[w].row = tx[w].row /\ tx'[w].entry = tx[w].entry
           /\ tx'[w].key = tx[w].key /\ tx'[w].period = tx[w].period
      \/ tx'[w] = Idle
  BY <1>2 DEF Request
<1>4. /\ Insert(w) => tx'[w].pc = "inserted"
      /\ Book(w) => tx'[w].pc = "booked"
      /\ Abort(w) => tx'[w].pc = "idle"
  BY <1>2 DEF Request, Idle
<1>5. WriterInv'
  BY <1>1, <1>2, <1>3, <1>4 DEF WriterInv, Unique, Existing, Writing, Insert, Idle
<1>6. PeriodInv'
  BY <1>1, <1>2, <1>3, <1>4 DEF PeriodInv, Writing, Insert, Book, PeriodReady, PeriodUnlocked, Idle
<1>7. ReversalInv'
  BY <1>1, <1>2, <1>3, <1>4, SMTT(30) DEF ReversalInv, ReversalOK, ReversalFree, Idle, NoEntry
<1>8. RequestInv'
  BY <1>1, <1>2, <1>3, <1>4 DEF RequestInv, PostingFree, Idle, NoEntry
<1>9. ReversedOnce' /\ ReplayedReversalHappened'
  BY <1>1 DEF ReversedOnce, ReplayedReversalHappened, Existing, Booked, ReversalsOf
<1> QED
  BY <1>1, <1>5, <1>6, <1>7, <1>8, <1>9

LEMMA ReadsOK ==
  ASSUME EntriesInv, NEW w \in Requests, Reads(w)
  PROVE  EntriesInv'
<1> USE DEF EntriesInv
<1>1. ASSUME NEW e \in Entries, NEW p \in Periods, NEW s \in Source \ {None},
             NEW l \in Accepted, NEW pc \in {"create", "insert"},
             CreateRead(w, pc, e, p, s, l)
      PROVE  EntriesInv'
  <2> DEFINE row == [status |-> "DRAFT", period |-> p, source |-> s, of |-> None, lines |-> l]
             request == [Idle EXCEPT !.pc = pc, !.entry = e, !.row = row]
  <2>1. row \in EntryRow
    BY DEF EntryRow, Accepted, Amounts
  <2>2. /\ request.pc = pc /\ request.entry = e /\ request.row = row
        /\ request.key = None /\ request.period = None
    BY DEF Idle
  <2>3. request \in Request
    BY <2>1, IdleIsRequest DEF Request, Points
  <2> HIDE DEF request
  <2>4. NewRequestOK(w, request)
    BY <2>2, <2>3 DEF NewRequestOK
  <2>5. Start(w, request)
    BY <1>1 DEF CreateRead, request, row
  <2> QED
    BY <2>4, <2>5, StartOK
<1>2. ASSUME NEW e \in Entries, NEW r \in Entries, NEW p \in Periods, NEW k \in Keys,
             ReverseRead(w, e, r, p, k)
      PROVE  EntriesInv'
  <2> DEFINE row == [status |-> "DRAFT", period |-> p, source |-> <<"REVERSAL", e>>,
                     of |-> e, lines |-> Swapped(entry[e].lines)]
             request == [pc |-> "insert", entry |-> r, key |-> k, period |-> None,
                         row |-> row]
  <2>1. row \in EntryRow
    BY SwappedIsAmount DEF TypeOK, EntryRow, Source
  <2>2. request \in Request
    BY <2>1 DEF Request, Points
  <2>3. NewRequestOK(w, request)
    BY <1>2, <2>2 DEF NewRequestOK, ReverseRead, Swapped
  <2> QED
    BY <1>2, <2>3, StartOK DEF ReverseRead
<1>3. ASSUME NEW e \in Entries, PostRead(w, e) PROVE EntriesInv'
  <2> DEFINE request == [Idle EXCEPT !.pc = "post", !.entry = e]
  <2>1. request \in Request
    BY IdleIsRequest DEF Request, Points
  <2>2. NewRequestOK(w, request)
    BY <1>3, <2>1 DEF NewRequestOK, PostRead, Idle, NoEntry
  <2> QED
    BY <1>3, <2>2, StartOK DEF PostRead
<1>4. ASSUME NEW p \in Periods, CloseRead(w, p) PROVE EntriesInv'
  <2> DEFINE request == [Idle EXCEPT !.pc = "close", !.period = p]
  <2>1. request \in Request
    BY IdleIsRequest DEF Request, Points
  <2>2. NewRequestOK(w, request)
    BY <1>4, <2>1 DEF NewRequestOK, Idle, NoEntry
  <2> QED
    BY <1>4, <2>2, StartOK DEF CloseRead
<1>5. Sources \subseteq Source \ {None}
  BY DEF Source
<1> QED
  BY <1>1, <1>2, <1>3, <1>4, <1>5, MoveOK DEF Reads

-----------------------------------------------------------------------------
(* Steps that write a row *)

\* What entries and requests say of each other does not depend on the rest.
LEMMA SameRows ==
  ASSUME EntriesInv, UNCHANGED <<entry, tx>>
  PROVE  /\ WriterInv' /\ ReversalInv' /\ RequestInv' /\ ReversedOnce'
         /\ UNCHANGED record => ReplayedReversalHappened'
<1>1. WriterInv'
  BY DEF EntriesInv, WriterInv, Unique, Existing, Writing
<1>2. ReversalInv' /\ RequestInv'
  BY DEF EntriesInv, ReversalInv, ReversalOK, ReversalFree, RequestInv, PostingFree
<1>3. ReversedOnce' /\ (UNCHANGED record => ReplayedReversalHappened')
  BY DEF EntriesInv, ReversedOnce, ReversalsOf, Existing, Booked, ReplayedReversalHappened
<1> QED
  BY <1>1, <1>2, <1>3

\* Periods and idempotency records.
LEMMA PeriodsOK ==
  ASSUME EntriesInv,
         \/ \E p \in Periods : CreatePeriod(p)
         \/ \E k \in Keys : KeyExpires(k)
         \/ \E w \in Requests : CloseWrite(w)
  PROVE  EntriesInv'
<1> USE DEF EntriesInv
<1>1. ASSUME NEW p \in Periods, CreatePeriod(p) PROVE EntriesInv'
  <2>1. /\ UNCHANGED <<entry, record, tx>> /\ TypeOK'
        /\ \A q \in Periods : period[q] = "OPEN" => period'[q] = "OPEN"
    BY <1>1 DEF CreatePeriod, TypeOK
  <2>2. WriterInv' /\ ReversalInv' /\ RequestInv'
    BY <2>1, SameRows
  <2>3. PeriodInv'
    BY <2>1 DEF PeriodInv, Writing, RequestInv
  <2>4. ReversedOnce' /\ ReplayedReversalHappened'
    BY <2>1, SameRows
  <2> QED
    BY <2>1, <2>2, <2>3, <2>4
<1>2. ASSUME NEW k \in Keys, KeyExpires(k) PROVE EntriesInv'
  <2>1. /\ UNCHANGED <<period, entry, tx>> /\ TypeOK'
        /\ \A j \in Keys : record'[j] # None => record'[j] = record[j]
    BY <1>2 DEF KeyExpires, TypeOK
  <2>2. WriterInv' /\ ReversalInv' /\ RequestInv' /\ ReversedOnce'
    BY <2>1, SameRows
  <2>3. PeriodInv'
    BY <2>1 DEF PeriodInv, Writing
  <2>4. ReplayedReversalHappened'
    BY <2>1 DEF ReplayedReversalHappened, Booked
  <2> QED
    BY <2>1, <2>2, <2>3, <2>4
<1>3. ASSUME NEW w \in Requests, CloseWrite(w) PROVE EntriesInv'
  <2>1. /\ tx'[w] = Idle /\ \A v \in Requests \ {w} : tx'[v] = tx[v]
        /\ UNCHANGED <<entry, record>>
        /\ TypeOK'
    BY <1>3, IdleIsRequest DEF CloseWrite, End, TypeOK, RequestInv
  <2>2. WriterInv' /\ RequestInv' /\ ReversalInv'
    BY <2>1 DEF WriterInv, Unique, Existing, Writing, RequestInv, PostingFree,
      ReversalInv, ReversalOK, ReversalFree, Idle, NoEntry
  <2>3. PeriodInv'
    BY <1>3, <2>1 DEF PeriodInv, CloseWrite, PeriodUnlocked, Writing, Idle, TypeOK, RequestInv
  <2>4. ReversedOnce' /\ ReplayedReversalHappened'
    BY <2>1 DEF ReversedOnce, ReplayedReversalHappened, Existing, Booked, ReversalsOf
  <2> QED
    BY <2>1, <2>2, <2>3, <2>4
<1> QED
  BY <1>1, <1>2, <1>3

\* Reversals in progress survive the end of another request that leaves their
\* originals alone.
LEMMA OthersReverse ==
  ASSUME EntriesInv, NEW w \in Requests, tx'[w] = Idle,
         \A v \in Requests \ {w} : tx'[v] = tx[v],
         \A v \in Requests \ {w} : tx[v].row.of # None =>
           entry'[tx[v].row.of] = entry[tx[v].row.of]
  PROVE  ReversalInv'
<1> SUFFICES ASSUME NEW v \in Requests PROVE ReversalOK(v)'
  BY DEF ReversalInv
<1>1. CASE v = w
  BY <1>1 DEF ReversalOK, Idle, NoEntry
<1>2. CASE v # w
  <2>1. ReversalOK(v) /\ tx'[v] = tx[v]
    BY <1>2 DEF EntriesInv, ReversalInv
  <2>2. tx[v].row.of # None => ReversalFree(v, tx[v].row.of)'
    BY <1>2, <2>1 DEF ReversalOK, ReversalFree, Idle, NoEntry
  <2> QED
    BY <1>2, <2>1, <2>2 DEF ReversalOK
<1> QED
  BY <1>1, <1>2

LEMMA DraftWriteOK ==
  ASSUME EntriesInv, NEW w \in Requests, DraftWrite(w)
  PROVE  EntriesInv'
<1> USE DEF EntriesInv
<1> DEFINE e == tx[w].entry
           row == tx[w].row
<1>1. /\ e \in Entries /\ row \in EntryRow
      /\ row.status = "DRAFT" /\ row.of = None /\ row.period \in Periods
      /\ entry[e].status = "NONE"
      /\ \A f \in Existing : entry[f].source # row.source
      /\ \A v \in Writing(w) : tx[v].entry # e /\ tx[v].row.source # row.source
  BY DEF DraftWrite, Unique, Existing, RequestInv, TypeOK, Request
<1>2. /\ entry'[e] = row
      /\ \A f \in Entries \ {e} : entry'[f] = entry[f]
      /\ tx'[w] = Idle /\ \A v \in Requests \ {w} : tx'[v] = tx[v]
      /\ UNCHANGED <<period, record>>
      /\ TypeOK'
  BY <1>1, IdleIsRequest DEF DraftWrite, End, TypeOK
<1> HIDE DEF e, row
<1>3. WriterInv'
  BY <1>1, <1>2 DEF WriterInv, Unique, Existing, Writing, Idle, RequestInv
<1>4. PeriodInv'
  BY <1>2 DEF PeriodInv, Writing, Idle
<1>5. ReversalInv'
  <2>1. \A v \in Requests \ {w} : tx[v].row.of # None =>
          tx[v].row.of \in Entries \ {e}
    BY <1>1 DEF ReversalInv, ReversalOK, TypeOK, Request, EntryRow
  <2> QED
    BY <1>1, <1>2, <2>1, OthersReverse
<1>6. RequestInv'
  BY <1>1, <1>2 DEF RequestInv, PostingFree, Idle, NoEntry
<1>8. ReversedOnce'
  BY <1>1, <1>2, SMTT(30) DEF ReversedOnce, Existing, Booked, ReversalsOf, TypeOK, EntryRow
<1>9. ReplayedReversalHappened'
  BY <1>1, <1>2 DEF ReplayedReversalHappened, Booked, TypeOK, EntryRow
<1> QED
  BY <1>2, <1>3, <1>4, <1>5, <1>6, <1>8, <1>9

LEMMA PostWriteOK ==
  ASSUME EntriesInv, NEW w \in Requests, PostWrite(w)
  PROVE  EntriesInv'
<1> USE DEF EntriesInv
<1> DEFINE e == tx[w].entry
<1>1. /\ e \in Entries /\ entry[e].status = "DRAFT" /\ entry[e] \in EntryRow
      /\ PostingFree(w, e)
  BY DEF PostWrite, RequestInv, TypeOK
<1>2. /\ entry'[e] = [entry[e] EXCEPT !.status = "POSTED"]
      /\ \A f \in Entries \ {e} : entry'[f] = entry[f]
      /\ tx'[w] = Idle /\ \A v \in Requests \ {w} : tx'[v] = tx[v]
      /\ UNCHANGED <<period, record>>
  BY <1>1 DEF PostWrite, End, TypeOK
<1>3. /\ entry'[e].status = "POSTED" /\ entry'[e].period = entry[e].period
      /\ entry'[e].source = entry[e].source /\ entry'[e].of = entry[e].of
      /\ entry'[e].lines = entry[e].lines
      /\ entry'[e] \in EntryRow
  BY <1>1, <1>2, Zenon DEF EntryRow
<1>4. TypeOK'
  BY <1>1, <1>3, IdleIsRequest DEF PostWrite, End, TypeOK
<1> HIDE DEF e
<1>5. WriterInv'
  <2>1. Existing' = Existing /\ \A f \in Existing : entry'[f].source = entry[f].source
    <3>1. \A f \in Entries : /\ entry'[f].status # "NONE" <=> entry[f].status # "NONE"
                             /\ entry'[f].source = entry[f].source
      BY <1>1, <1>2, <1>3
    <3> QED
      BY <3>1 DEF Existing
  <2> QED
    BY <1>2, <2>1 DEF WriterInv, Unique, Writing, Idle
<1>6. PeriodInv'
  BY <1>2 DEF PeriodInv, Writing, Idle
<1>7. ReversalInv'
  <2>1. \A v \in Requests \ {w} : tx[v].row.of # None =>
          tx[v].row.of \in Entries \ {e}
    BY <1>1 DEF ReversalInv, ReversalOK, TypeOK, Request, EntryRow
  <2> QED
    BY <1>1, <1>2, <2>1, OthersReverse
<1>8. RequestInv'
  BY <1>1, <1>2 DEF RequestInv, PostingFree, Idle, NoEntry
<1>10. ReversedOnce'
  BY <1>1, <1>2, <1>3 DEF ReversedOnce, Existing, Booked, ReversalsOf, TypeOK, EntryRow
<1>11. ReplayedReversalHappened'
  BY <1>1, <1>2, <1>3 DEF ReplayedReversalHappened, Booked, TypeOK, EntryRow
<1> QED
  BY <1>4, <1>5, <1>6, <1>7, <1>8, <1>10, <1>11

\* What the commit of a posting or reversal writes.
LEMMA CommitEffect ==
  ASSUME EntriesInv, NEW w \in Requests, Commit(w)
  PROVE  LET r == tx[w].entry
             e == tx[w].row.of
         IN /\ r \in Entries /\ entry[r].status = "NONE" /\ tx[w].row \in EntryRow
            /\ entry'[r] = [tx[w].row EXCEPT !.status = "POSTED"]
            /\ e # None => /\ e \in Entries \ {r} /\ entry[e].status = "POSTED"
                           /\ entry'[e] = [entry[e] EXCEPT !.status = "REVERSED"]
            /\ \A f \in Entries \ {r, e} : entry'[f] = entry[f]
            /\ tx'[w] = Idle /\ \A v \in Requests \ {w} : tx'[v] = tx[v]
            /\ UNCHANGED period
            /\ Unique(w)
<1>1. /\ tx[w].entry \in Entries /\ tx[w].row \in EntryRow
      /\ tx[w].row.of \in Entries \cup {None}
      /\ Unique(w)
      /\ entry[tx[w].entry].status = "NONE"
  BY DEF EntriesInv, Commit, RequestInv, TypeOK, Request, EntryRow, WriterInv, Unique, Existing
<1>2. tx[w].row.of # None => entry[tx[w].row.of].status = "POSTED"
  BY DEF EntriesInv, ReversalInv, ReversalOK
<1> QED
  BY <1>1, <1>2 DEF Commit, End, EntriesInv, TypeOK

LEMMA CommitOK ==
  ASSUME EntriesInv, NEW w \in Requests, Commit(w)
  PROVE  EntriesInv'
<1> USE DEF EntriesInv
<1> DEFINE r == tx[w].entry
           row == tx[w].row
           e == row.of
<1>1. /\ r \in Entries /\ entry[r].status = "NONE" /\ row \in EntryRow
      /\ entry'[r] = [row EXCEPT !.status = "POSTED"]
      /\ e # None => /\ e \in Entries \ {r} /\ entry[e].status = "POSTED"
                     /\ entry'[e] = [entry[e] EXCEPT !.status = "REVERSED"]
      /\ \A f \in Entries \ {r, e} : entry'[f] = entry[f]
      /\ tx'[w] = Idle /\ \A v \in Requests \ {w} : tx'[v] = tx[v]
      /\ UNCHANGED period
      /\ Unique(w)
  BY CommitEffect
<1>2. /\ entry'[r].status = "POSTED" /\ entry'[r].period = row.period
      /\ entry'[r].source = row.source /\ entry'[r].of = e /\ entry'[r].lines = row.lines
      /\ entry'[r] \in EntryRow
      /\ row.period \in Periods
  BY <1>1 DEF EntryRow, Commit, RequestInv
<1>3. e # None => /\ entry'[e].status = "REVERSED" /\ entry'[e].period = entry[e].period
                  /\ entry'[e].source = entry[e].source /\ entry'[e].of = entry[e].of
                  /\ entry'[e].lines = entry[e].lines
                  /\ entry'[e] \in EntryRow
  <2>1. e # None => entry[e] \in EntryRow
    BY <1>1 DEF TypeOK
  <2> QED
    BY <1>1, <2>1, Zenon DEF EntryRow
<1>4. /\ e # None => /\ row.lines = [a \in Accounts |-> -entry[e].lines[a]]
                     /\ ReversalFree(w, e)
      /\ \A k \in Keys : record'[k] = record[k] \/ (record'[k] = r /\ e # None)
      /\ record' \in [Keys -> Entries \cup {None}]
  <2>1. tx[w].key \in Keys \cup {None} /\ (tx[w].key # None => e # None)
    BY DEF RequestInv, TypeOK, Request
  <2> QED
    BY <1>1, <2>1 DEF Commit, ReversalInv, ReversalOK, TypeOK
<1>5. TypeOK'
  <2>1. \A f \in Entries : entry'[f] \in EntryRow
    BY <1>1, <1>2, <1>3 DEF TypeOK
  <2>2. entry' \in [Entries -> EntryRow]
    BY <2>1 DEF Commit
  <2> QED
    BY <1>1, <1>4, <2>2, IdleIsRequest DEF Commit, End, TypeOK
<1>7. \A v \in Requests \ {w} : v \in Writing(w) <=> tx[v].pc \in {"inserted", "booked"}
  BY DEF Writing
<1>8. tx[w].pc = "booked"
  BY DEF Commit
<1> HIDE DEF r, row, e
<1>6. Existing' = Existing \cup {r} /\ r \notin Existing
  <2>1. \A f \in Entries : entry'[f].status # "NONE" <=> entry[f].status # "NONE" \/ f = r
    <3>1. CASE e = None
      BY <1>1, <1>2, <3>1
    <3>2. CASE e # None
      <4>1. /\ entry'[r].status = "POSTED" /\ e \in Entries
            /\ entry'[e].status = "REVERSED" /\ entry[e].status = "POSTED"
            /\ \A f \in Entries \ {r, e} : entry'[f] = entry[f]
        BY <1>1, <1>2, <1>3, <3>2
      <4> QED
        BY <1>1, <4>1
    <3> QED
      BY <3>1, <3>2
  <2> QED
    BY <1>1, <2>1 DEF Existing
<1>9. WriterInv'
  <2> SUFFICES ASSUME NEW v \in Requests, tx'[v].pc \in {"inserted", "booked"}
               PROVE  Unique(v)'
    BY DEF WriterInv
  <2>1. v # w /\ tx'[v] = tx[v] /\ Unique(v) /\ w \in Writing(v)
    BY <1>1, <1>8 DEF Idle, WriterInv, Writing
  <2>2. tx[v].entry # r /\ tx[v].row.source # row.source
    BY <2>1 DEF Unique, r, row
  <2>3. Writing(v)' \subseteq Writing(v) /\ \A u \in Writing(v)' : tx'[u] = tx[u]
    BY <1>1 DEF Writing, Idle
  <2>4. \A f \in Existing' : entry'[f].source # tx[v].row.source
    <3>1. \A f \in Existing : entry'[f].source = entry[f].source
      BY <1>1, <1>3, <1>6 DEF Existing
    <3> QED
      BY <1>2, <1>6, <2>1, <2>2, <3>1 DEF Unique
  <2> QED
    BY <1>6, <2>1, <2>2, <2>3, <2>4 DEF Unique
<1>10. PeriodInv'
  BY <1>1 DEF PeriodInv, Writing, Idle
<1>11. ReversalInv'
  <2>1. \A v \in Requests \ {w} : tx[v].row.of # None =>
          tx[v].row.of \in Entries \ {r, e}
    <3> SUFFICES ASSUME NEW v \in Requests \ {w}, tx[v].row.of # None
                 PROVE  tx[v].row.of \in Entries \ {r, e}
      OBVIOUS
    <3>1. tx[v].row.of \in Entries /\ entry[tx[v].row.of].status = "POSTED"
      BY DEF ReversalInv, ReversalOK, TypeOK, Request, EntryRow
    <3>2. e # None => tx[v].row.of # e
      BY <1>4 DEF ReversalFree
    <3> QED
      BY <1>1, <3>1, <3>2
  <2> QED
    BY <1>1, <2>1, OthersReverse
<1>12. RequestInv'
  <2>1. \A v \in Requests \ {w} : tx[v].pc = "post" =>
          tx[v].entry # r /\ (e # None => tx[v].entry # e)
    BY <1>1 DEF RequestInv
  <2> QED
    BY <1>1, <2>1 DEF RequestInv, PostingFree, Idle, NoEntry
<1>14. ReversedOnce'
  <2>1. ReversalsOf(r) = {} /\ (e # None => ReversalsOf(e) = {})
    BY <1>1 DEF ReversedOnce
  <2>2. \A f \in Existing : entry'[f].of = entry[f].of /\ entry'[f].lines = entry[f].lines
    BY <1>1, <1>3, <1>6 DEF Existing
  <2>3. \A f \in Entries : ReversalsOf(f)' = IF e = f THEN ReversalsOf(f) \cup {r} ELSE ReversalsOf(f)
    BY <1>2, <1>6, <2>2 DEF ReversalsOf
  <2>4. \A f \in Entries : entry'[f].status = "REVERSED" <=> ReversalsOf(f)' # {}
    <3> SUFFICES ASSUME NEW f \in Entries
                 PROVE  entry'[f].status = "REVERSED" <=> ReversalsOf(f)' # {}
      OBVIOUS
    <3>1. CASE f = r
      BY <1>1, <1>2, <2>1, <2>3, <3>1
    <3>2. CASE f = e /\ f # r
      BY <1>1, <1>3, <2>3, <3>2
    <3>3. CASE f # e /\ f # r
      BY <1>1, <2>3, <3>3 DEF ReversedOnce
    <3> QED
      BY <3>1, <3>2, <3>3
  <2>5. \A r1, r2 \in Existing' :
          entry'[r1].of # None /\ entry'[r1].of = entry'[r2].of => r1 = r2
    BY <1>2, <1>6, <2>1, <2>2 DEF ReversedOnce, ReversalsOf
  <2>6. \A f \in Existing' : entry'[f].of # None =>
          /\ f \in Booked'
          /\ entry'[f].lines = [a \in Accounts |-> -entry'[entry'[f].of].lines[a]]
    <3> SUFFICES ASSUME NEW f \in Existing', entry'[f].of # None
                 PROVE  /\ f \in Booked'
                        /\ entry'[f].lines = [a \in Accounts |-> -entry'[entry'[f].of].lines[a]]
      OBVIOUS
    <3>1. CASE f = r
      BY <1>1, <1>2, <1>3, <1>4, <3>1 DEF Booked
    <3>2. CASE f # r
      <4>1. f \in Existing /\ entry'[f].of = entry[f].of /\ entry[f].of \in Entries
        BY <1>6, <2>2, <3>2 DEF Existing, TypeOK, EntryRow
      <4>2. entry[f].of # r
        BY <2>1, <4>1 DEF ReversalsOf
      <4>3. entry'[entry[f].of].lines = entry[entry[f].of].lines
        BY <1>1, <1>3, <4>1, <4>2
      <4>4. f \in Booked'
        <5>1. f \in Booked
          BY <4>1, <2>2 DEF ReversedOnce
        <5>2. f # e => entry'[f] = entry[f]
          BY <1>1, <3>2, <4>1 DEF Existing
        <5> QED
          BY <1>3, <5>1, <5>2 DEF Booked
      <4> QED
        BY <2>2, <4>1, <4>3, <4>4 DEF ReversedOnce
    <3> QED
      BY <3>1, <3>2
  <2> QED
    BY <2>4, <2>5, <2>6 DEF ReversedOnce
<1>15. ReplayedReversalHappened'
  <2> SUFFICES ASSUME NEW k \in Keys, record'[k] # None
               PROVE  /\ record'[k] \in Booked'
                      /\ entry'[record'[k]].of # None
                      /\ entry'[entry'[record'[k]].of].status = "REVERSED"
    BY DEF ReplayedReversalHappened
  <2>1. CASE record'[k] = r /\ e # None
    BY <1>1, <1>2, <1>3, <2>1 DEF Booked
  <2>2. CASE record'[k] = record[k]
    <3>1. /\ record[k] \in Booked /\ entry[record[k]].of # None
          /\ entry[entry[record[k]].of].status = "REVERSED"
          /\ entry[record[k]].of \in Entries
      BY <2>2 DEF ReplayedReversalHappened, Booked, TypeOK, EntryRow
    <3>2. /\ entry'[record[k]].of = entry[record[k]].of /\ record[k] \in Booked'
      BY <1>1, <1>3, <3>1 DEF Booked
    <3>3. entry'[entry[record[k]].of] = entry[entry[record[k]].of]
      BY <1>1, <3>1
    <3> QED
      BY <2>2, <3>1, <3>2, <3>3
  <2> QED
    BY <1>4, <2>1, <2>2
<1> QED
  BY <1>5, <1>9, <1>10, <1>11, <1>12, <1>14, <1>15

-----------------------------------------------------------------------------

LEMMA NextCases ==
  ASSUME [Next]_vars
  PROVE  \/ \E w \in Requests : Reads(w) \/ DraftWrite(w) \/ PostWrite(w) \/ Commit(w)
         \/ \/ \E p \in Periods : CreatePeriod(p)
            \/ \E k \in Keys : KeyExpires(k)
            \/ \E w \in Requests : CloseWrite(w)
         \/ UNCHANGED vars
BY Zenon DEF Next, Reads, Draft, PostEvent, Reverse

LEMMA EntriesStep == EntriesInv /\ [Next]_vars => EntriesInv'
<1> SUFFICES ASSUME EntriesInv, [Next]_vars PROVE EntriesInv'
  OBVIOUS
<1>1. CASE UNCHANGED vars
  <2>1. UNCHANGED <<period, entry, record, tx>>
    BY <1>1 DEF vars, rows
  <2>2. TypeOK' /\ PeriodInv'
    BY <2>1 DEF EntriesInv, TypeOK, PeriodInv, Writing
  <2> QED
    BY <2>1, <2>2, SameRows DEF EntriesInv
<1> QED
  BY <1>1, NextCases, ReadsOK, DraftWriteOK, PostWriteOK, CommitOK, PeriodsOK

\* Only entries that balance are posted, by PostWrite, and booked, by Book.
LEMMA BalancedStep == EntriesInv /\ BalancedInv /\ [Next]_vars => BalancedInv'
<1> SUFFICES ASSUME EntriesInv, BalancedInv, [Next]_vars PROVE BalancedInv'
  OBVIOUS
<1> USE DEF EntriesInv
<1>0. Idle.pc # "booked"
  BY DEF Idle
<1>1. CASE UNCHANGED <<entry, tx>>
  BY <1>1 DEF BalancedInv, Booked
<1>2. ASSUME NEW w \in Requests, NEW pc, UNCHANGED entry, tx' = [tx EXCEPT ![w].pc = pc],
             pc = "booked" => Balanced(tx[w].row.lines)
      PROVE  BalancedInv'
  BY <1>2 DEF BalancedInv, Booked, TypeOK, Request
<1>3. ASSUME NEW w \in Requests, NEW request, UNCHANGED entry,
             tx' = [tx EXCEPT ![w] = request], request.pc # "booked"
      PROVE  BalancedInv'
  BY <1>3 DEF BalancedInv, Booked, TypeOK
<1>4. ASSUME NEW w \in Requests, NEW e \in Entries, tx' = [tx EXCEPT ![w] = Idle],
             \A f \in Booked' : f = e \/ (f \in Booked /\ entry'[f].lines = entry[f].lines),
             e \in Booked' => Balanced(entry'[e].lines)
      PROVE  BalancedInv'
  BY <1>4 DEF BalancedInv, TypeOK, Idle
<1>5. ASSUME NEW w \in Requests, Reads(w) PROVE BalancedInv'
  <2>1. ASSUME NEW request, Start(w, request), request.pc # "booked" PROVE BalancedInv'
    BY <1>3, <2>1 DEF Start, rows
  <2>2. CASE Insert(w)
    BY <1>2, <2>2 DEF Insert, Goto, rows
  <2>3. CASE Book(w)
    BY <1>2, <2>3 DEF Book, Goto, rows
  <2>4. CASE Abort(w)
    BY <1>0, <1>3, <2>4 DEF Abort, End, rows
  <2>5. CASE \E e \in Entries, p \in Periods, s \in Source \ {None}, l \in Accepted :
               CreateRead(w, "create", e, p, s, l)
    BY <2>1, <2>5 DEF CreateRead, Idle
  <2>6. CASE \E e \in Entries, p \in Periods, s \in Sources, l \in Accepted :
               CreateRead(w, "insert", e, p, s, l)
    BY <2>1, <2>6 DEF CreateRead, Idle
  <2>7. CASE \E e, r \in Entries, p \in Periods, k \in Keys : ReverseRead(w, e, r, p, k)
    BY <2>1, <2>7 DEF ReverseRead
  <2>8. CASE \E e \in Entries : PostRead(w, e)
    BY <2>1, <2>8 DEF PostRead, Idle
  <2>9. CASE \E p \in Periods : CloseRead(w, p)
    BY <2>1, <2>9 DEF CloseRead, Idle
  <2> QED
    BY <1>5, <2>2, <2>3, <2>4, <2>5, <2>6, <2>7, <2>8, <2>9 DEF Reads
<1>6. ASSUME NEW w \in Requests, DraftWrite(w) PROVE BalancedInv'
  <2>1. /\ tx[w].entry \in Entries /\ tx[w].row.status = "DRAFT"
        /\ entry' = [entry EXCEPT ![tx[w].entry] = tx[w].row]
        /\ tx' = [tx EXCEPT ![w] = Idle]
    BY <1>6 DEF DraftWrite, End, RequestInv
  <2>2. tx[w].entry \notin Booked'
    BY <2>1 DEF Booked, TypeOK
  <2>3. \A f \in Booked' : f = tx[w].entry \/ (f \in Booked /\ entry'[f].lines = entry[f].lines)
    BY <2>1 DEF Booked, TypeOK
  <2> QED
    BY <1>4, <2>1, <2>2, <2>3
<1>7. ASSUME NEW w \in Requests, PostWrite(w) PROVE BalancedInv'
  <2> DEFINE e == tx[w].entry
  <2>1. /\ e \in Entries /\ entry[e] \in EntryRow
        /\ Balanced(entry[e].lines)
        /\ entry' = [entry EXCEPT ![e].status = "POSTED"]
        /\ tx' = [tx EXCEPT ![w] = Idle]
    BY <1>7 DEF PostWrite, End, RequestInv, TypeOK
  <2>2. entry'[e].lines = entry[e].lines
    BY <2>1 DEF TypeOK, EntryRow
  <2>3. \A f \in Booked' : f = e \/ (f \in Booked /\ entry'[f].lines = entry[f].lines)
    BY <2>1 DEF Booked, TypeOK
  <2> QED
    BY <1>4, <2>1, <2>2, <2>3
<1>8. ASSUME NEW w \in Requests, Commit(w) PROVE BalancedInv'
  <2> DEFINE r == tx[w].entry
             of == tx[w].row.of
  <2>1. /\ r \in Entries /\ tx[w].row \in EntryRow
        /\ entry'[r] = [tx[w].row EXCEPT !.status = "POSTED"]
        /\ of # None => /\ of \in Entries \ {r} /\ entry[of].status = "POSTED"
                        /\ entry'[of] = [entry[of] EXCEPT !.status = "REVERSED"]
        /\ \A f \in Entries \ {r, of} : entry'[f] = entry[f]
    BY <1>8, CommitEffect
  <2>2. Balanced(tx[w].row.lines) /\ tx' = [tx EXCEPT ![w] = Idle]
    BY <1>8 DEF Commit, End, BalancedInv
  <2>3. entry'[r].lines = tx[w].row.lines
    BY <2>1 DEF EntryRow
  <2>4. of # None => of \in Booked /\ entry'[of].lines = entry[of].lines
    BY <2>1 DEF Booked, TypeOK, EntryRow
  <2>5. \A f \in Booked' : f = r \/ (f \in Booked /\ entry'[f].lines = entry[f].lines)
    <3> SUFFICES ASSUME NEW f \in Entries, f \in Booked', f # r
                 PROVE  f \in Booked /\ entry'[f].lines = entry[f].lines
      BY DEF Booked
    <3>1. CASE f = of /\ of # None
      BY <2>4, <3>1
    <3>2. CASE f # of \/ of = None
      <4>1. f \in Entries /\ entry'[f] = entry[f]
        BY <2>1, <3>2 DEF Booked
      <4> QED
        BY <4>1 DEF Booked
    <3> QED
      BY <3>1, <3>2
  <2> QED
    BY <1>4, <2>1, <2>2, <2>3, <2>5
<1>9. ASSUME NEW w \in Requests, CloseWrite(w) PROVE BalancedInv'
  BY <1>0, <1>3, <1>9 DEF CloseWrite, End
<1>10. CASE \E p \in Periods : CreatePeriod(p)
  BY <1>1, <1>10 DEF CreatePeriod
<1>11. CASE \E k \in Keys : KeyExpires(k)
  BY <1>1, <1>11 DEF KeyExpires
<1>12. CASE UNCHANGED vars
  BY <1>1, <1>12 DEF vars, rows
<1> QED
  BY <1>5, <1>6, <1>7, <1>8, <1>9, <1>10, <1>11, <1>12, NextCases

\* The invariant, for any number of entries, requests and retries.
THEOREM LedgerInvariant == Spec => []IInv
<1>1. IInv /\ [Next]_vars => IInv'
  BY EntriesStep, BalancedStep DEF IInv
<1> QED
  BY <1>1, InitOK, PTL DEF Spec

\* A reversed entry has exactly one reversal, booked with its lines swapped.
THEOREM EntriesReversedOnce == Spec => []ReversedOnce
<1>1. IInv => ReversedOnce
  BY DEF IInv, EntriesInv
<1> QED
  BY <1>1, LedgerInvariant, PTL

\* The answer to a retry of a reversal is a reversal that happened.
THEOREM RetriesAnswerReversals == Spec => []ReplayedReversalHappened
<1>1. IInv => ReplayedReversalHappened
  BY DEF IInv, EntriesInv
<1> QED
  BY <1>1, LedgerInvariant, PTL

-----------------------------------------------------------------------------
(* The trial balance *)

\* Lines whose debits equal their credits add up to zero.
LEMMA BalancedAddsUp ==
  ASSUME NEW l \in [Accounts -> Int], Balanced(l)
  PROVE  SumFunctionOnSet(l, Accounts) = 0
<1> DEFINE D == {a \in Accounts : l[a] > 0}
           C == {a \in Accounts : l[a] < 0}
           m == [a \in Accounts |-> -l[a]]
           O == (Accounts \ D) \ C
           zero == [a \in Accounts |-> 0]
<1>1. \A a \in Accounts : l[a] \in Int /\ m[a] \in Int /\ zero[a] = l[a] + m[a]
  OBVIOUS
<1>2. /\ IsFiniteSet(C) /\ IsFiniteSet(O) /\ IsFiniteSet(Accounts \ D) /\ IsFiniteSet(D)
      /\ D \in SUBSET Accounts /\ C \in SUBSET (Accounts \ D)
  BY FS_Subset, FS_Difference
<1>3. SumFunctionOnSet(l, D) = SumFunctionOnSet(m, C)
  BY DEF Balanced, Debits, Credits
<1>4. \A a \in O : l[a] = 0
  OBVIOUS
<1> HIDE DEF D, C, m, O, zero
<1>5. SumFunctionOnSet(l, Accounts) = SumFunctionOnSet(l, D) + SumFunctionOnSet(l, Accounts \ D)
  BY <1>1, <1>2, SumCut
<1>6. SumFunctionOnSet(l, Accounts \ D) = SumFunctionOnSet(l, C) + SumFunctionOnSet(l, O)
  BY <1>1, <1>2, SumCut DEF O
<1>7. SumFunctionOnSet(l, O) = 0
  <2>1. SumFunctionOnSet(l, O) = 0 * Cardinality(O)
    BY <1>2, <1>4, SumOfEqual
  <2>2. Cardinality(O) \in Nat
    BY <1>2, FS_CardinalityType
  <2> QED
    BY <2>1, <2>2
<1>8. SumFunctionOnSet(zero, C) = SumFunctionOnSet(l, C) + SumFunctionOnSet(m, C)
  BY <1>1, <1>2, SumOfBoth
<1>9. SumFunctionOnSet(zero, C) = 0
  <2>1. \A a \in C : zero[a] = 0
    BY DEF zero, C
  <2>2. SumFunctionOnSet(zero, C) = 0 * Cardinality(C)
    BY <1>2, <2>1, SumOfEqual
  <2>3. Cardinality(C) \in Nat
    BY <1>2, FS_CardinalityType
  <2> QED
    BY <2>2, <2>3
<1>10. /\ SumFunctionOnSet(l, C) \in Int /\ SumFunctionOnSet(m, C) \in Int
       /\ SumFunctionOnSet(l, D) \in Int
  BY <1>1, <1>2, SumType
<1> QED
  BY <1>3, <1>5, <1>6, <1>7, <1>8, <1>9, <1>10

\* Entries whose lines add up to zero leave the sum of all balances at zero.
LEMMA BalancesAddUp ==
  ASSUME NEW line \in [Entries -> [Accounts -> Int]], NEW P \in SUBSET Entries,
         \A e \in P : SumFunctionOnSet(line[e], Accounts) = 0
  PROVE  SumFunctionOnSet([a \in Accounts |->
           SumFunctionOnSet([e \in Entries |-> line[e][a]], P)], Accounts) = 0
<1> DEFINE column(a) == [e \in Entries |-> line[e][a]]
           balance(s) == [a \in Accounts |-> SumFunctionOnSet(column(a), s)]
           G == {s \in SUBSET P : SumFunctionOnSet(balance(s), Accounts) = 0}
<1>1. \A a \in Accounts : \A e \in Entries : column(a)[e] = line[e][a] /\ line[e][a] \in Int
  OBVIOUS
<1>2. \A s \in SUBSET P : \A a \in Accounts :
        IsFiniteSet(s) /\ balance(s)[a] = SumFunctionOnSet(column(a), s)
  BY FS_Subset
<1>3. IsFiniteSet(P)
  BY FS_Subset
<1> HIDE DEF column, balance
<1>4. {} \in G
  <2>1. \A a \in Accounts : balance({})[a] = 0
    BY <1>2, FS_EmptySet, SumUnfolds
  <2>2. SumFunctionOnSet(balance({}), Accounts) = 0 * Cardinality(Accounts)
    BY <2>1, SumOfEqual
  <2>3. Cardinality(Accounts) \in Nat
    BY FS_CardinalityType
  <2> QED
    BY <2>2, <2>3
<1>5. ASSUME NEW s \in SUBSET P, s # {}, \A e \in s : s \ {e} \in G PROVE s \in G
  <2>1. PICK e \in s : TRUE
    BY <1>5
  <2>2. \A a \in Accounts : line[e][a] \in Int /\ balance(s \ {e})[a] \in Int
                            /\ balance(s)[a] = line[e][a] + balance(s \ {e})[a]
    <3> SUFFICES ASSUME NEW a \in Accounts
                 PROVE  line[e][a] \in Int /\ balance(s \ {e})[a] \in Int
                        /\ balance(s)[a] = line[e][a] + balance(s \ {e})[a]
      OBVIOUS
    <3>1. /\ SumFunctionOnSet(column(a), s)
               = column(a)[e] + SumFunctionOnSet(column(a), s \ {e})
          /\ SumFunctionOnSet(column(a), s \ {e}) \in Int
      BY <1>1, <1>2, SumWithout
    <3> QED
      BY <1>1, <1>2, <3>1
  <2>3. SumFunctionOnSet(balance(s), Accounts)
          = SumFunctionOnSet(line[e], Accounts) + SumFunctionOnSet(balance(s \ {e}), Accounts)
    <3> DEFINE f == line[e]
               g == balance(s \ {e})
               h == balance(s)
    <3>1. \A a \in Accounts : f[a] \in Int /\ g[a] \in Int /\ h[a] = f[a] + g[a]
      BY <2>2
    <3> HIDE DEF f, g, h
    <3>2. SumFunctionOnSet(h, Accounts) = SumFunctionOnSet(f, Accounts) + SumFunctionOnSet(g, Accounts)
      BY <3>1, SumOfBoth
    <3> QED
      BY <3>2 DEF f, g, h
  <2> QED
    BY <1>5, <2>3
<1> HIDE DEF G
<1>6. P \in G
  BY <1>3, <1>4, <1>5, SubsetInduction
<1> QED
  BY <1>6 DEF G, balance, column

\* The trial balance is zero, for any accounts and any history of postings and
\* reversals.
THEOREM BooksBalance == Spec => []TrialBalance
<1>1. IInv => TrialBalance
  <2> SUFFICES ASSUME IInv PROVE TrialBalance
    OBVIOUS
  <2> DEFINE line == [e \in Entries |-> entry[e].lines]
  <2>1. line \in [Entries -> [Accounts -> Int]]
    BY SwappedIsAmount DEF IInv, EntriesInv, TypeOK, EntryRow
  <2>2. Posted \in SUBSET Entries
    BY DEF Posted
  <2>3. \A e \in Posted : SumFunctionOnSet(line[e], Accounts) = 0
    BY <2>1, BalancedAddsUp DEF IInv, BalancedInv, Booked, Posted
  <2>4. \A a \in Accounts : Balance(a) = SumFunctionOnSet([e \in Entries |-> line[e][a]], Posted)
    BY DEF Balance
  <2>5. SumFunctionOnSet([a \in Accounts |-> Balance(a)], Accounts) = 0
    <3> HIDE DEF line
    <3> DEFINE balances == [a \in Accounts |->
                              SumFunctionOnSet([e \in Entries |-> line[e][a]], Posted)]
    <3>1. [a \in Accounts |-> Balance(a)] = balances
      BY <2>4
    <3>2. SumFunctionOnSet(balances, Accounts) = 0
      BY <2>1, <2>2, <2>3, BalancesAddUp
    <3> QED
      BY <3>1, <3>2
  <2> QED
    BY <2>5 DEF TrialBalance, SumFunction
<1> QED
  BY <1>1, LedgerInvariant, PTL

-----------------------------------------------------------------------------
(* Closed periods *)

\* What an entry adds to the books of a period.
BookedIn(e, p) == entry[e].status \in {"POSTED", "REVERSED"} /\ entry[e].period = p

\* A step leaves a closed period closed and its books as they are: who books an
\* entry has its period open.
LEMMA ClosedStep ==
  ASSUME EntriesInv, [Next]_vars, NEW p \in Periods, period[p] = "CLOSED"
  PROVE  /\ period'[p] = "CLOSED"
         /\ \A e \in Entries : BookedIn(e, p) <=> BookedIn(e, p)'
<1>1. CASE UNCHANGED <<period, entry>>
  BY <1>1 DEF BookedIn
<1>2. ASSUME NEW w \in Requests, Reads(w) PROVE UNCHANGED <<period, entry>>
  BY <1>2 DEF Reads, CreateRead, ReverseRead, PostRead, CloseRead, Insert, Book, Abort,
    Start, Goto, rows
<1>3. ASSUME NEW q \in Periods, CreatePeriod(q)
      PROVE  period'[p] = "CLOSED" /\ UNCHANGED entry
  BY <1>3 DEF CreatePeriod, EntriesInv, TypeOK
<1>4. ASSUME NEW w \in Requests, CloseWrite(w)
      PROVE  period'[p] = "CLOSED" /\ UNCHANGED entry
  BY <1>4 DEF CloseWrite, EntriesInv, TypeOK
<1>5. ASSUME NEW w \in Requests, DraftWrite(w)
      PROVE  UNCHANGED period /\ \A e \in Entries : BookedIn(e, p) <=> BookedIn(e, p)'
  <2>1. /\ tx[w].entry \in Entries /\ tx[w].row.status = "DRAFT"
        /\ entry[tx[w].entry].status = "NONE"
    BY <1>5 DEF DraftWrite, Unique, Existing, EntriesInv, RequestInv, TypeOK, EntryRow
  <2> QED
    BY <1>5, <2>1 DEF DraftWrite, BookedIn, EntriesInv, TypeOK
<1>6. ASSUME NEW w \in Requests, PostWrite(w)
      PROVE  UNCHANGED period /\ \A e \in Entries : BookedIn(e, p) <=> BookedIn(e, p)'
  <2> DEFINE posted == tx[w].entry
  <2>1. /\ posted \in Entries /\ entry[posted] \in EntryRow
        /\ entry[posted].period # p
        /\ entry' = [entry EXCEPT ![posted].status = "POSTED"]
        /\ UNCHANGED period
    BY <1>6 DEF PostWrite, PeriodReady, EntriesInv, RequestInv, TypeOK
  <2>2. entry'[posted].period = entry[posted].period
    BY <2>1 DEF EntriesInv, TypeOK, EntryRow
  <2>3. \A e \in Entries \ {posted} : entry'[e] = entry[e]
    BY <2>1 DEF EntriesInv, TypeOK
  <2> QED
    BY <2>1, <2>2, <2>3 DEF BookedIn
<1>7. ASSUME NEW w \in Requests, Commit(w)
      PROVE  UNCHANGED period /\ \A e \in Entries : BookedIn(e, p) <=> BookedIn(e, p)'
  <2> DEFINE r == tx[w].entry
             of == tx[w].row.of
  <2>1. /\ r \in Entries /\ entry[r].status = "NONE" /\ tx[w].row \in EntryRow
        /\ entry'[r] = [tx[w].row EXCEPT !.status = "POSTED"]
        /\ of # None => /\ of \in Entries \ {r} /\ entry[of].status = "POSTED"
                        /\ entry'[of] = [entry[of] EXCEPT !.status = "REVERSED"]
        /\ \A f \in Entries \ {r, of} : entry'[f] = entry[f]
        /\ UNCHANGED period
    BY <1>7, CommitEffect
  <2>2. tx[w].row.period # p
    BY <1>7 DEF Commit, EntriesInv, PeriodInv
  <2>3. entry'[r].period = tx[w].row.period
    BY <2>1 DEF EntryRow
  <2>4. of # None => entry'[of].status = "REVERSED" /\ entry'[of].period = entry[of].period
    <3>1. of # None => entry[of] \in EntryRow
      BY <2>1 DEF EntriesInv, TypeOK
    <3> QED
      BY <2>1, <3>1, Zenon DEF EntryRow
  <2> HIDE DEF r, of
  <2>5. \A f \in Entries : f = r \/ (of # None /\ f = of) \/ entry'[f] = entry[f]
    BY <2>1
  <2> QED
    BY <2>1, <2>2, <2>3, <2>4, <2>5 DEF BookedIn
<1>8. CASE \E k \in Keys : KeyExpires(k)
  BY <1>1, <1>8 DEF KeyExpires
<1>9. CASE UNCHANGED vars
  BY <1>1, <1>9 DEF vars, rows
<1> QED
  BY <1>1, <1>2, <1>3, <1>4, <1>5, <1>6, <1>7, <1>8, <1>9, NextCases DEF BookedIn

\* The books of a closed period are final, whatever began before it was closed.
THEOREM ClosedBooksStay == Spec => ClosedPeriodIsFinal
<1>1. ASSUME EntriesInv, [Next]_vars
      PROVE  [\A p \in Periods : period[p] = "CLOSED" =>
                /\ period'[p] = "CLOSED"
                /\ {e \in Booked : entry[e].period = p}
                     = {e \in Booked' : entry'[e].period = p}]_vars
  <2> SUFFICES ASSUME NEW p \in Periods, period[p] = "CLOSED"
               PROVE  /\ period'[p] = "CLOSED"
                      /\ {e \in Booked : entry[e].period = p}
                           = {e \in Booked' : entry'[e].period = p}
    OBVIOUS
  <2> QED
    BY <1>1, ClosedStep DEF Booked, BookedIn
<1>2. IInv => EntriesInv
  BY DEF IInv
<1> QED
  BY <1>1, <1>2, LedgerInvariant, PTL DEF Spec, ClosedPeriodIsFinal
===============================================================================
