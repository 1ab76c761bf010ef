-------------------------- MODULE SettlementsProofs --------------------------
(***************************************************************************)
(* Theorems about Settlements, for every set of agents, commissions,       *)
(* periods and requests.  The invariant is IInv: a generate in progress    *)
(* knows that no settlement of its agent overlaps its period but the one   *)
(* it regenerates (RequestOK), and a commission that nobody earned has no  *)
(* line (LineInv).                                                         *)
(***************************************************************************)
EXTENDS Settlements, TLAPS

LEMMA NoRows == NoCommission \in Commission /\ NoSettlement \in Settlement /\ Idle \in Request
BY DEF NoCommission, Commission, NoSettlement, Settlement, Idle, Request

\* The amounts of lines that stay the same stay the same.
LEMMA SameAmounts ==
  ASSUME NEW s, LinesOf(s)' = LinesOf(s),
         \A c \in LinesOf(s) : commission'[c].amount = commission[c].amount
  PROVE  Amounts(LinesOf(s))' = Amounts(LinesOf(s))
BY DEF Amounts

LEMMA InitOK == Init => IInv
<1> SUFFICES ASSUME Init PROVE IInv
  OBVIOUS
<1>1. TypeOK
  BY NoRows DEF Init, TypeOK
<1>2. RequestInv
  BY DEF Init, RequestInv, RequestOK, Idle
<1>3. LineInv /\ SettledInv /\ PeriodsDisjoint
  BY DEF Init, LineInv, SettledInv, PeriodsDisjoint, NoSettlement
<1>4. AmountsMatchLines
  BY NoneIsNothing DEF Init, AmountsMatchLines, NoSettlement, LinesOf
<1> QED
  BY <1>1, <1>2, <1>3, <1>4 DEF IInv

-----------------------------------------------------------------------------
(* Steps that write no row *)

Remembers(w) ==
  \/ \E a \in Agents, c \in Commissions : BookRead(w, a, c)
  \/ \E a \in Agents, p \in Periods : GenerateRead(w, a, p)
  \/ \E s \in Agents \X Periods : SettleRead(w, s)
  \/ GenerateCollect(w)
  \/ Abort(w)

LEMMA RemembersEffect ==
  ASSUME TypeOK, NEW w \in Requests, Remembers(w)
  PROVE  /\ UNCHANGED <<today, agents, commission, settled>>
         /\ \A v \in Requests \ {w} : tx'[v] = tx[v]
BY DEF Remembers, BookRead, GenerateRead, SettleRead, GenerateCollect, Abort, Start, End, TypeOK

LEMMA RemembersType ==
  ASSUME TypeOK, RequestInv, NEW w \in Requests, Remembers(w)
  PROVE  TypeOK'
<1> USE DEF TypeOK
<1>1. UNCHANGED <<today, agent, rate, commission, settlement, line, event>>
  BY RemembersEffect DEF agents, settled
<1>2. tx' \in [Requests -> Request]
  <2>1. ASSUME NEW a \in Agents, NEW c \in Commissions, BookRead(w, a, c) PROVE tx' \in [Requests -> Request]
    <3>0. rate[a] \in Nat
      <4>1. rate[a] \in Rates \/ rate[a] = 0
        OBVIOUS
      <4>2. ASSUME rate[a] \in Rates PROVE rate[a] \in Nat
        BY <4>2, FaresAreAmounts
      <4>3. ASSUME rate[a] = 0 PROVE rate[a] \in Nat
        BY <4>3
      <4> QED
        BY <4>1, <4>2, <4>3
    <3>1. [status |-> "EARNED", agent |-> a, day |-> today, amount |-> rate[a]] \in Commission
      BY <3>0 DEF Commission
    <3>2. [Idle EXCEPT !.pc = "book", !.commission = c,
             !.row = [status |-> "EARNED", agent |-> a, day |-> today, amount |-> rate[a]]] \in Request
      BY <3>1, NoRows DEF Idle, Request
    <3> QED
      BY <2>1, <3>2 DEF BookRead, Start
  <2>2. ASSUME NEW a \in Agents, NEW p \in Periods, GenerateRead(w, a, p) PROVE tx' \in [Requests -> Request]
    <3>1. [Idle EXCEPT !.pc = "collect", !.of = <<a, p>>,
             !.exists = settlement[<<a, p>>].status # "NONE"] \in Request
      BY NoRows DEF Idle, Request
    <3> QED
      BY <2>2, <3>1 DEF GenerateRead, Start
  <2>3. ASSUME NEW s \in Agents \X Periods, SettleRead(w, s) PROVE tx' \in [Requests -> Request]
    <3>1. [Idle EXCEPT !.pc = "settle", !.of = s] \in Request
      BY NoRows DEF Idle, Request
    <3> QED
      BY <2>3, <3>1 DEF SettleRead, Start
  <2>4. ASSUME GenerateCollect(w) PROVE tx' \in [Requests -> Request]
    <3>1. [tx[w] EXCEPT !.pc = "write", !.lines = Collected(w)] \in Request
      <4>1. tx[w] \in Request /\ Collected(w) \in SUBSET Commissions
        BY DEF Collected
      <4> HIDE DEF TypeOK
      <4> QED
        BY <4>1, Zenon DEF Request
    <3>2. tx' = [tx EXCEPT ![w] = [tx[w] EXCEPT !.pc = "write", !.lines = Collected(w)]]
      BY <2>4 DEF GenerateCollect
    <3> QED
      BY <3>1, <3>2
  <2>5. ASSUME Abort(w) PROVE tx' \in [Requests -> Request]
    BY <2>5, NoRows DEF Abort, End
  <2> QED
    BY <2>1, <2>2, <2>3, <2>4, <2>5 DEF Remembers
<1> QED
  BY <1>1, <1>2

\* A request that does not generate disturbs nobody's lock.
LEMMA OthersFree ==
  ASSUME TypeOK, NEW w \in Requests, tx'[w].pc \notin {"collect", "write"},
         \A v \in Requests \ {w} : tx'[v] = tx[v],
         NEW v \in Requests \ {w}, NEW a, AgentFree(v, a)
  PROVE  AgentFree(v, a)'
BY DEF AgentFree

LEMMA RemembersOK ==
  ASSUME IInv, NEW w \in Requests, Remembers(w)
  PROVE  IInv'
<1> USE DEF IInv
<1>0. TypeOK /\ TypeOK'
  BY RemembersType
<1>1. /\ UNCHANGED <<today, agent, rate, commission, settlement, line, event>>
      /\ \A v \in Requests \ {w} : tx'[v] = tx[v]
  BY RemembersEffect DEF agents, settled
<1>2. LineInv' /\ SettledInv' /\ PeriodsDisjoint' /\ AmountsMatchLines'
  BY <1>1 DEF LineInv, SettledInv, PeriodsDisjoint, AmountsMatchLines, Amounts, LinesOf
<1>3. \A a \in Agents, p \in Periods : Overlapping(a, p)' = Overlapping(a, p)
  BY <1>1 DEF Overlapping
<1>4. ASSUME NEW a \in Agents, NEW c \in Commissions, BookRead(w, a, c) PROVE RequestInv'
  <2>1. /\ tx[w] = Idle /\ tx'[w].pc = "book" /\ tx'[w].commission = c /\ tx'[w].lines = {}
        /\ tx'[w].row.status = "EARNED" /\ tx'[w].row.agent = a
    BY <1>0, <1>4 DEF BookRead, Start, Idle, TypeOK
  <2>2. RequestOK(w)'
    BY <1>1, <1>4, <2>1 DEF BookRead, RequestOK
  <2>3. ASSUME NEW v \in Requests \ {w} PROVE RequestOK(v)'
    BY <1>0, <1>1, <1>3, <1>4, <2>1, <2>3, OthersFree DEF BookRead, RequestInv, RequestOK, Idle
  <2> QED
    BY <2>2, <2>3 DEF RequestInv
<1>5. ASSUME NEW a \in Agents, NEW p \in Periods, GenerateRead(w, a, p) PROVE RequestInv'
  <2>1. /\ tx[w] = Idle /\ tx'[w].pc = "collect" /\ tx'[w].of = <<a, p>> /\ tx'[w].lines = {}
        /\ tx'[w].commission = None
    BY <1>0, <1>5 DEF GenerateRead, Start, Idle, TypeOK
  <2>2. RequestOK(w)'
    BY <1>1, <1>3, <1>5, <2>1 DEF GenerateRead, RequestOK, AgentFree
  <2>3. ASSUME NEW v \in Requests \ {w} PROVE RequestOK(v)'
    BY <1>1, <1>3, <1>5, <2>1, <2>3 DEF GenerateRead, RequestInv, RequestOK, AgentFree, Idle
  <2> QED
    BY <2>2, <2>3 DEF RequestInv
<1>6. ASSUME NEW s \in Agents \X Periods, SettleRead(w, s) PROVE RequestInv'
  <2>1. /\ tx'[w].pc = "settle" /\ tx'[w].of = s /\ tx'[w].lines = {}
        /\ tx'[w].commission = None
    BY <1>0, <1>6 DEF SettleRead, Start, TypeOK, Idle
  <2>2. RequestOK(w)'
    BY <1>1, <1>6, <2>1 DEF SettleRead, RequestOK
  <2>3. ASSUME NEW v \in Requests \ {w} PROVE RequestOK(v)'
    BY <1>0, <1>1, <1>3, <2>1, <2>3, OthersFree, NoneIsNothing DEF RequestInv, RequestOK
  <2> QED
    BY <2>2, <2>3 DEF RequestInv
<1>7. ASSUME GenerateCollect(w) PROVE RequestInv'
  <2>1. /\ tx[w].pc = "collect" /\ tx'[w].pc = "write" /\ tx'[w].of = tx[w].of
        /\ tx'[w].lines = Collected(w) /\ tx'[w].commission = tx[w].commission
    BY <1>0, <1>7 DEF GenerateCollect, TypeOK, Request
  <2>2. RequestOK(w)'
    BY <1>1, <1>3, <2>1 DEF RequestInv, RequestOK, AgentFree, Collected
  <2>3. ASSUME NEW v \in Requests \ {w} PROVE RequestOK(v)'
    BY <1>1, <1>3, <2>1, <2>3 DEF RequestInv, RequestOK, AgentFree
  <2> QED
    BY <2>2, <2>3 DEF RequestInv
<1>8. ASSUME Abort(w) PROVE RequestInv'
  <2>1. /\ tx'[w].pc = "idle" /\ tx'[w].lines = {} /\ tx'[w].commission = None
    BY <1>0, <1>8 DEF Abort, End, TypeOK, Idle
  <2>2. RequestOK(w)'
    BY <2>1 DEF RequestOK
  <2>3. ASSUME NEW v \in Requests \ {w} PROVE RequestOK(v)'
    BY <1>0, <1>1, <1>3, <2>1, <2>3, OthersFree, NoneIsNothing DEF RequestInv, RequestOK
  <2> QED
    BY <2>2, <2>3 DEF RequestInv
<1> QED
  BY <1>0, <1>2, <1>4, <1>5, <1>6, <1>7, <1>8 DEF Remembers

-----------------------------------------------------------------------------
(* Steps that write agents, commissions and settlements *)

Agency ==
  \/ NextDay
  \/ \E a \in Agents, r \in Rates :
       CreateAgent(a, r) \/ \E s \in {"ACTIVE", "INACTIVE"} : UpdateAgent(a, s, r)
  \/ \E a \in Agents : RemoveAgent(a)

LEMMA AgencyOK ==
  ASSUME IInv, Agency
  PROVE  IInv'
<1> USE DEF IInv
<1>1. UNCHANGED <<commission, settlement, line, event, tx>>
  BY DEF Agency, NextDay, CreateAgent, UpdateAgent, RemoveAgent, settled, agents
<1>2. TypeOK'
  <2>1. CASE NextDay
    BY <2>1 DEF NextDay, settled, agents, TypeOK
  <2>2. ASSUME NEW a \in Agents, NEW r \in Rates,
               CreateAgent(a, r) \/ \E s \in {"ACTIVE", "INACTIVE"} : UpdateAgent(a, s, r)
        PROVE  TypeOK'
    BY <2>2 DEF CreateAgent, UpdateAgent, settled, TypeOK
  <2>3. ASSUME NEW a \in Agents, RemoveAgent(a) PROVE TypeOK'
    BY <2>3 DEF RemoveAgent, settled, TypeOK
  <2> QED BY <2>1, <2>2, <2>3 DEF Agency
<1>3. \A a \in Agents, p \in Periods : Overlapping(a, p)' = Overlapping(a, p)
  BY <1>1 DEF Overlapping
<1>4. RequestInv'
  BY <1>1, <1>3 DEF RequestInv, RequestOK, AgentFree
<1>5. LineInv' /\ SettledInv' /\ PeriodsDisjoint' /\ AmountsMatchLines'
  BY <1>1 DEF LineInv, SettledInv, PeriodsDisjoint, AmountsMatchLines, Amounts, LinesOf
<1> QED
  BY <1>2, <1>4, <1>5

LEMMA CancelOK ==
  ASSUME IInv, NEW c \in Commissions, Cancel(c)
  PROVE  IInv'
<1> USE DEF IInv
<1>1. /\ UNCHANGED <<today, agent, rate, settlement, line, event, tx>>
      /\ commission[c].status = "EARNED"
      /\ commission' = [commission EXCEPT ![c].status = "REVERSED"]
  BY DEF Cancel, agents, settled
<1>2. TypeOK'
  BY <1>1 DEF TypeOK, Commission
<1>3. \A x \in Commissions :
        /\ commission'[x].agent = commission[x].agent /\ commission'[x].day = commission[x].day
        /\ commission'[x].amount = commission[x].amount
        /\ commission'[x].status = "NONE" <=> commission[x].status = "NONE"
  BY <1>1 DEF TypeOK, Commission
<1>4. RequestInv'
  <2>1. \A a \in Agents, p \in Periods : Overlapping(a, p)' = Overlapping(a, p)
    BY <1>1 DEF Overlapping
  <2>2. \A w \in Requests : tx[w].lines \subseteq Commissions
    BY DEF TypeOK, Request
  <2> QED
    BY <1>1, <1>3, <2>1, <2>2 DEF RequestInv, RequestOK, AgentFree
<1>5. LineInv' /\ SettledInv' /\ PeriodsDisjoint'
  BY <1>1, <1>3 DEF LineInv, SettledInv, PeriodsDisjoint
<1>6. AmountsMatchLines'
  <2>1. \A s : LinesOf(s)' = LinesOf(s) /\ LinesOf(s) \subseteq Commissions
    BY <1>1 DEF LinesOf
  <2>2. \A s : Amounts(LinesOf(s))' = Amounts(LinesOf(s))
    BY <1>3, <2>1, SameAmounts
  <2> QED
    BY <1>1, <1>3, <2>1, <2>2 DEF AmountsMatchLines
<1> QED
  BY <1>2, <1>4, <1>5, <1>6

\* The effect of the end of a request on the others.
LEMMA EndEffect ==
  ASSUME TypeOK, NEW w \in Requests, End(w)
  PROVE  /\ tx' \in [Requests -> Request]
         /\ tx'[w].pc = "idle" /\ tx'[w].lines = {} /\ tx'[w].commission = None
         /\ \A v \in Requests \ {w} : tx'[v] = tx[v]
BY NoRows DEF End, TypeOK, Idle

LEMMA BookWriteOK ==
  ASSUME IInv, NEW w \in Requests, BookWrite(w)
  PROVE  IInv'
<1> USE DEF IInv
<1> DEFINE b == tx[w].commission
<1>1. /\ UNCHANGED <<today, agent, rate, settlement, line, event>>
      /\ commission' = [commission EXCEPT ![b] = tx[w].row]
      /\ End(w)
  BY DEF BookWrite, agents, settled
<1>2. /\ b \in Commissions /\ commission[b].status = "NONE" /\ tx[w].row.status = "EARNED"
      /\ tx[w].row \in Commission
      /\ \A v \in Requests \ {w} : tx[v].commission # b
  BY DEF BookWrite, RequestInv, RequestOK, TypeOK, Request
<1>3. /\ tx' \in [Requests -> Request]
      /\ tx'[w].pc = "idle" /\ tx'[w].lines = {} /\ tx'[w].commission = None
      /\ \A v \in Requests \ {w} : tx'[v] = tx[v]
  BY <1>1, EndEffect
<1>4. /\ TypeOK'
      /\ commission'[b].status = "EARNED"
      /\ \A x \in Commissions \ {b} : commission'[x] = commission[x]
  BY <1>1, <1>2, <1>3 DEF TypeOK
<1> HIDE DEF b
<1>5. RequestInv'
  <2>1. \A a \in Agents, p \in Periods : Overlapping(a, p)' = Overlapping(a, p)
    BY <1>1 DEF Overlapping
  <2>2. RequestOK(w)'
    BY <1>3 DEF RequestOK
  <2>3. ASSUME NEW v \in Requests \ {w} PROVE RequestOK(v)'
    <3>1. \A c \in tx[v].lines : commission'[c] = commission[c]
      BY <1>2, <1>4 DEF RequestInv, RequestOK, TypeOK, Request
    <3>2. tx[v].commission \in Commissions => commission'[tx[v].commission] = commission[tx[v].commission]
      BY <1>2, <1>4
    <3> QED
      BY <1>1, <1>3, <2>1, <3>1, <3>2, OthersFree, NoneIsNothing DEF RequestInv, RequestOK
  <2> QED
    BY <2>2, <2>3 DEF RequestInv
<1>6. LineInv' /\ SettledInv' /\ PeriodsDisjoint'
  BY <1>1, <1>4 DEF LineInv, SettledInv, PeriodsDisjoint
<1>7. AmountsMatchLines'
  <2>1. \A s : LinesOf(s)' = LinesOf(s)
    BY <1>1 DEF LinesOf
  <2>2. \A s \in Agents \X Periods : \A c \in LinesOf(s) : commission'[c] = commission[c]
    BY <1>2, <1>4, NoneIsNothing DEF LineInv, LinesOf
  <2>3. \A s \in Agents \X Periods : Amounts(LinesOf(s))' = Amounts(LinesOf(s))
    BY <2>1, <2>2, SameAmounts
  <2> QED
    BY <1>1, <2>1, <2>2, <2>3 DEF AmountsMatchLines
<1> QED
  BY <1>4, <1>5, <1>6, <1>7

LEMMA SettleWriteOK ==
  ASSUME IInv, NEW w \in Requests, SettleWrite(w)
  PROVE  IInv'
<1> USE DEF IInv
<1> DEFINE o == tx[w].of
<1>1. /\ UNCHANGED <<today, agent, rate, commission, line>>
      /\ settlement' = [settlement EXCEPT ![o].status = "SETTLED"]
      /\ event' = event \cup {o}
      /\ End(w)
  BY DEF SettleWrite, agents
<1>2. o \in Agents \X Periods /\ settlement[o].status # "NONE"
  BY DEF SettleWrite, RequestInv, RequestOK
<1>3. /\ tx' \in [Requests -> Request]
      /\ tx'[w].pc = "idle" /\ tx'[w].lines = {} /\ tx'[w].commission = None
      /\ \A v \in Requests \ {w} : tx'[v] = tx[v]
  BY <1>1, EndEffect
<1>4. /\ settlement'[o] = [settlement[o] EXCEPT !.status = "SETTLED"]
      /\ settlement'[o].status = "SETTLED"
      /\ \A s \in (Agents \X Periods) \ {o} : settlement'[s] = settlement[s]
  BY <1>1, <1>2 DEF TypeOK, Settlement
<1>5. TypeOK'
  BY <1>1, <1>2, <1>3 DEF TypeOK, Settlement
<1> HIDE DEF o
<1>6. \A s \in Agents \X Periods : settlement'[s].status = "NONE" <=> settlement[s].status = "NONE"
  BY <1>2, <1>4
<1>7. RequestInv'
  <2>1. \A a \in Agents, p \in Periods : Overlapping(a, p)' = Overlapping(a, p)
    BY <1>6 DEF Overlapping
  <2>2. RequestOK(w)'
    BY <1>3 DEF RequestOK
  <2>3. ASSUME NEW v \in Requests \ {w} PROVE RequestOK(v)'
    BY <1>1, <1>3, <1>6, <2>1, OthersFree, NoneIsNothing DEF RequestInv, RequestOK
  <2> QED
    BY <2>2, <2>3 DEF RequestInv
<1>8. LineInv' /\ SettledInv' /\ PeriodsDisjoint'
  BY <1>1, <1>2, <1>4, <1>6 DEF LineInv, SettledInv, PeriodsDisjoint
<1>9. AmountsMatchLines'
  <2>1. \A s : LinesOf(s)' = LinesOf(s)
    BY <1>1 DEF LinesOf
  <2>2. \A s : Amounts(LinesOf(s))' = Amounts(LinesOf(s))
    BY <1>1, <2>1, SameAmounts
  <2>3. \A s \in Agents \X Periods :
          [settlement'[s] EXCEPT !.status = "OPEN"] = [settlement[s] EXCEPT !.status = "OPEN"]
    BY <1>2, <1>4 DEF TypeOK, Settlement
  <2> QED
    BY <1>1, <1>6, <2>1, <2>2, <2>3 DEF AmountsMatchLines
<1> QED
  BY <1>5, <1>7, <1>8, <1>9

LEMMA GenerateWriteOK ==
  ASSUME IInv, NEW w \in Requests, GenerateWrite(w), NEW o, o = tx[w].of, NEW C, C = tx[w].lines
  PROVE  IInv'
<1> USE DEF IInv
<1>1. /\ UNCHANGED <<today, agent, rate, commission, event>>
      /\ tx[w].pc = "write"
      /\ settlement[o].status # "SETTLED"
      /\ \A c \in C : line[c] \in {None, o}
      /\ Amounts(C) \in Settlement
      /\ settlement' = [settlement EXCEPT ![o] = Amounts(C)]
      /\ line' = LinesWritten(o, C)
      /\ End(w)
  BY DEF GenerateWrite, StillOpen, agents
<1>2. /\ o \in Agents \X Periods /\ C \subseteq Commissions
      /\ AgentFree(w, o[1])
      /\ Overlapping(o[1], o[2]) \subseteq {o[2]}
      /\ \A c \in C :
           /\ commission[c].status # "NONE" /\ commission[c].agent = o[1]
           /\ o[2].from <= commission[c].day /\ commission[c].day <= o[2].to
  BY <1>1 DEF RequestInv, RequestOK, TypeOK, Request
<1>3. /\ tx' \in [Requests -> Request]
      /\ tx'[w].pc = "idle" /\ tx'[w].lines = {} /\ tx'[w].commission = None
      /\ \A v \in Requests \ {w} : tx'[v] = tx[v]
  BY <1>1, EndEffect
<1>4. Amounts(C).status = "OPEN" /\ \A D : Amounts(D)' = Amounts(D)
  BY <1>1 DEF Amounts
<1>5. /\ settlement'[o] = Amounts(C)
      /\ \A s \in (Agents \X Periods) \ {o} : settlement'[s] = settlement[s]
  BY <1>1, <1>2 DEF TypeOK
<1>6. TypeOK'
  BY <1>1, <1>2, <1>3 DEF TypeOK, LinesWritten
<1>7. /\ LinesOf(o)' = C
      /\ \A s \in (Agents \X Periods) \ {o} : LinesOf(s)' = LinesOf(s)
  <2>1. \A c \in Commissions :
          line'[c] = IF c \in C THEN o ELSE IF line[c] = o THEN None ELSE line[c]
    BY <1>1 DEF LinesWritten
  <2>2. o # None
    BY <1>2, NoneIsNothing
  <2>3. LinesOf(o)' = C
    BY <1>2, <2>1, <2>2 DEF LinesOf
  <2>4. ASSUME NEW s \in (Agents \X Periods) \ {o} PROVE LinesOf(s)' = LinesOf(s)
    <3>1. s # None
      BY NoneIsNothing
    <3> QED
      BY <1>1, <1>2, <2>1, <3>1 DEF LinesOf
  <2> QED
    BY <2>3, <2>4
<1>8. \A a \in Agents, p \in Periods :
        <<a, p>> # o => settlement'[<<a, p>>] = settlement[<<a, p>>]
  BY <1>5
<1>9. RequestInv'
  <2>1. RequestOK(w)'
    BY <1>3 DEF RequestOK
  <2>2. ASSUME NEW v \in Requests \ {w} PROVE RequestOK(v)'
    <3>1. tx[v].pc \in {"collect", "write"} => tx[v].of[1] # o[1] /\ tx[v].of \in Agents \X Periods
      BY <1>2 DEF AgentFree, RequestInv, RequestOK
    <3>2. \A a \in Agents, p \in Periods : a # o[1] => Overlapping(a, p)' = Overlapping(a, p)
      BY <1>2, <1>8 DEF Overlapping
    <3>3. tx[v].pc = "settle" => settlement'[tx[v].of].status # "NONE"
      BY <1>4, <1>5 DEF RequestInv, RequestOK
    <3>4. tx[v].pc \in {"collect", "write"} =>
            Overlapping(tx[v].of[1], tx[v].of[2])' = Overlapping(tx[v].of[1], tx[v].of[2])
      BY <1>3, <3>1, <3>2
    <3> QED
      <4>1. RequestOK(v) /\ tx'[v] = tx[v] /\ commission' = commission
        BY <1>1, <1>3 DEF RequestInv
      <4>2. \A a : AgentFree(v, a) => AgentFree(v, a)'
        BY <1>3, OthersFree
      <4>3. \A x \in Requests \ {v} : tx'[x].commission \in {tx[x].commission, None}
        BY <1>3
      <4> HIDE DEF IInv
      <4> QED
        BY <3>3, <3>4, <4>1, <4>2, <4>3, NoneIsNothing DEF RequestOK
  <2> QED
    BY <2>1, <2>2 DEF RequestInv
<1>10. LineInv'
  <2>1. \A c \in Commissions : line'[c] = o => c \in C
    BY <1>7 DEF LinesOf
  <2>2. \A c \in Commissions : line'[c] \in {line[c], None, o}
    BY <1>1 DEF LinesWritten
  <2> QED
    BY <1>1, <1>2, <2>1, <2>2 DEF LineInv
<1>11. SettledInv'
  BY <1>1, <1>4, <1>5 DEF SettledInv
<1>12. PeriodsDisjoint'
  <2> SUFFICES ASSUME NEW a \in Agents, NEW p \in Periods, NEW q \in Periods,
                      settlement'[<<a, p>>].status # "NONE", settlement'[<<a, q>>].status # "NONE",
                      Overlap(p, q)
               PROVE  p = q
    BY DEF PeriodsDisjoint
  <2>1. Overlap(q, p)
    BY PeriodsInOrder DEF Overlap
  <2>2. CASE <<a, p>> = o /\ <<a, q>> # o
    <3>1. q \in Overlapping(a, p)
      BY <1>8, <2>2 DEF Overlapping
    <3> QED
      BY <1>2, <2>2, <3>1
  <2>3. CASE <<a, q>> = o /\ <<a, p>> # o
    <3>1. p \in Overlapping(a, q)
      BY <1>8, <2>1, <2>3 DEF Overlapping
    <3> QED
      BY <1>2, <2>3, <3>1
  <2>4. CASE <<a, p>> # o /\ <<a, q>> # o
    BY <1>8, <2>4 DEF PeriodsDisjoint
  <2> QED
    BY <2>2, <2>3, <2>4
<1>13. AmountsMatchLines'
  <2>1. settlement'[o].status # "NONE"
    BY <1>4, <1>5
  <2>2. [settlement'[o] EXCEPT !.status = "OPEN"] = Amounts(LinesOf(o))'
    BY <1>1, <1>4, <1>5, <1>7 DEF Settlement
  <2>3. ASSUME NEW s \in (Agents \X Periods) \ {o}
        PROVE  /\ settlement'[s] = settlement[s] /\ LinesOf(s)' = LinesOf(s)
               /\ Amounts(LinesOf(s))' = Amounts(LinesOf(s))
    BY <1>1, <1>5, <1>7, SameAmounts
  <2> QED
    BY <1>1, <1>2, <1>7, <2>1, <2>2, <2>3 DEF AmountsMatchLines
<1> QED
  BY <1>6, <1>9, <1>10, <1>11, <1>12, <1>13

-----------------------------------------------------------------------------

LEMMA NextOK == IInv /\ [Next]_vars => IInv'
<1> SUFFICES ASSUME IInv, [Next]_vars PROVE IInv'
  OBVIOUS
<1>1. CASE UNCHANGED vars
  <2>1. UNCHANGED <<today, agent, rate, commission, settlement, line, event, tx>>
    BY <1>1 DEF vars, agents, settled
  <2>2. \A a \in Agents, p \in Periods : Overlapping(a, p)' = Overlapping(a, p)
    BY <2>1 DEF Overlapping
  <2>3. TypeOK' /\ RequestInv'
    <3>1. TypeOK'
      BY <2>1 DEF IInv, TypeOK
    <3>2. RequestInv'
      BY <2>1, <2>2 DEF IInv, RequestInv, RequestOK, AgentFree
    <3> QED
      BY <3>1, <3>2
  <2>4. LineInv' /\ SettledInv' /\ PeriodsDisjoint' /\ AmountsMatchLines'
    BY <2>1 DEF IInv, LineInv, SettledInv, PeriodsDisjoint, AmountsMatchLines, Amounts, LinesOf
  <2> QED
    BY <2>3, <2>4 DEF IInv
<1>2. CASE Agency
  BY <1>2, AgencyOK
<1>3. ASSUME NEW c \in Commissions, Cancel(c) PROVE IInv'
  BY <1>3, CancelOK
<1>4. ASSUME NEW w \in Requests,
             Remembers(w) \/ BookWrite(w) \/ GenerateWrite(w) \/ SettleWrite(w)
      PROVE  IInv'
  BY <1>4, RemembersOK, BookWriteOK, GenerateWriteOK, SettleWriteOK
<1> QED
  BY <1>1, <1>2, <1>3, <1>4 DEF Next, AgentRequests, SettlementRequests, Agency, Remembers

\* The inductive invariant holds, whatever the agents, commissions and periods.
THEOREM SettlementsInvariant == Spec => []IInv
<1>1. Init => IInv
  BY InitOK DEF Init
<1> QED
  BY <1>1, NextOK, PTL DEF Spec

\* No two settlements of an agent overlap (generate's advisory lock).
THEOREM SettlementsDisjoint == Spec => []PeriodsDisjoint
<1>1. IInv => PeriodsDisjoint
  BY DEF IInv
<1> QED
  BY <1>1, SettlementsInvariant, PTL

\* The amounts of a settlement are those of its lines.
THEOREM SettlementsAddUp == Spec => []AmountsMatchLines
<1>1. IInv => AmountsMatchLines
  BY DEF IInv
<1> QED
  BY <1>1, SettlementsInvariant, PTL

\* A settled settlement keeps its amounts, its lines and its event.
THEOREM SettledStaysFinal == Spec => SettledIsFinal
<1> DEFINE Final == \A s \in Agents \X Periods : settlement[s].status = "SETTLED" =>
       settlement'[s] = settlement[s] /\ LinesOf(s)' = LinesOf(s) /\ s \in event'
<1>1. ASSUME IInv, [Next]_vars PROVE Final \/ UNCHANGED vars
  <2> SUFFICES ASSUME NEW s \in Agents \X Periods, settlement[s].status = "SETTLED", ~UNCHANGED vars
               PROVE  settlement'[s] = settlement[s] /\ LinesOf(s)' = LinesOf(s) /\ s \in event'
    OBVIOUS
  <2>1. s \in event
    BY <1>1 DEF IInv, SettledInv
  <2>2. ASSUME UNCHANGED settled PROVE UNCHANGED <<settlement, line, event>>
    BY <2>2 DEF settled
  <2>3. CASE Agency \/ \E c \in Commissions : Cancel(c)
    BY <2>1, <2>2, <2>3 DEF Agency, NextDay, CreateAgent, UpdateAgent, RemoveAgent, Cancel, LinesOf
  <2>4. ASSUME NEW w \in Requests, Remembers(w) \/ BookWrite(w) PROVE UNCHANGED settled
    BY <1>1, <2>4, RemembersEffect DEF IInv, BookWrite
  <2>5. ASSUME NEW w \in Requests, GenerateWrite(w)
        PROVE  settlement'[s] = settlement[s] /\ LinesOf(s)' = LinesOf(s) /\ s \in event'
    <3>1. /\ s # tx[w].of
          /\ \A c \in tx[w].lines : line[c] \in {None, tx[w].of}
          /\ event' = event
      BY <2>5 DEF GenerateWrite, StillOpen
    <3>2. settlement'[s] = settlement[s]
      BY <1>1, <2>5, <3>1 DEF GenerateWrite, IInv, TypeOK
    <3>3. LinesOf(s)' = LinesOf(s)
      BY <2>5, <3>1, NoneIsNothing DEF GenerateWrite, LinesOf, LinesWritten
    <3> QED
      BY <2>1, <3>1, <3>2, <3>3
  <2>6. ASSUME NEW w \in Requests, SettleWrite(w)
        PROVE  settlement'[s] = settlement[s] /\ LinesOf(s)' = LinesOf(s) /\ s \in event'
    <3>1. settlement'[s] = settlement[s]
      BY <1>1, <2>6 DEF SettleWrite, IInv, TypeOK, Settlement
    <3> QED
      BY <2>1, <2>6, <3>1 DEF SettleWrite, LinesOf
  <2> QED
    BY <1>1, <2>1, <2>2, <2>3, <2>4, <2>5, <2>6 DEF Next, AgentRequests, SettlementRequests, Agency, Remembers, LinesOf
<1>2. IInv /\ [Next]_vars => [Final]_vars
  BY <1>1
<1> QED
  BY <1>2, SettlementsInvariant, PTL DEF Spec, SettledIsFinal
==============================================================================
