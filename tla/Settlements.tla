------------------------------ MODULE Settlements ------------------------------
(***************************************************************************)
(* Agents, the commissions they earn by bookings and lose by               *)
(* cancellations, and the settlements that pay them.                       *)
(*                                                                         *)
(* A settlement is named by its agent and its period, which are unique     *)
(* together.  A commission carries the time its booking started at, which  *)
(* may be long before its transaction commits.  Requests are READ          *)
(* COMMITTED transactions, cut between the reads of generate and before    *)
(* the writes of each request, which commit as one step.                   *)
(***************************************************************************)
EXTENDS Naturals, FiniteSetsExt, Functions

CONSTANTS
  Agents,
  Commissions,   \* commissions, one for each ticket that an agent sells
  Fare,          \* the fare of the ticket of each commission
  Rates,         \* what agents may earn for a ticket: no rate is too high
  Days,
  Periods,       \* the periods settlements are asked for
  Requests,
  None

ASSUME FaresAreAmounts == Fare \in [Commissions -> Nat] /\ Rates \subseteq Nat
ASSUME PeriodsInOrder ==
  /\ Days \subseteq Nat
  /\ Periods \subseteq [from : Days, to : Days]
  /\ \A p \in Periods : p.from <= p.to
ASSUME NoneIsNothing == None \notin Commissions \cup (Agents \X Periods)

VARIABLES
  today,
  agent,       \* agents.active, "NONE" for no row
  rate,        \* agents.commissionValue
  commission,  \* commissions
  settlement,  \* settlements
  line,        \* settlement_lines, unique by commission: the settlement or None
  event,       \* settlements with an AGENT_SETTLEMENT event in the outbox
  tx           \* what each request in progress remembers

agents == <<agent, rate>>
settled == <<settlement, line, event>>
vars == <<today, agents, commission, settled, tx>>

Total(f) == FoldFunction(LAMBDA x, y : x + y, 0, f)
Commission == [status : {"NONE", "EARNED", "REVERSED"}, agent : Agents \cup {None},
               day : Days \cup {None}, amount : Nat]
NoCommission == [status |-> "NONE", agent |-> None, day |-> None, amount |-> 0]
Settlement == [status : {"NONE", "OPEN", "SETTLED"}, sales : Nat, commission : Nat, net : Nat]
NoSettlement == [status |-> "NONE", sales |-> 0, commission |-> 0, net |-> 0]

Request == [pc : {"idle", "book", "collect", "write", "settle"},
            commission : Commissions \cup {None},
            row : Commission,
            of : (Agents \X Periods) \cup {None},
            exists : BOOLEAN,
            lines : SUBSET Commissions]
Idle == [pc |-> "idle", commission |-> None, row |-> NoCommission, of |-> None,
         exists |-> FALSE, lines |-> {}]

TypeOK ==
  /\ today \in Days
  /\ agent \in [Agents -> {"NONE", "ACTIVE", "INACTIVE"}]
  /\ rate \in [Agents -> Rates \cup {0}]
  /\ commission \in [Commissions -> Commission]
  /\ settlement \in [Agents \X Periods -> Settlement]
  /\ line \in [Commissions -> (Agents \X Periods) \cup {None}]
  /\ event \subseteq Agents \X Periods
  /\ tx \in [Requests -> Request]

Init ==
  /\ today \in {d \in Days : \A x \in Days : d <= x}
  /\ agent = [a \in Agents |-> "NONE"]
  /\ rate = [a \in Agents |-> 0]
  /\ commission = [c \in Commissions |-> NoCommission]
  /\ settlement = [s \in Agents \X Periods |-> NoSettlement]
  /\ line = [c \in Commissions |-> None]
  /\ event = {}
  /\ tx = [w \in Requests |-> Idle]

Start(w, request) == tx[w] = Idle /\ tx' = [tx EXCEPT ![w] = request]
End(w) == tx' = [tx EXCEPT ![w] = Idle]

-----------------------------------------------------------------------------
(* Agents: create, update, remove *)

CreateAgent(a, r) ==
  /\ agent[a] = "NONE"
  /\ agent' = [agent EXCEPT ![a] = "ACTIVE"]
  /\ rate' = [rate EXCEPT ![a] = r]
  /\ UNCHANGED <<today, commission, settled, tx>>

UpdateAgent(a, active, r) ==
  /\ agent[a] # "NONE"
  /\ agent' = [agent EXCEPT ![a] = active]
  /\ rate' = [rate EXCEPT ![a] = r]
  /\ UNCHANGED <<today, commission, settled, tx>>

\* Commissions and settlements keep the agent: their foreign keys RESTRICT.
RemoveAgent(a) ==
  /\ agent[a] # "NONE"
  /\ \A c \in Commissions : commission[c].agent # a
  /\ \A p \in Periods : settlement[<<a, p>>].status = "NONE"
  /\ agent' = [agent EXCEPT ![a] = "NONE"]
  /\ rate' = [rate EXCEPT ![a] = 0]
  /\ UNCHANGED <<today, commission, settled, tx>>

-----------------------------------------------------------------------------
(* Bookings and cancellations *)

\* A booking reads the active agent with its rate ...
BookRead(w, a, c) ==
  /\ agent[a] = "ACTIVE"
  /\ commission[c].status = "NONE"
  /\ \A v \in Requests : tx[v].commission # c
  /\ Start(w, [Idle EXCEPT !.pc = "book", !.commission = c,
                 !.row = [status |-> "EARNED", agent |-> a, day |-> today, amount |-> rate[a]]])
  /\ UNCHANGED <<today, agents, commission, settled>>

\* ... and commits the commission, if the agent is still there.
BookWrite(w) ==
  /\ tx[w].pc = "book"
  /\ agent[tx[w].row.agent] # "NONE"
  /\ commission' = [commission EXCEPT ![tx[w].commission] = tx[w].row]
  /\ End(w)
  /\ UNCHANGED <<today, agents, settled>>

\* A cancellation reverses the commission, settled or not.
Cancel(c) ==
  /\ commission[c].status = "EARNED"
  /\ commission' = [commission EXCEPT ![c].status = "REVERSED"]
  /\ UNCHANGED <<today, agents, settled, tx>>

-----------------------------------------------------------------------------
(* generate *)

Overlap(p, q) == p.from <= q.to /\ p.to >= q.from

\* The settlements of an agent that overlap a period.
Overlapping(a, p) ==
  {q \in Periods : settlement[<<a, q>>].status # "NONE" /\ Overlap(p, q)}

\* Mutation of AgentFree: generate takes no lock.
NoAgentLock(w, a) == TRUE

\* The advisory lock of an agent: one generate at a time.
AgentFree(w, a) ==
  \A v \in Requests \ {w} : tx[v].pc \in {"collect", "write"} => tx[v].of[1] # a

\* The lock, the agent and the settlement of the same period, which must be open.
GenerateRead(w, a, p) ==
  /\ agent[a] # "NONE"
  /\ AgentFree(w, a)
  /\ Overlapping(a, p) \subseteq {p}
  /\ settlement[<<a, p>>].status # "SETTLED"
  /\ Start(w, [Idle EXCEPT !.pc = "collect", !.of = <<a, p>>,
                           !.exists = settlement[<<a, p>>].status # "NONE"])
  /\ UNCHANGED <<today, agents, commission, settled>>

\* The commissions that a new settlement takes are those of its period that no
\* settlement has; an existing one keeps what it has.
Collected(w) ==
  LET a == tx[w].of[1]
      p == tx[w].of[2]
  IN {c \in Commissions :
        /\ commission[c].status = "EARNED"
        /\ commission[c].agent = a
        /\ p.from <= commission[c].day /\ commission[c].day <= p.to
        /\ line[c] = IF tx[w].exists THEN tx[w].of ELSE None}

GenerateCollect(w) ==
  /\ tx[w].pc = "collect"
  /\ tx' = [tx EXCEPT ![w].pc = "write", ![w].lines = Collected(w)]
  /\ UNCHANGED <<today, agents, commission, settled>>

Amounts(C) ==
  LET sales == Total([c \in C |-> Fare[c]])
      earned == Total([c \in C |-> commission[c].amount])
  IN [status |-> "OPEN", sales |-> sales, commission |-> earned, net |-> sales - earned]

\* Mutation of LinesWritten: regeneration leaves the lines of what was reversed.
LinesAdded(s, C) == [c \in Commissions |-> IF c \in C THEN s ELSE line[c]]

LinesWritten(s, C) ==
  [c \in Commissions |-> IF c \in C THEN s ELSE IF line[c] = s THEN None ELSE line[c]]

\* Mutation of StillOpen: no trigger protects settled rows.
NotProtected(w) == TRUE

\* The unique index of a new settlement, the trigger of an existing one.
StillOpen(w) == settlement[tx[w].of].status = IF tx[w].exists THEN "OPEN" ELSE "NONE"

\* The writes: CHECKs refuse a negative amount, that of the net above all.
GenerateWrite(w) ==
  LET s == tx[w].of
      C == tx[w].lines
  IN
  /\ tx[w].pc = "write"
  /\ agent[s[1]] # "NONE"
  /\ StillOpen(w)
  /\ \A c \in C : line[c] \in {None, s}
  /\ Amounts(C) \in Settlement
  /\ settlement' = [settlement EXCEPT ![s] = Amounts(C)]
  /\ line' = LinesWritten(s, C)
  /\ End(w)
  /\ UNCHANGED <<today, agents, commission, event>>

-----------------------------------------------------------------------------
(* settle *)

RecordFree(w, s) == \A v \in Requests \ {w} : ~(tx[v].pc = "settle" /\ tx[v].of = s)

SettleRead(w, s) ==
  /\ RecordFree(w, s)
  /\ settlement[s].status = "OPEN"
  /\ Start(w, [Idle EXCEPT !.pc = "settle", !.of = s])
  /\ UNCHANGED <<today, agents, commission, settled>>

\* Mutation of SettleWrite: no event is enqueued.
SettleQuietly(w) ==
  /\ tx[w].pc = "settle"
  /\ settlement' = [settlement EXCEPT ![tx[w].of].status = "SETTLED"]
  /\ End(w)
  /\ UNCHANGED <<today, agents, commission, line, event>>

\* The event reaches the outbox in the same transaction.
SettleWrite(w) ==
  /\ tx[w].pc = "settle"
  /\ settlement' = [settlement EXCEPT ![tx[w].of].status = "SETTLED"]
  /\ event' = event \cup {tx[w].of}
  /\ End(w)
  /\ UNCHANGED <<today, agents, commission, line>>

-----------------------------------------------------------------------------

Abort(w) == tx[w] # Idle /\ End(w) /\ UNCHANGED <<today, agents, commission, settled>>

NextDay ==
  /\ \E d \in Days : d > today /\ today' = d
  /\ UNCHANGED <<agents, commission, settled, tx>>

AgentRequests ==
  \E a \in Agents :
    \/ \E r \in Rates :
         CreateAgent(a, r) \/ \E s \in {"ACTIVE", "INACTIVE"} : UpdateAgent(a, s, r)
    \/ RemoveAgent(a)

SettlementRequests(w) ==
  \/ \E a \in Agents, p \in Periods : GenerateRead(w, a, p)
  \/ \E s \in Agents \X Periods : SettleRead(w, s)

Next ==
  \/ AgentRequests
  \/ \E c \in Commissions : Cancel(c)
  \/ \E w \in Requests :
       \/ \E a \in Agents, c \in Commissions : BookRead(w, a, c)
       \/ SettlementRequests(w)
       \/ BookWrite(w) \/ GenerateCollect(w) \/ GenerateWrite(w) \/ SettleWrite(w)
       \/ Abort(w)
  \/ NextDay

Spec == Init /\ [][Next]_vars

-----------------------------------------------------------------------------
(* Properties *)

LinesOf(s) == {c \in Commissions : line[c] = s}

\* The settlements of an agent never overlap, however requests for overlapping
\* periods interleave: no day of an agent is paid twice.
PeriodsDisjoint ==
  \A a \in Agents : \A p, q \in Periods :
    settlement[<<a, p>>].status # "NONE" /\ settlement[<<a, q>>].status # "NONE" /\ Overlap(p, q)
      => p = q

\* What a settlement says and its lines agree, through every regeneration, change of
\* a rate and cancellation: it pays what its own commissions earned in its period.
AmountsMatchLines ==
  \A s \in Agents \X Periods :
    /\ settlement[s].status # "NONE" =>
         [settlement[s] EXCEPT !.status = "OPEN"] = Amounts(LinesOf(s))
    /\ \A c \in LinesOf(s) :
         /\ settlement[s].status # "NONE"
         /\ commission[c].status # "NONE" /\ commission[c].agent = s[1]
         /\ s[2].from <= commission[c].day /\ commission[c].day <= s[2].to

\* A settled settlement is final: a generate that read it before it was settled
\* changes neither its amounts nor its lines, and its event stays in the outbox.
SettledIsFinal ==
  [][\A s \in Agents \X Periods : settlement[s].status = "SETTLED" =>
       settlement'[s] = settlement[s] /\ LinesOf(s)' = LinesOf(s) /\ s \in event']_vars

-----------------------------------------------------------------------------
(* Why they hold: the inductive invariant of SettlementsProofs *)

\* What each request is about; no other generate is at work for the same agent.
RequestOK(w) ==
  /\ tx[w].pc = "book" =>
       /\ tx[w].commission \in Commissions /\ commission[tx[w].commission].status = "NONE"
       /\ tx[w].row.status = "EARNED" /\ tx[w].row.agent \in Agents
       /\ \A v \in Requests \ {w} : tx[v].commission # tx[w].commission
  /\ tx[w].pc \in {"collect", "write", "settle"} => tx[w].of \in Agents \X Periods
  /\ tx[w].pc \in {"collect", "write"} =>
       /\ AgentFree(w, tx[w].of[1])
       /\ Overlapping(tx[w].of[1], tx[w].of[2]) \subseteq {tx[w].of[2]}
  /\ tx[w].pc = "settle" => settlement[tx[w].of].status # "NONE"
  /\ \A c \in tx[w].lines :
       /\ commission[c].status # "NONE" /\ commission[c].agent = tx[w].of[1]
       /\ tx[w].of[2].from <= commission[c].day /\ commission[c].day <= tx[w].of[2].to
RequestInv == \A w \in Requests : RequestOK(w)

\* A commission that nobody earned has no line.
LineInv == \A c \in Commissions : commission[c].status = "NONE" => line[c] = None

SettledInv == \A s \in Agents \X Periods : settlement[s].status = "SETTLED" => s \in event

IInv ==
  /\ TypeOK
  /\ RequestInv
  /\ LineInv
  /\ SettledInv
  /\ PeriodsDisjoint
  /\ AmountsMatchLines
==============================================================================
