----------------------------- MODULE ClerkProofs -----------------------------
(***************************************************************************)
(* Everything a clerk does goes through these two: Access, the guards his  *)
(* requests meet and the administration behind them, and BookingDesk, the  *)
(* page he sells at.  The two share no state; this module proves their     *)
(* invariants and what follows from them.                                  *)
(*                                                                         *)
(* Access: grants never exceed what the first users had because granting   *)
(* is transitive (GrantThrough); a request may rely on what it checked     *)
(* because roles are never changed and users never leave their             *)
(* organization (OthersKept).                                              *)
(*                                                                         *)
(* BookingDesk: every step leaves of each call what it was, less, or a     *)
(* call that books nothing (Remains); the page adds to that a new form     *)
(* (NewForm) or a new submission, the backend a booking one of the calls   *)
(* asked for.                                                              *)
(***************************************************************************)
EXTENDS Access, BookingDesk, TLAPS

-----------------------------------------------------------------------------
(* Access *)


(* Granting is reflexive and transitive. *)

\* Everybody could grant what he has.
LEMMA GrantOwn == ASSUME NEW A PROVE CanGrant(A, A)
  BY DEF CanGrant

\* What is granted through somebody else could have been granted directly.
LEMMA GrantThrough ==
  ASSUME NEW A, NEW B, NEW C \in SUBSET Permissions,
         CanGrant(A, B), CanGrant(B, C)
  PROVE  CanGrant(A, C)
<1>1. CASE All \in A
  BY <1>1 DEF CanGrant
<1>2. CASE All \notin A
  <2>1. All \notin B
    BY <1>2 DEF CanGrant
  <2>2. ASSUME NEW p \in C
        PROVE  p # All /\ (p \in A \/ Wide(p) \in A \/ (p.own /\ Broader(p) \in A))
    <3>1. p \in Permission
      BY PermissionsAreTyped
    <3>2. p # All /\ (p \in B \/ Wide(p) \in B \/ (p.own /\ Broader(p) \in B))
      BY <2>1 DEF CanGrant
    <3>3. CASE p \in B
      BY <1>2, <3>2, <3>3 DEF CanGrant
    <3>4. CASE Wide(p) \in B
      <4>1. Wide(Wide(p)) = Wide(p) /\ ~ Wide(p).own
        BY DEF Wide
      <4>2. Wide(p) \in A \/ Wide(Wide(p)) \in A
        BY <1>2, <3>4, <4>1 DEF CanGrant
      <4> QED BY <3>2, <4>1, <4>2
    <3>5. CASE p.own /\ Broader(p) \in B
      <4>1. Wide(Broader(p)) = Wide(p) /\ ~ Broader(p).own
        BY <3>1 DEF Wide, Broader, Permission
      <4>2. Broader(p) \in A \/ Wide(Broader(p)) \in A
        BY <1>2, <3>5, <4>1 DEF CanGrant
      <4> QED BY <3>2, <3>5, <4>1, <4>2
    <3> QED BY <3>2, <3>3, <3>4, <3>5
  <2> QED BY <2>2 DEF CanGrant
<1> QED BY <1>1, <1>2

LEMMA CoveredThrough ==
  ASSUME NEW org, NEW A, NEW B \in SUBSET Permissions, Covered(org, A), CanGrant(A, B)
  PROVE  Covered(org, B)
<1>1. PICK u \in Users : /\ SeededUsers[u].org = org
                         /\ SeededUsers[u].role # None
                         /\ CanGrant(SeededRoles[SeededUsers[u].role].perms, A)
  BY DEF Covered
<1>2. CanGrant(SeededRoles[SeededUsers[u].role].perms, B)
  BY <1>1, GrantThrough
<1> QED BY <1>1, <1>2 DEF Covered

-----------------------------------------------------------------------------
(* Requests *)

LEMMA IdleIsRequest == Idle \in Request
  BY LimitIsPositive DEF Idle, Request

\* A step of one request that changes no row.
LEMMA RequestStep ==
  ASSUME IInv, NEW w \in Workers, NEW t \in Request,
         tx' = [tx EXCEPT ![w] = t],
         UNCHANGED <<user, role, audit, session, tries>>,
         RequestOK(w)',
         t.op = "written" => \A v \in Workers \ {w} : Uncommitted(v) => tx[v].on # t.on
  PROVE  IInv'
<1> USE DEF IInv
<1>1. TypeOK'
  BY DEF TypeOK
<1>2. CountsAgree' /\ RolesAreOwn' /\ GrantsAreCovered' /\ NothingUnaudited'
  BY DEF CountsAgree, RolesAreOwn, GrantsAreCovered, NothingUnaudited
<1>3. (session \subseteq {u \in Users : user[u].exists})'
  OBVIOUS
<1>4. ASSUME NEW v \in Workers, v # w PROVE RequestOK(v)'
  <2>1. tx'[v] = tx[v] /\ tx'[w] = t
    BY <1>4 DEF TypeOK
  <2>2. \A x \in Workers : x # w => tx'[x] = tx[x]
    BY DEF TypeOK
  <2>3. RequestOK(v)
    OBVIOUS
  <2> QED BY <1>4, <2>1, <2>2, <2>3 DEF RequestOK, Uncommitted
<1> QED BY <1>1, <1>2, <1>3, <1>4

\* The end of a request that leaves every row as it is.
LEMMA IdleIsOK ==
  ASSUME NEW w \in Workers, tx'[w] = Idle PROVE RequestOK(w)'
  BY DEF RequestOK, Idle, Uncommitted

LEMMA StepSignInRead ==
  ASSUME IInv, NEW w \in Workers, NEW u \in Users, SignInRead(w, u) PROVE IInv'
<1> DEFINE t == [Idle EXCEPT !.op = "password", !.on = u, !.seen = user[u].attempts]
<1>1. t \in Request
  BY DEF Idle, Request, IInv, TypeOK, UserRow
<1>2. t.op = "password" /\ t.on = u
  BY DEF Idle
<1>3. tx' = [tx EXCEPT ![w] = t] /\ UNCHANGED <<user, role, audit, session, tries>> /\ user[u].exists
  BY DEF SignInRead
<1> HIDE DEF t
<1>4. tx'[w] = t
  BY <1>3 DEF IInv, TypeOK
<1>5. RequestOK(w)'
  BY <1>2, <1>3, <1>4 DEF RequestOK, Uncommitted
<1> QED BY <1>1, <1>2, <1>3, <1>5, RequestStep

LEMMA StepAuthenticate ==
  ASSUME IInv, NEW w \in Workers, NEW u \in Users, Authenticate(w, u) PROVE IInv'
<1> DEFINE t == [Idle EXCEPT !.op = "admin", !.by = u, !.org = user[u].org,
                             !.perms = role[user[u].role].perms]
<1>1. user[u].exists /\ user[u].role # None /\ user[u].org # None
  BY DEF Authenticate, IInv, RolesAreOwn
<1>2. user[u].role \in Roles /\ user[u].org \in Organizations
  BY <1>1 DEF IInv, TypeOK, UserRow
<1>3. role[user[u].role].perms \in SUBSET Permissions
  BY <1>2 DEF IInv, TypeOK, RoleRow
<1>4. t \in Request
  BY <1>2, <1>3 DEF Idle, Request
<1>5. t.op = "admin" /\ t.org = user[u].org /\ t.perms = role[user[u].role].perms
  BY DEF Idle
<1>6. tx' = [tx EXCEPT ![w] = t] /\ UNCHANGED <<user, role, audit, session, tries>>
  BY DEF Authenticate
<1>7. Covered(t.org, t.perms)
  BY <1>1, <1>5 DEF IInv, GrantsAreCovered
<1> HIDE DEF t
<1>8. tx'[w] = t
  BY <1>6 DEF IInv, TypeOK
<1>9. RequestOK(w)'
  BY <1>1, <1>5, <1>7, <1>8 DEF RequestOK, Uncommitted
<1> QED BY <1>4, <1>5, <1>6, <1>9, RequestStep

LEMMA StepAbort ==
  ASSUME IInv, NEW w \in Workers, Abort(w) PROVE IInv'
<1>1. tx' = [tx EXCEPT ![w] = Idle] /\ UNCHANGED <<user, role, audit, session, tries>>
  BY DEF Abort
<1>2. tx'[w] = Idle
  BY <1>1 DEF IInv, TypeOK
<1> QED BY <1>1, <1>2, IdleIsRequest, IdleIsOK, RequestStep DEF Idle

-----------------------------------------------------------------------------
(* Checks and writes *)

\* What a check leaves in the request, whoever it is about.
LEMMA CheckIsOK ==
  ASSUME IInv, NEW w \in Workers, tx[w].op = "admin",
         NEW kind \in {"role", "user", "change"}, NEW on \in Users \cup Roles,
         NEW r \in Roles \cup {None}, NEW wants \in SUBSET Permissions,
         NEW active \in {"same", "on", "off"},
         Check(w, kind, on, r, wants, active),
         kind = "role" => on \in Roles,
         kind = "user" => on \in Users /\ r # None,
         kind = "change" => on \in Users /\ user[on].exists /\ user[on].org = tx[w].org,
         r # None => /\ role[r].exists
                     /\ role[r].org \in {None, tx[w].org}
                     /\ CanGrant(tx[w].perms, role[r].perms)
  PROVE  IInv'
<1> DEFINE t == [tx[w] EXCEPT !.op = "checked", !.kind = kind, !.on = on,
                              !.role = r, !.wants = wants, !.active = active]
<1>1. tx[w] \in Request
  BY DEF IInv, TypeOK
<1>2. t \in Request
  BY <1>1 DEF Request
<1>3. /\ t.op = "checked" /\ t.kind = kind /\ t.on = on /\ t.role = r
      /\ t.org = tx[w].org /\ t.perms = tx[w].perms
  BY <1>1 DEF Request
<1>4. tx' = [tx EXCEPT ![w] = t] /\ UNCHANGED <<user, role, audit, session, tries>>
  BY DEF Check, IInv, TypeOK
<1> HIDE DEF t
<1>5. tx'[w] = t
  BY <1>4 DEF IInv, TypeOK
<1>6. t.org # None /\ Covered(t.org, t.perms)
  BY <1>3 DEF IInv, RequestOK
<1>7. RequestOK(w)'
  BY <1>3, <1>4, <1>5, <1>6 DEF RequestOK, Uncommitted
<1> QED BY <1>2, <1>3, <1>4, <1>7, RequestStep

LEMMA StepCreateRoleRead ==
  ASSUME IInv, NEW w \in Workers, NEW r \in Roles, NEW wants \in Grants,
         CreateRoleRead(w, r, wants)
  PROVE  IInv'
  BY CheckIsOK, GrantsArePermissions DEF CreateRoleRead

LEMMA StepCreateUserRead ==
  ASSUME IInv, NEW w \in Workers, NEW u \in Users, NEW r \in Roles, CreateUserRead(w, u, r)
  PROVE  IInv'
<1>1. r # None
  BY NoneIsNothing
<1> QED BY <1>1, CheckIsOK DEF CreateUserRead, Visible, Grantable

LEMMA StepUpdateUserRead ==
  ASSUME IInv, NEW w \in Workers, NEW u \in Users, NEW change \in Changes,
         UpdateUserRead(w, u, change[1], change[2])
  PROVE  IInv'
<1>1. change[1] \in Roles \cup {None} /\ change[2] \in {"same", "on", "off"}
  BY ChangesAreTyped
<1> QED BY <1>1, CheckIsOK DEF UpdateUserRead, Visible, Grantable

\* A write keeps what was checked and holds the row against the others.
LEMMA WriteIsOK ==
  ASSUME IInv, NEW w \in Workers, NEW row \in Users \cup Roles,
         tx[w].op = "checked", tx[w].on = row, Write(w, row),
         tx[w].kind = "role" => ~ role[row].exists,
         tx[w].kind = "user" => ~ user[row].exists
  PROVE  IInv'
<1> DEFINE t == [tx[w] EXCEPT !.op = "written"]
<1>1. tx[w] \in Request
  BY DEF IInv, TypeOK
<1>2. t \in Request
  BY <1>1 DEF Request
<1>3. /\ t.op = "written" /\ t.kind = tx[w].kind /\ t.on = tx[w].on /\ t.role = tx[w].role
      /\ t.org = tx[w].org /\ t.perms = tx[w].perms
  BY <1>1 DEF Request
<1>4. tx' = [tx EXCEPT ![w] = t] /\ UNCHANGED <<user, role, audit, session, tries>>
  BY DEF Write, IInv, TypeOK
<1> HIDE DEF t
<1>5. tx'[w] = t /\ \A v \in Workers : v # w => tx'[v] = tx[v]
  BY <1>4 DEF IInv, TypeOK
<1>6. \A v \in Workers \ {w} : Uncommitted(v) => tx[v].on # t.on
  BY <1>3 DEF Write, Locked
<1>7. RequestOK(w)
  BY DEF IInv
<1>8. RequestOK(w)'
  BY <1>3, <1>4, <1>5, <1>6, <1>7 DEF RequestOK, Uncommitted
<1> QED BY <1>2, <1>4, <1>6, <1>8, RequestStep

LEMMA StepInsertWrite ==
  ASSUME IInv, NEW w \in Workers, NEW row \in Users \cup Roles, InsertWrite(w, row)
  PROVE  IInv'
  BY WriteIsOK DEF InsertWrite

LEMMA StepUpdateUserWrite ==
  ASSUME IInv, NEW w \in Workers, NEW u \in Users, UpdateUserWrite(w, u)
  PROVE  IInv'
  BY WriteIsOK DEF UpdateUserWrite

-----------------------------------------------------------------------------
(* Counting failures *)

\* What a step at the count and the lock of one account keeps.
LEMMA CountStep ==
  ASSUME IInv, NEW u \in Users, NEW n \in Nat, NEW lock \in {"none", "locked", "past"},
         user' = [user EXCEPT ![u] = [user[u] EXCEPT !.attempts = n, !.lock = lock]],
         tries' = [tries EXCEPT ![u] = n],
         lock # "none" => n >= Limit,
         lock = "none" => n < Limit,
         ~ user[u].exists => n = 0,
         UNCHANGED <<role, audit, session>>
  PROVE  /\ user' \in [Users -> UserRow]
         /\ tries' \in [Users -> Nat]
         /\ CountsAgree' /\ RolesAreOwn' /\ GrantsAreCovered' /\ NothingUnaudited'
         /\ (session \subseteq {v \in Users : user[v].exists})'
         /\ \A v \in Users : user'[v].exists = user[v].exists /\ user'[v].org = user[v].org
<1> DEFINE row == [user[u] EXCEPT !.attempts = n, !.lock = lock]
<1>1. user[u] \in UserRow
  BY DEF IInv, TypeOK
<1>2. /\ row \in UserRow /\ row.attempts = n /\ row.lock = lock /\ row.exists = user[u].exists
      /\ row.org = user[u].org /\ row.role = user[u].role /\ row.active = user[u].active
  BY <1>1 DEF UserRow
<1>3. user' = [user EXCEPT ![u] = row]
  OBVIOUS
<1> HIDE DEF row
<1>4. user'[u] = row /\ \A v \in Users : v # u => user'[v] = user[v]
  BY <1>3 DEF IInv, TypeOK
<1>5. tries'[u] = n /\ \A v \in Users : v # u => tries'[v] = tries[v]
  BY DEF IInv, TypeOK
<1>6. user' \in [Users -> UserRow] /\ tries' \in [Users -> Nat]
  BY <1>2, <1>3 DEF IInv, TypeOK
<1>7. CountsAgree'
  <2>1. CountsAgree
    BY DEF IInv
  <2> QED BY <1>2, <1>4, <1>5, <2>1 DEF CountsAgree
<1>8. \A v \in Users : /\ user'[v].exists = user[v].exists
                       /\ user'[v].org = user[v].org
                       /\ user'[v].role = user[v].role
                       /\ user'[v].active = user[v].active
  BY <1>2, <1>4
<1>9. RolesAreOwn' /\ GrantsAreCovered' /\ NothingUnaudited'
  <2>1. RolesAreOwn /\ GrantsAreCovered /\ NothingUnaudited
    BY DEF IInv
  <2> QED BY <1>8, <2>1 DEF RolesAreOwn, GrantsAreCovered, NothingUnaudited
<1>10. (session \subseteq {v \in Users : user[v].exists})'
  BY <1>8 DEF IInv
<1> QED BY <1>6, <1>7, <1>8, <1>9, <1>10

\* The requests that take no part in a step are not disturbed by it.
LEMMA OthersKept ==
  ASSUME IInv, NEW v \in Workers,
         tx'[v] = tx[v],
         Uncommitted(v) => \A x \in Workers \ {v} :
                             Uncommitted(x)' => Uncommitted(x) /\ tx'[x].on = tx[x].on,
         \A x \in Users : user'[x].exists = user[x].exists /\ user'[x].org = user[x].org,
         role' = role
  PROVE  RequestOK(v)'
<1>1. RequestOK(v)
  BY DEF IInv
<1> QED BY <1>1 DEF RequestOK, Uncommitted

\* The end of a request that changed no role and no user but a count.
LEMMA IdleEnds ==
  ASSUME IInv, NEW w \in Workers, tx' = [tx EXCEPT ![w] = Idle], role' = role,
         \A x \in Users : user'[x].exists = user[x].exists /\ user'[x].org = user[x].org,
         NEW v \in Workers
  PROVE  RequestOK(v)'
<1>1. tx'[w] = Idle /\ \A x \in Workers : x # w => tx'[x] = tx[x]
  BY DEF IInv, TypeOK
<1>2. CASE v = w
  BY <1>1, <1>2, IdleIsOK
<1>3. CASE v # w
  <2>1. ~ Uncommitted(w)'
    BY <1>1 DEF Uncommitted, Idle
  <2>2. Uncommitted(v) => \A x \in Workers \ {v} :
                            Uncommitted(x)' => Uncommitted(x) /\ tx'[x].on = tx[x].on
    BY <1>1, <2>1 DEF Uncommitted
  <2> QED BY <1>1, <1>3, <2>2, OthersKept
<1> QED BY <1>2, <1>3

LEMMA StepSignInWrong ==
  ASSUME IInv, NEW w \in Workers, NEW u \in Users, SignInWrong(w, u) PROVE IInv'
<1>1. user[u] \in UserRow /\ tries[u] \in Nat
  BY DEF IInv, TypeOK
<1>2. user[u].exists /\ tries[u] = user[u].attempts
  BY DEF SignInWrong, IInv, RequestOK, CountsAgree
<1>3. PICK n \in Nat : n = user[u].attempts + 1
  BY <1>1 DEF UserRow
<1>4. PICK lock \in {"none", "locked", "past"} :
        lock = IF n >= Limit THEN "locked" ELSE user[u].lock
  BY <1>1 DEF UserRow
<1>5. lock # "none" => n >= Limit
  <2>1. user[u].lock # "none" => tries[u] >= Limit
    BY DEF IInv, CountsAgree
  <2> QED BY <1>1, <1>2, <1>3, <1>4, <2>1, LimitIsPositive DEF UserRow
<1>6. lock = "none" => n < Limit
  BY <1>4, LimitIsPositive
<1>7. user' = [user EXCEPT ![u] = [user[u] EXCEPT !.attempts = n, !.lock = lock]]
  BY <1>1, <1>3, <1>4 DEF SignInWrong, Counted, IInv, TypeOK, UserRow
<1>8. tries' = [tries EXCEPT ![u] = n]
  BY <1>2, <1>3 DEF SignInWrong, IInv, TypeOK
<1>9. tx' = [tx EXCEPT ![w] = Idle] /\ UNCHANGED <<role, audit, session>>
  BY DEF SignInWrong
<1>10. /\ user' \in [Users -> UserRow] /\ tries' \in [Users -> Nat]
       /\ CountsAgree' /\ RolesAreOwn' /\ GrantsAreCovered' /\ NothingUnaudited'
       /\ (session \subseteq {v \in Users : user[v].exists})'
       /\ \A v \in Users : user'[v].exists = user[v].exists /\ user'[v].org = user[v].org
  BY <1>2, <1>5, <1>6, <1>7, <1>8, <1>9, CountStep
<1>11. \A v \in Workers : RequestOK(v)'
  BY <1>9, <1>10, IdleEnds
<1>12. TypeOK'
  BY <1>9, <1>10, IdleIsRequest DEF IInv, TypeOK
<1> QED BY <1>10, <1>11, <1>12 DEF IInv

LEMMA StepSignInRight ==
  ASSUME IInv, NEW w \in Workers, NEW u \in Users, SignInRight(w, u) PROVE IInv'
<1> DEFINE t == [tx[w] EXCEPT !.op = "signed", !.seen = 0]
<1>1. user[u] \in UserRow /\ tx[w] \in Request
  BY DEF IInv, TypeOK
<1>2. user[u].exists /\ tx[w].on = u
  BY DEF SignInRight, IInv, RequestOK
<1>3. t \in Request /\ t.op = "signed" /\ t.on = u
  BY <1>1, <1>2 DEF Request
<1>4. user' = [user EXCEPT ![u] = [user[u] EXCEPT !.attempts = 0, !.lock = "none"]]
  BY DEF SignInRight, IInv, TypeOK
<1>5. tries' = [tries EXCEPT ![u] = 0] /\ UNCHANGED <<role, audit, session>>
  BY DEF SignInRight
<1>6. tx' = [tx EXCEPT ![w] = t]
  BY DEF SignInRight, IInv, TypeOK
<1> HIDE DEF t
<1>7. /\ user' \in [Users -> UserRow] /\ tries' \in [Users -> Nat]
      /\ CountsAgree' /\ RolesAreOwn' /\ GrantsAreCovered' /\ NothingUnaudited'
      /\ (session \subseteq {v \in Users : user[v].exists})'
      /\ \A v \in Users : user'[v].exists = user[v].exists /\ user'[v].org = user[v].org
  <2>1. 0 \in Nat /\ 0 < Limit
    BY LimitIsPositive
  <2> QED BY <1>2, <1>4, <1>5, <2>1, CountStep
<1>8. tx'[w] = t /\ \A v \in Workers : v # w => tx'[v] = tx[v]
  BY <1>6 DEF IInv, TypeOK
<1>9. RequestOK(w)'
  BY <1>2, <1>3, <1>7, <1>8 DEF RequestOK, Uncommitted
<1>10. ASSUME NEW v \in Workers, v # w PROVE RequestOK(v)'
  <2>1. Uncommitted(v) => \A x \in Workers \ {v} :
                            Uncommitted(x)' => Uncommitted(x) /\ tx'[x].on = tx[x].on
    BY <1>3, <1>8 DEF Uncommitted
  <2> QED BY <1>5, <1>7, <1>8, <1>10, <2>1, OthersKept
<1>11. TypeOK'
  BY <1>3, <1>5, <1>6, <1>7 DEF IInv, TypeOK
<1> QED BY <1>7, <1>9, <1>10, <1>11 DEF IInv

LEMMA StepLockExpires ==
  ASSUME IInv, NEW u \in Users, LockExpires(u) PROVE IInv'
<1>1. user[u] \in UserRow /\ tries[u] \in Nat
  BY DEF IInv, TypeOK
<1>2. tries[u] = user[u].attempts /\ tries[u] >= Limit /\ (~ user[u].exists => tries[u] = 0)
  BY DEF LockExpires, IInv, CountsAgree
<1>3. PICK n \in Nat : n = tries[u]
  BY <1>1
<1>4. user' = [user EXCEPT ![u] = [user[u] EXCEPT !.attempts = n, !.lock = "past"]]
  BY <1>1, <1>2, <1>3 DEF LockExpires, IInv, TypeOK, UserRow
<1>5. tries' = [tries EXCEPT ![u] = n] /\ UNCHANGED <<role, audit, session, tx>>
  BY <1>3 DEF LockExpires, IInv, TypeOK
<1>6. /\ user' \in [Users -> UserRow] /\ tries' \in [Users -> Nat]
      /\ CountsAgree' /\ RolesAreOwn' /\ GrantsAreCovered' /\ NothingUnaudited'
      /\ (session \subseteq {v \in Users : user[v].exists})'
      /\ \A v \in Users : user'[v].exists = user[v].exists /\ user'[v].org = user[v].org
  BY <1>2, <1>3, <1>4, <1>5, CountStep
<1>7. ASSUME NEW v \in Workers PROVE RequestOK(v)'
  BY <1>5, <1>6, OthersKept DEF Uncommitted
<1>8. TypeOK'
  BY <1>5, <1>6 DEF IInv, TypeOK
<1> QED BY <1>6, <1>7, <1>8 DEF IInv

LEMMA StepSignInAudited ==
  ASSUME IInv, NEW w \in Workers, NEW u \in Users, SignInAudited(w, u) PROVE IInv'
<1> DEFINE entry == [of |-> u, kind |-> "login"]
<1>1. /\ tx' = [tx EXCEPT ![w] = Idle] /\ UNCHANGED <<user, role, tries>>
      /\ audit' = audit \cup {entry} /\ session' = session \cup {u}
  BY DEF SignInAudited
<1>2. user[u].exists
  BY DEF SignInAudited, IInv, RequestOK
<1>3. entry \in Entry
  BY DEF Entry
<1>4. NothingUnaudited'
  <2>1. NothingUnaudited
    BY DEF IInv
  <2> QED BY <1>1, <2>1 DEF NothingUnaudited
<1> HIDE DEF entry
<1>5. TypeOK'
  BY <1>1, <1>3, IdleIsRequest DEF IInv, TypeOK
<1>6. CountsAgree' /\ RolesAreOwn' /\ GrantsAreCovered'
  BY <1>1 DEF IInv, CountsAgree, RolesAreOwn, GrantsAreCovered
<1>7. (session \subseteq {v \in Users : user[v].exists})'
  BY <1>1, <1>2 DEF IInv
<1>8. \A v \in Workers : RequestOK(v)'
  BY <1>1, IdleEnds
<1> QED BY <1>4, <1>5, <1>6, <1>7, <1>8 DEF IInv

-----------------------------------------------------------------------------
(* Commits *)

\* What w relies on when it commits.
LEMMA CommitFacts ==
  ASSUME IInv, NEW w \in Workers, Commit(w)
  PROVE  /\ tx[w] \in Request /\ tx[w].kind \in {"role", "user", "change"}
         /\ tx[w].org \in Organizations /\ tx[w].org # None
         /\ Covered(tx[w].org, tx[w].perms)
         /\ tx[w].kind = "role" => tx[w].on \in Roles /\ ~ role[tx[w].on].exists
         /\ tx[w].kind = "user" =>
              tx[w].on \in Users /\ ~ user[tx[w].on].exists /\ tx[w].role # None
         /\ tx[w].kind = "change" =>
              /\ tx[w].on \in Users
              /\ user[tx[w].on].exists
              /\ user[tx[w].on].org = tx[w].org
         /\ tx[w].role # None => /\ tx[w].role \in Roles
                                 /\ role[tx[w].role].exists
                                 /\ role[tx[w].role].org \in {None, tx[w].org}
                                 /\ CanGrant(tx[w].perms, role[tx[w].role].perms)
         /\ \A v \in Workers \ {w} : Uncommitted(v) => tx[v].on # tx[w].on
         /\ ~ Uncommitted(w)' /\ \A v \in Workers : v # w => tx'[v] = tx[v]
         /\ tx' \in [Workers -> Request] /\ RequestOK(w)'
         /\ audit' \subseteq Entry
<1>1. tx[w] \in Request
  BY DEF IInv, TypeOK
<1>2. RequestOK(w) /\ tx[w].op = "written"
  BY DEF IInv, Commit, Uncommitted
<1>3. /\ tx' = [tx EXCEPT ![w] = Idle]
      /\ audit' = audit \cup {[of |-> tx[w].on, kind |-> tx[w].kind]}
  BY DEF Commit
<1>4. tx'[w] = Idle /\ tx' \in [Workers -> Request] /\ \A v \in Workers : v # w => tx'[v] = tx[v]
  BY <1>3, IdleIsRequest DEF IInv, TypeOK
<1>5. ~ Uncommitted(w)' /\ RequestOK(w)'
  BY <1>4, IdleIsOK DEF Uncommitted, Idle
<1>6. tx[w].kind \in {"role", "user", "change"}
  BY <1>1, <1>2 DEF RequestOK, Request
<1>7. tx[w].kind = "role" => tx[w].on \in Roles /\ ~ role[tx[w].on].exists
  BY <1>2 DEF RequestOK, Uncommitted
<1>8. tx[w].kind = "user" => tx[w].on \in Users /\ ~ user[tx[w].on].exists /\ tx[w].role # None
  BY <1>2 DEF RequestOK, Uncommitted
<1>9. tx[w].kind = "change" =>
        tx[w].on \in Users /\ user[tx[w].on].exists /\ user[tx[w].on].org = tx[w].org
  BY <1>2 DEF RequestOK
<1>10. tx[w].role # None => /\ tx[w].role \in Roles
                            /\ role[tx[w].role].exists
                            /\ role[tx[w].role].org \in {None, tx[w].org}
                            /\ CanGrant(tx[w].perms, role[tx[w].role].perms)
  BY <1>1, <1>2 DEF RequestOK, Request
<1>11. \A v \in Workers \ {w} : Uncommitted(v) => tx[v].on # tx[w].on
  BY <1>2 DEF RequestOK, Uncommitted
<1>12. tx[w].org \in Organizations /\ tx[w].org # None /\ Covered(tx[w].org, tx[w].perms)
  BY <1>1, <1>2 DEF RequestOK, Request
<1>13. audit' \subseteq Entry
  BY <1>3, <1>6, <1>7, <1>8, <1>9 DEF IInv, TypeOK, Entry
<1> QED
  BY <1>1, <1>4, <1>5, <1>6, <1>7, <1>8, <1>9, <1>10, <1>11, <1>12, <1>13

LEMMA CommitRole ==
  ASSUME IInv, NEW w \in Workers, Commit(w), tx[w].kind = "role" PROVE IInv'
<1>1. PICK r \in Roles : r = tx[w].on
  BY CommitFacts
<1>2. PICK row \in RoleRow : row = [exists |-> TRUE, org |-> tx[w].org, perms |-> tx[w].wants]
  BY CommitFacts DEF RoleRow, Request
<1>3. role' = [role EXCEPT ![r] = row] /\ user' = user
  BY <1>1, <1>2 DEF Commit, RolesAfter, UsersAfter
<1>4. role'[r] = row /\ \A x \in Roles : x # r => role'[x] = role[x]
  BY <1>3 DEF IInv, TypeOK
<1>5. ~ role[r].exists
  BY <1>1, CommitFacts
<1>6. UNCHANGED <<session, tries>>
  BY DEF Commit
<1>7. TypeOK'
  BY <1>3, <1>6, CommitFacts DEF IInv, TypeOK
<1>8. CountsAgree' /\ (session \subseteq {v \in Users : user[v].exists})'
  BY <1>3, <1>6 DEF IInv, CountsAgree
<1>9. \A x \in Users : user[x].exists => user[x].role \in Roles \ {r}
  BY <1>5 DEF IInv, RolesAreOwn, TypeOK, UserRow
<1>10. RolesAreOwn' /\ GrantsAreCovered'
  <2>1. RolesAreOwn /\ GrantsAreCovered
    BY DEF IInv
  <2> QED BY <1>3, <1>4, <1>9, <2>1 DEF RolesAreOwn, GrantsAreCovered
<1>11. NothingUnaudited'
  <2>1. NothingUnaudited
    BY DEF IInv
  <2>2. audit' = audit \cup {[of |-> r, kind |-> "role"]}
    BY <1>1 DEF Commit
  <2> QED BY <1>3, <1>4, <1>6, <2>1, <2>2 DEF NothingUnaudited
<1>12. ASSUME NEW v \in Workers, v # w PROVE RequestOK(v)'
  <2>1. RequestOK(v) /\ tx[v] \in Request
    BY DEF IInv, TypeOK
  <2>2. tx'[v] = tx[v] /\ \A x \in Workers : Uncommitted(x)' => x # w /\ tx'[x] = tx[x]
    BY <1>12, CommitFacts
  <2>3. Uncommitted(v) => tx[v].on # r
    BY <1>1, <1>12, CommitFacts
  <2>4. tx[v].op \in {"checked", "written"} /\ tx[v].role # None => tx[v].role \in Roles \ {r}
    BY <1>5, <2>1 DEF RequestOK, Request
  <2> QED BY <1>3, <1>4, <2>1, <2>2, <2>3, <2>4 DEF RequestOK, Uncommitted
<1> QED BY <1>7, <1>8, <1>10, <1>11, <1>12, CommitFacts DEF IInv

\* A commit that inserts or changes one user of the organization of w.
LEMMA CommitRow ==
  ASSUME IInv, NEW w \in Workers, Commit(w),
         NEW u \in Users, u = tx[w].on, NEW row \in UserRow,
         user' = [user EXCEPT ![u] = row], role' = role,
         row.exists, row.org = tx[w].org,
         tx[w].kind \in {"user", "change"},
         user[u].exists => row.org = user[u].org,
         row.attempts = tries[u],
         row.lock # "none" => tries[u] >= Limit,
         row.lock = "none" => tries[u] < Limit,
         row.role \in Roles, role[row.role].exists,
         role[row.role].org \in {None, row.org},
         Covered(row.org, role[row.role].perms)
  PROVE  IInv'
<1>1. user'[u] = row /\ \A x \in Users : x # u => user'[x] = user[x]
  BY DEF IInv, TypeOK
<1>2. UNCHANGED <<session, tries>>
  BY DEF Commit
<1>3. TypeOK'
  BY <1>2, CommitFacts DEF IInv, TypeOK
<1>4. CountsAgree'
  <2>1. CountsAgree
    BY DEF IInv
  <2> QED BY <1>1, <1>2, <2>1 DEF CountsAgree
<1>5. row.org # None /\ row.role # None
  BY CommitFacts, NoneIsNothing
<1>6. RolesAreOwn'
  <2>1. RolesAreOwn
    BY DEF IInv
  <2> QED BY <1>1, <1>5, <2>1 DEF RolesAreOwn
<1>7. GrantsAreCovered'
  <2>1. GrantsAreCovered
    BY DEF IInv
  <2> QED BY <1>1, <2>1 DEF GrantsAreCovered
<1>8. NothingUnaudited'
  <2>1. NothingUnaudited
    BY DEF IInv
  <2>2. audit' = audit \cup {[of |-> u, kind |-> tx[w].kind]}
    BY DEF Commit
  <2> QED BY <1>1, <1>2, <2>1, <2>2 DEF NothingUnaudited
<1>9. (session \subseteq {v \in Users : user[v].exists})'
  BY <1>1, <1>2 DEF IInv
<1>10. ASSUME NEW v \in Workers, v # w PROVE RequestOK(v)'
  <2>1. RequestOK(v)
    BY DEF IInv
  <2>2. tx'[v] = tx[v] /\ \A x \in Workers : Uncommitted(x)' => x # w /\ tx'[x] = tx[x]
    BY <1>10, CommitFacts
  <2>3. Uncommitted(v) => tx[v].on # u
    BY <1>10, CommitFacts
  <2>4. \A x \in Users : user[x].exists => user'[x].exists /\ user'[x].org = user[x].org
    BY <1>1
  <2> QED BY <1>1, <2>1, <2>2, <2>3, <2>4 DEF RequestOK, Uncommitted
<1> QED BY <1>3, <1>4, <1>6, <1>7, <1>8, <1>9, <1>10, CommitFacts DEF IInv

\* What w gives is covered, because what w has is.
LEMMA GivenIsCovered ==
  ASSUME IInv, NEW w \in Workers, Commit(w), tx[w].role # None
  PROVE  Covered(tx[w].org, role[tx[w].role].perms)
<1>1. role[tx[w].role].perms \in SUBSET Permissions
  BY CommitFacts DEF IInv, TypeOK, RoleRow
<1> QED BY <1>1, CommitFacts, CoveredThrough

LEMMA CommitUser ==
  ASSUME IInv, NEW w \in Workers, Commit(w), tx[w].kind = "user" PROVE IInv'
<1>1. PICK u \in Users : u = tx[w].on
  BY CommitFacts
<1>2. tx[w].role \in Roles /\ tx[w].role # None /\ tx[w].org \in Organizations
  BY CommitFacts
<1>3. PICK row \in UserRow : row = NewUser(tx[w].org, tx[w].role)
  BY <1>2 DEF NewUser, UserRow
<1>4. /\ row.exists /\ row.org = tx[w].org /\ row.role = tx[w].role
      /\ row.attempts = 0 /\ row.lock = "none"
  BY <1>3 DEF NewUser
<1>5. user' = [user EXCEPT ![u] = row] /\ role' = role
  BY <1>1, <1>3 DEF Commit, RolesAfter, UsersAfter
<1>6. ~ user[u].exists /\ tries[u] = 0 /\ 0 < Limit
  BY <1>1, CommitFacts, LimitIsPositive DEF IInv, CountsAgree
<1>7. /\ role[tx[w].role].exists /\ role[tx[w].role].org \in {None, tx[w].org}
      /\ Covered(tx[w].org, role[tx[w].role].perms)
  BY <1>2, CommitFacts, GivenIsCovered
<1> QED BY <1>1, <1>2, <1>4, <1>5, <1>6, <1>7, CommitRow

LEMMA CommitChange ==
  ASSUME IInv, NEW w \in Workers, Commit(w), tx[w].kind = "change" PROVE IInv'
<1>1. PICK u \in Users : u = tx[w].on
  BY CommitFacts
<1>2. user[u] \in UserRow /\ user[u].exists /\ user[u].org = tx[w].org /\ tx[w] \in Request
  BY <1>1, CommitFacts DEF IInv, TypeOK
<1>3. PICK row \in UserRow : row = Changed(w, user[u])
  BY <1>2 DEF Changed, UserRow, Request
<1>4. /\ row.exists /\ row.org = user[u].org /\ row.attempts = user[u].attempts
      /\ row.lock = user[u].lock
      /\ row.role = IF tx[w].role # None THEN tx[w].role ELSE user[u].role
  BY <1>2, <1>3 DEF Changed, UserRow
<1>5. user' = [user EXCEPT ![u] = row] /\ role' = role
  BY <1>1, <1>3 DEF Commit, RolesAfter, UsersAfter
<1>6. /\ user[u].attempts = tries[u]
      /\ user[u].lock # "none" => tries[u] >= Limit
      /\ user[u].lock = "none" => tries[u] < Limit
  BY DEF IInv, CountsAgree
<1>7. /\ row.role \in Roles /\ role[row.role].exists
      /\ role[row.role].org \in {None, row.org}
      /\ Covered(row.org, role[row.role].perms)
  <2>1. CASE tx[w].role # None
    BY <1>2, <1>4, <2>1, CommitFacts, GivenIsCovered
  <2>2. CASE tx[w].role = None
    BY <1>2, <1>4, <2>2 DEF IInv, RolesAreOwn, GrantsAreCovered, UserRow
  <2> QED BY <2>1, <2>2
<1> QED BY <1>1, <1>2, <1>4, <1>5, <1>6, <1>7, CommitRow

LEMMA StepCommit ==
  ASSUME IInv, NEW w \in Workers, Commit(w) PROVE IInv'
  BY CommitFacts, CommitRole, CommitUser, CommitChange

-----------------------------------------------------------------------------
(* The theorems *)

LEMMA InitHolds == ASSUME Init PROVE IInv
<1>1. \A u \in Users : SeededUsers[u].org # None => SeededUsers[u].role \in Roles
  BY SeedIsTyped, SeedIsConsistent
<1>2. TypeOK
  BY <1>1, IdleIsRequest, SeedIsTyped DEF Init, TypeOK, UserRow, RoleRow, NewUser, NoUser
<1>3. ASSUME NEW u \in Users
      PROVE  /\ user[u].attempts = 0 /\ user[u].lock = "none" /\ user[u].active
             /\ user[u].exists <=> SeededUsers[u].org # None
             /\ user[u].exists => /\ user[u].org = SeededUsers[u].org
                                  /\ user[u].role = SeededUsers[u].role
  BY DEF Init, NewUser, NoUser
<1>4. CountsAgree
  BY <1>3, LimitIsPositive DEF Init, CountsAgree
<1>5. RolesAreOwn
  BY <1>3, SeedIsConsistent DEF Init, RolesAreOwn
<1>6. GrantsAreCovered
  <2> SUFFICES ASSUME NEW u \in Users, user[u].exists
               PROVE  Covered(user[u].org, role[user[u].role].perms)
    BY DEF GrantsAreCovered
  <2> QED BY <1>3, SeedIsConsistent, GrantOwn DEF Init, Covered
<1>7. NothingUnaudited
  BY <1>3 DEF Init, NothingUnaudited
<1>8. session \subseteq {u \in Users : user[u].exists}
  BY DEF Init
<1>9. \A w \in Workers : RequestOK(w)
  BY DEF Init, RequestOK, Idle, Uncommitted
<1> QED BY <1>2, <1>4, <1>5, <1>6, <1>7, <1>8, <1>9 DEF IInv

LEMMA StutterKeeps == ASSUME IInv, UNCHANGED vars PROVE IInv'
  BY DEF vars, IInv, TypeOK, CountsAgree, RolesAreOwn, GrantsAreCovered, NothingUnaudited,
         RequestOK, Uncommitted

LEMMA NextKeeps == ASSUME IInv, [Next]_vars PROVE IInv'
<1>1. ASSUME NEW w \in Workers, SigningIn(w) PROVE IInv'
  BY <1>1, StepSignInRead, StepSignInWrong, StepSignInRight, StepSignInAudited DEF SigningIn
<1>2. ASSUME NEW w \in Workers, Administering(w) PROVE IInv'
  BY <1>2, StepAuthenticate, StepCreateRoleRead, StepCreateUserRead, StepInsertWrite,
     StepUpdateUserRead, StepUpdateUserWrite, StepCommit DEF Administering
<1>3. ASSUME NEW w \in Workers, Abort(w) PROVE IInv'
  BY <1>3, StepAbort
<1>4. ASSUME NEW u \in Users, LockExpires(u) PROVE IInv'
  BY <1>4, StepLockExpires
<1>5. CASE UNCHANGED vars
  BY <1>5, StutterKeeps
<1> QED BY <1>1, <1>2, <1>3, <1>4, <1>5 DEF Next

\* Rows and requests keep their types, failures are counted exactly, and
\* a request may rely on what it has checked.
THEOREM AccessInvariant == Spec => []IInv
<1>1. Init => IInv
  BY InitHolds
<1>2. IInv /\ [Next]_vars => IInv'
  BY NextKeeps
<1> QED BY <1>1, <1>2, PTL DEF Spec

\* No sequence of grants gives anybody more than the first users had
\* (canGrantPermissions, ensureGrantablePermissions).
THEOREM GrantsStayCovered == Spec => []GrantsAreCovered
<1>1. IInv => GrantsAreCovered
  BY DEF IInv
<1> QED BY <1>1, AccessInvariant, PTL

\* Every committed change and every session is in audit_logs (AuditService.log
\* inside the transaction of the request).
THEOREM ChangesAreAudited == Spec => []NothingUnaudited
<1>1. IInv => NothingUnaudited
  BY DEF IInv
<1> QED BY <1>1, AccessInvariant, PTL

\* Failures that are counted at the same time all count towards the lock.
THEOREM FailuresLock == Spec => LockedAtLimit
<1> DEFINE Locks == \A u \in Users :
             tries'[u] > tries[u] /\ tries'[u] >= Limit => user'[u].lock = "locked"
<1>1. ASSUME IInv, IInv', [Next]_vars PROVE Locks
  <2> SUFFICES ASSUME NEW u \in Users, tries'[u] > tries[u], tries'[u] >= Limit
               PROVE  user'[u].lock = "locked"
    OBVIOUS
  <2>1. tries[u] \in Nat /\ tries'[u] \in Nat
    BY <1>1 DEF IInv, TypeOK
  <2>2. PICK w \in Workers, v \in Users : SignInWrong(w, v) \/ SignInRight(w, v)
    <3>1. tries' # tries
      BY <2>1
    <3>2. UNCHANGED vars => tries' = tries
      BY DEF vars
    <3>3. \A v \in Users : LockExpires(v) => tries' = tries
      BY DEF LockExpires
    <3>4. \A w \in Workers, v \in Users :
            SignInRead(w, v) \/ SignInAudited(w, v) \/ Authenticate(w, v) => tries' = tries
      BY DEF SignInRead, SignInAudited, Authenticate
    <3>5. \A w \in Workers : Abort(w) \/ Commit(w) => tries' = tries
      BY DEF Abort, Commit
    <3>6. \A w, kind, on, r, wants, active :
            Check(w, kind, on, r, wants, active) => tries' = tries
      BY DEF Check
    <3>7. \A w \in Workers, v \in Users : UpdateUserWrite(w, v) => tries' = tries
      BY DEF UpdateUserWrite, Write
    <3>8. \A w \in Workers, row \in Users \cup Roles : InsertWrite(w, row) => tries' = tries
      BY DEF InsertWrite, Write
    <3>9. ASSUME NEW w \in Workers, Administering(w) PROVE tries' = tries
      <4>1. ASSUME NEW r \in Roles, NEW wants \in Grants, CreateRoleRead(w, r, wants)
            PROVE  tries' = tries
        BY <3>6, <4>1 DEF CreateRoleRead
      <4>2. ASSUME NEW v \in Users, NEW r \in Roles, CreateUserRead(w, v, r)
            PROVE  tries' = tries
        BY <3>6, <4>2 DEF CreateUserRead
      <4>3. ASSUME NEW v \in Users, NEW change \in Changes,
                   UpdateUserRead(w, v, change[1], change[2])
            PROVE  tries' = tries
        BY <3>6, <4>3 DEF UpdateUserRead
      <4> QED BY <3>4, <3>5, <3>7, <3>8, <3>9, <4>1, <4>2, <4>3 DEF Administering
    <3>10. ASSUME NEW w \in Workers, SigningIn(w)
           PROVE  tries' = tries \/ \E v \in Users : SignInWrong(w, v) \/ SignInRight(w, v)
      BY <3>4, <3>10 DEF SigningIn
    <3> QED BY <1>1, <3>1, <3>2, <3>3, <3>5, <3>9, <3>10 DEF Next
  <2>3. CASE SignInRight(w, v)
    <3>1. tries' = [tries EXCEPT ![v] = 0]
      BY <2>3 DEF SignInRight
    <3>2. tries'[u] = 0 \/ tries'[u] = tries[u]
      BY <1>1, <3>1 DEF IInv, TypeOK
    <3> QED BY <2>1, <3>2
  <2>4. CASE SignInWrong(w, v)
    <3>1. tries' = [tries EXCEPT ![v] = tries[v] + 1]
      BY <2>4 DEF SignInWrong
    <3>2. v = u
      BY <1>1, <2>1, <3>1 DEF IInv, TypeOK
    <3>3. user[u] \in UserRow /\ user[u].attempts = tries[u] /\ tries'[u] = tries[u] + 1
      BY <1>1, <3>1, <3>2 DEF IInv, TypeOK, CountsAgree
    <3>4. user[u].attempts + 1 >= Limit
      BY <3>3
    <3> QED BY <1>1, <2>4, <3>2, <3>3, <3>4 DEF SignInWrong, Counted, IInv, TypeOK, UserRow
  <2> QED BY <2>2, <2>3, <2>4
<1>2. IInv /\ IInv' /\ [Next]_vars => [Locks]_vars
  BY <1>1
<1> QED BY <1>2, AccessInvariant, PTL DEF Spec, LockedAtLimit

-----------------------------------------------------------------------------
(* BookingDesk *)


\* What may become of a call b: c asks for no more, and nobody new waits for it.
Remains(c, b) ==
  /\ c \in Call
  /\ c.op = "book" => /\ b.op = "book"
                      /\ c.of = b.of /\ c.seats = b.seats
                      /\ c.key = b.key /\ c.form = b.form
                      /\ c.heard => b.heard
                      /\ c.at = "done" => booking'[c.key].form # Nothing
  /\ c.at \in {"done", "refused", "failed"} => c.heard
  /\ c.heard => c.of # Nothing

\* Bookings are kept with their seats; a new one has those a call asked for.
BookingsGrow ==
  /\ booking' \in [Keys -> Booking]
  /\ \A k \in Keys : booking[k].form # Nothing =>
       /\ booking'[k].form # Nothing
       /\ booking'[k].seats = booking[k].seats
       /\ booking'[k].form = booking[k].form
  /\ \A k \in Keys : booking'[k].form # Nothing /\ booking[k].form = Nothing =>
       \E i \in Calls : /\ call[i].op = "book" /\ call[i].key = k
                        /\ booking'[k].seats = call[i].seats
                        /\ booking'[k].form = call[i].form

LEMMA IdleRemains == ASSUME NEW b PROVE Remains(NoCall, b)
  BY DEF Remains, NoCall, Call

LEMMA CallRemains ==
  ASSUME DeskInv, NEW i \in Calls, UNCHANGED booking
  PROVE  Remains(call[i], call[i])
<1>1. call[i] \in Call
  BY DEF DeskInv, DeskTypeOK
<1> QED BY <1>1 DEF DeskInv, WaitedForByTheForm, Remains

\* A step of the backend, or of the page that changes no selection and no form.
LEMMA BackendStep ==
  ASSUME DeskInv, UNCHANGED page, BookingsGrow,
         call' \in [Calls -> Call],
         \A i \in Calls : Remains(call'[i], call[i]),
         holder' \in [Seats -> Desks \cup {Nothing}], lapsed' \in SUBSET Seats
  PROVE  DeskInv'
<1> USE DEF DeskInv
<1>1. DeskTypeOK'
  BY DEF DeskTypeOK, BookingsGrow, page
<1>2. CallsCarryTheirKey'
  BY DEF CallsCarryTheirKey, Remains, page
<1>3. FormsAskForTheirSeats'
  <2> SUFFICES ASSUME NEW d \in Desks, form[d] # Nothing
               PROVE  /\ form[d] \in used
                      /\ \A i \in Calls : call'[i].op = "book" /\ call'[i].key = form[d] =>
                           call'[i].of = d /\ call'[i].seats = selected[d]
                      /\ booking'[form[d]].form # Nothing => booking'[form[d]].seats = selected[d]
    BY DEF FormsAskForTheirSeats, page
  <2>1. form[d] \in used /\ form[d] \in Keys
    BY DEF FormsAskForTheirSeats, DeskTypeOK
  <2>2. \A i \in Calls : call'[i].op = "book" /\ call'[i].key = form[d] =>
          call'[i].of = d /\ call'[i].seats = selected[d]
    BY DEF FormsAskForTheirSeats, Remains
  <2>3. booking'[form[d]].form # Nothing => booking'[form[d]].seats = selected[d]
    BY <2>1 DEF FormsAskForTheirSeats, BookingsGrow
  <2> QED BY <2>1, <2>2, <2>3
<1>4. FormsAreApart'
  BY DEF FormsAreApart, page
<1>5. BookingsAreOfTheirForm'
  <2> SUFFICES ASSUME NEW k \in Keys, booking'[k].form # Nothing
               PROVE  /\ booking'[k].form = k
                      /\ k \in used
                      /\ \A i \in Calls : call'[i].op = "book" /\ call'[i].key = k =>
                           call'[i].seats = booking'[k].seats
    BY DEF BookingsAreOfTheirForm, page
  <2>1. CASE booking[k].form # Nothing
    BY <2>1 DEF BookingsAreOfTheirForm, BookingsGrow, Remains
  <2>2. CASE booking[k].form = Nothing
    <3>1. PICK i \in Calls : /\ call[i].op = "book" /\ call[i].key = k
                             /\ booking'[k].seats = call[i].seats
                             /\ booking'[k].form = call[i].form
      BY <2>2 DEF BookingsGrow
    <3> QED BY <3>1 DEF CallsCarryTheirKey, OneKeyOneOrder, Remains
  <2> QED BY <2>1, <2>2
<1>6. OneKeyOneOrder'
  BY DEF OneKeyOneOrder, Remains
<1>7. WaitedForByTheForm'
  BY DEF WaitedForByTheForm, Remains, page
<1> QED BY <1>1, <1>2, <1>3, <1>4, <1>5, <1>6, <1>7

\* The selection of d becomes sel; its form gets a key nobody has used, or goes.
LEMMA NewForm ==
  ASSUME DeskInv, NEW d \in Desks, NEW sel \in SUBSET Seats,
         selected' = [selected EXCEPT ![d] = sel],
         IF sel = {}
         THEN form' = [form EXCEPT ![d] = Nothing] /\ UNCHANGED used
         ELSE \E k \in Keys \ used : /\ form' = [form EXCEPT ![d] = k]
                                     /\ used' = used \cup {k},
         UNCHANGED backend,
         call' \in [Calls -> Call],
         \A i \in Calls : Remains(call'[i], call[i]),
         \A i \in Calls : call'[i].op = "book" /\ call'[i].heard => call'[i].of # d
  PROVE  DeskInv'
<1> USE DEF DeskInv
<1>1. UNCHANGED <<holder, lapsed, booking>>
  BY DEF backend
<1>2. /\ used \subseteq used' /\ used' \in SUBSET Keys
      /\ form' \in [Desks -> Keys \cup {Nothing}]
      /\ form'[d] = Nothing <=> sel = {}
      /\ form'[d] # Nothing => form'[d] \in used' /\ form'[d] \notin used
      /\ \A e \in Desks : e # d => form'[e] = form[e]
  BY NothingIsNoKey DEF DeskTypeOK
<1>3. /\ selected' \in [Desks -> SUBSET Seats]
      /\ selected'[d] = sel
      /\ \A e \in Desks : e # d => selected'[e] = selected[e]
  BY DEF DeskTypeOK
<1>4. DeskTypeOK'
  BY <1>1, <1>2, <1>3 DEF DeskTypeOK
<1>5. CallsCarryTheirKey'
  BY <1>2 DEF CallsCarryTheirKey, Remains
<1>6. FormsAskForTheirSeats'
  <2> SUFFICES ASSUME NEW e \in Desks, form'[e] # Nothing
               PROVE  /\ form'[e] \in used'
                      /\ \A i \in Calls : call'[i].op = "book" /\ call'[i].key = form'[e] =>
                           call'[i].of = e /\ call'[i].seats = selected'[e]
                      /\ booking[form'[e]].form # Nothing => booking[form'[e]].seats = selected'[e]
    BY <1>1 DEF FormsAskForTheirSeats
  <2>1. CASE e = d
    <3>1. form'[e] \in used' /\ form'[e] \notin used /\ form'[e] \in Keys
      BY <1>2, <2>1
    <3>2. \A i \in Calls : call'[i].op = "book" => call'[i].key \in used
      BY DEF CallsCarryTheirKey, Remains
    <3>3. booking[form'[e]].form = Nothing
      BY <3>1 DEF BookingsAreOfTheirForm
    <3> QED BY <3>1, <3>2, <3>3
  <2>2. CASE e # d
    BY <1>2, <1>3, <2>2 DEF FormsAskForTheirSeats, Remains
  <2> QED BY <2>1, <2>2
<1>7. FormsAreApart'
  <2>1. \A e \in Desks : form'[e] = Nothing <=> selected'[e] = {}
    BY <1>2, <1>3 DEF FormsAreApart
  <2>2. \A e, g \in Desks : e # g /\ form'[e] # Nothing => form'[e] # form'[g]
    BY <1>2 DEF FormsAreApart, FormsAskForTheirSeats
  <2> QED BY <2>1, <2>2 DEF FormsAreApart
<1>8. BookingsAreOfTheirForm'
  BY <1>1, <1>2 DEF BookingsAreOfTheirForm, Remains
<1>9. OneKeyOneOrder'
  BY DEF OneKeyOneOrder, Remains
<1>10. WaitedForByTheForm'
  <2> SUFFICES ASSUME NEW i \in Calls, call'[i].op = "book", call'[i].heard
               PROVE  call'[i].key = form'[call'[i].of]
    BY DEF WaitedForByTheForm, Remains
  <2>1. call'[i].of \in Desks /\ call'[i].of # d
    <3>1. call'[i].of # Nothing
      BY DEF CallsCarryTheirKey, Remains
    <3> QED BY <3>1 DEF Call
  <2>2. call'[i].key = form[call'[i].of]
    BY DEF WaitedForByTheForm, Remains
  <2> QED BY <1>2, <2>1, <2>2
<1> QED BY <1>4, <1>5, <1>6, <1>7, <1>8, <1>9, <1>10

LEMMA BookingsKept == ASSUME DeskInv, UNCHANGED booking PROVE BookingsGrow
  BY DEF DeskInv, DeskTypeOK, BookingsGrow

\* Unmounting a form takes from its call the one who waits for it.
LEMMA UnheardRemains ==
  ASSUME NEW d \in Desks, NEW b, NEW c, Remains(c, b)
  PROVE  /\ Remains(Unheard(d, c), b)
         /\ Unheard(d, c).op = "book" /\ Unheard(d, c).heard => Unheard(d, c).of # d
<1>1. CASE c.of = d /\ c.op = "book" /\ c.heard /\ c.at = "way"
  <2> DEFINE left == [c EXCEPT !.heard = FALSE]
  <2>1. Unheard(d, c) = left
    BY <1>1 DEF Unheard
  <2>2. /\ left \in Call /\ ~ left.heard /\ left.op = c.op /\ left.of = c.of
        /\ left.seats = c.seats /\ left.key = c.key /\ left.form = c.form /\ left.at = c.at
    BY DEF Remains, Call
  <2> HIDE DEF left
  <2> QED BY <1>1, <2>1, <2>2 DEF Remains
<1>2. CASE c.of = d /\ c.op = "book" /\ c.heard /\ c.at # "way"
  <2>1. Unheard(d, c) = NoCall
    BY <1>2 DEF Unheard
  <2>2. Remains(NoCall, b) /\ NoCall.op # "book"
    BY IdleRemains, Zenon DEF NoCall
  <2> QED BY <2>1, <2>2
<1>3. CASE ~ (c.of = d /\ c.op = "book" /\ c.heard)
  BY <1>3 DEF Unheard
<1> QED BY <1>1, <1>2, <1>3

\* The page changes the selection, or keeps it, and the call i becomes c.
LEMMA Selecting ==
  ASSUME DeskInv, NEW d \in Desks, NEW sel \in SUBSET Seats, NEW i \in Calls, NEW c,
         Remains(c, call[i]), Select(d, sel, i, c), UNCHANGED backend
  PROVE  DeskInv'
<1> DEFINE calls == [call EXCEPT ![i] = c]
<1>1. UNCHANGED booking /\ holder' = holder /\ lapsed' = lapsed
  BY DEF backend
<1>2. calls \in [Calls -> Call] /\ \A j \in Calls : Remains(calls[j], call[j])
  <2>1. calls \in [Calls -> Call] /\ calls[i] = c /\ \A j \in Calls : j # i => calls[j] = call[j]
    BY DEF DeskInv, DeskTypeOK, Remains
  <2> HIDE DEF calls
  <2> QED BY <1>1, <2>1, CallRemains
<1> HIDE DEF calls
<1>3. CASE sel = selected[d]
  <2>1. call' = calls /\ UNCHANGED <<form, used>>
    BY <1>3 DEF Select, calls
  <2>2. selected' = selected
    BY <1>3 DEF Select, DeskInv, DeskTypeOK
  <2>3. holder' \in [Seats -> Desks \cup {Nothing}] /\ lapsed' \in SUBSET Seats
    BY <1>1 DEF DeskInv, DeskTypeOK
  <2>4. UNCHANGED page
    BY <2>1, <2>2 DEF page
  <2>5. BookingsGrow
    BY <1>1, BookingsKept
  <2>6. call' \in [Calls -> Call] /\ \A j \in Calls : Remains(call'[j], call[j])
    BY <1>2, <2>1
  <2> QED BY <2>3, <2>4, <2>5, <2>6, BackendStep
<1>4. CASE sel # selected[d]
  <2>1. selected' = [selected EXCEPT ![d] = sel] /\ Remounted(d, sel, calls)
    BY <1>4 DEF Select, calls
  <2>2. call' = [j \in Calls |-> Unheard(d, calls[j])]
    BY <2>1 DEF Remounted
  <2>3. \A j \in Calls : /\ Remains(call'[j], call[j])
                         /\ call'[j].op = "book" /\ call'[j].heard => call'[j].of # d
    BY <1>2, <2>2, UnheardRemains
  <2>4. call' \in [Calls -> Call]
    BY <2>2, <2>3 DEF Remains
  <2>5. IF sel = {}
        THEN form' = [form EXCEPT ![d] = Nothing] /\ UNCHANGED used
        ELSE \E k \in Keys \ used : /\ form' = [form EXCEPT ![d] = k]
                                    /\ used' = used \cup {k}
    BY <2>1 DEF Remounted, MountKeys, FreshKeys
  <2> QED BY <2>1, <2>3, <2>4, <2>5, NewForm
<1> QED BY <1>3, <1>4

LEMMA ReloadStep ==
  ASSUME DeskInv, NEW d \in Desks, Reload(d)
  PROVE  DeskInv'
<1>1. UNCHANGED booking
  BY DEF Reload, backend
<1>2. selected' = [selected EXCEPT ![d] = selected[d]] /\ selected[d] \in SUBSET Seats
  BY DEF Reload, DeskInv, DeskTypeOK
<1>3. call' = [j \in Calls |-> Unheard(d, call[j])]
  BY DEF Reload, Remounted
<1>4. \A j \in Calls : /\ Remains(call'[j], call[j])
                       /\ call'[j].op = "book" /\ call'[j].heard => call'[j].of # d
  BY <1>1, <1>3, CallRemains, UnheardRemains
<1>5. call' \in [Calls -> Call]
  BY <1>3, <1>4 DEF Remains
<1>6. \E k \in Keys \ used : form' = [form EXCEPT ![d] = k] /\ used' = used \cup {k}
  BY DEF Reload, Remounted, MountKeys, FreshKeys
<1>7. UNCHANGED backend /\ selected[d] # {}
  BY DEF Reload
<1> QED BY <1>2, <1>4, <1>5, <1>6, <1>7, NewForm

\* A step that changes call i alone of the page's state, and of the backend's no booking
\* but by adding to them.
LEMMA CallStep ==
  ASSUME DeskInv, UNCHANGED page, NEW i \in Calls, NEW c, call' = [call EXCEPT ![i] = c],
         Remains(c, call[i]), BookingsGrow,
         holder' \in [Seats -> Desks \cup {Nothing}], lapsed' \in SUBSET Seats
  PROVE  DeskInv'
<1>1. call' \in [Calls -> Call] /\ call'[i] = c /\ \A j \in Calls : j # i => call'[j] = call[j]
  BY DEF DeskInv, DeskTypeOK, Remains
<1>2. ASSUME NEW j \in Calls
      PROVE  Remains(call[j], call[j])
  <2>1. call[j] \in Call
    BY DEF DeskInv, DeskTypeOK
  <2>2. call[j].op = "book" /\ call[j].at = "done" => booking'[call[j].key].form # Nothing
    <3>1. call[j].op = "book" => call[j].key \in Keys
      BY <2>1 DEF DeskInv, CallsCarryTheirKey, DeskTypeOK
    <3> QED BY <3>1 DEF DeskInv, WaitedForByTheForm, BookingsGrow
  <2> QED BY <2>1, <2>2 DEF DeskInv, WaitedForByTheForm, Remains
<1> QED BY <1>1, <1>2, BackendStep

(* What the steps of the page make of a call. *)

LEMMA NewRemains ==
  ASSUME NEW d \in Desks, NEW op \in {"hold", "release", "drop"}, NEW seats \in SUBSET Seats, NEW b
  PROVE  Remains(New(d, op, seats, Nothing, Nothing), b)
<1> DEFINE new == New(d, op, seats, Nothing, Nothing)
<1> HIDE DEF new
<1>1. new \in Call /\ new.op = op /\ new.of = d /\ new.at = "way"
  <2>1. CASE op = "drop"
    <3>1. new = [of |-> d, op |-> op, seats |-> seats, key |-> Nothing, form |-> Nothing,
                 at |-> "way", heard |-> FALSE]
      BY <2>1, Zenon DEF new, New
    <3> QED BY <3>1 DEF Call
  <2>2. CASE op # "drop"
    <3>1. new = [of |-> d, op |-> op, seats |-> seats, key |-> Nothing, form |-> Nothing,
                 at |-> "way", heard |-> TRUE]
      BY <2>2, Zenon DEF new, New
    <3> QED BY <3>1 DEF Call
  <2> QED BY <2>1, <2>2
<1> QED BY <1>1, NothingIsNoKey DEF Remains, new

LEMMA AbandonedRemains ==
  ASSUME DeskInv, NEW i \in Calls, UNCHANGED booking
  PROVE  Remains(Abandoned(i), call[i])
<1>1. Remains(call[i], call[i])
  BY CallRemains
<1>2. CASE call[i].at = "way"
  <2> DEFINE left == [call[i] EXCEPT !.heard = FALSE]
  <2>1. Abandoned(i) = left
    BY <1>2 DEF Abandoned
  <2>2. /\ left \in Call /\ ~ left.heard /\ left.op = call[i].op /\ left.of = call[i].of
        /\ left.seats = call[i].seats /\ left.key = call[i].key /\ left.form = call[i].form
        /\ left.at = call[i].at
    BY <1>1 DEF Remains, Call
  <2> HIDE DEF left
  <2> QED BY <1>1, <1>2, <2>1, <2>2 DEF Remains
<1>3. CASE call[i].at # "way"
  <2>1. Abandoned(i) = NoCall
    BY <1>3 DEF Abandoned
  <2> QED BY <2>1, IdleRemains
<1> QED BY <1>2, <1>3

LEMMA AnswerRemains ==
  ASSUME DeskInv, NEW i \in Calls, NEW at \in {"done", "refused", "failed"}, BookingsGrow,
         call[i].op = "book" /\ at = "done" => booking'[call[i].key].form # Nothing
  PROVE  Remains(Answer(i, at), call[i])
<1>2. CASE call[i].heard
  <2> DEFINE left == [call[i] EXCEPT !.at = at]
  <2>1. Answer(i, at) = left
    BY <1>2 DEF Answer
  <2>2. /\ left \in Call /\ left.heard /\ left.op = call[i].op /\ left.of = call[i].of
        /\ left.seats = call[i].seats /\ left.key = call[i].key /\ left.form = call[i].form
        /\ left.at = at
    BY <1>2 DEF DeskInv, DeskTypeOK, Call
  <2> HIDE DEF left
  <2>3. left.of # Nothing
    BY <1>2, <2>2 DEF DeskInv, WaitedForByTheForm
  <2> QED BY <1>2, <2>1, <2>2, <2>3 DEF Remains
<1>3. CASE ~ call[i].heard
  <2>1. Answer(i, at) = NoCall
    BY <1>3 DEF Answer
  <2> QED BY <2>1, IdleRemains
<1> QED BY <1>2, <1>3

(* The steps. *)

LEMMA SubmitStep ==
  ASSUME DeskInv, NEW d \in Desks, NEW i \in Calls, Submit(d, i)
  PROVE  DeskInv'
<1> USE DEF DeskInv
<1> DEFINE sent == New(d, "book", selected[d], form[d], form[d])
<1>1. /\ form[d] # Nothing /\ form[d] \in Keys /\ form[d] \in used /\ ~ Pending(d)
      /\ UNCHANGED <<selected, form, holder, lapsed, booking>>
  BY DEF Submit, DeskTypeOK, FormsAskForTheirSeats, backend
<1>2. call' = [call EXCEPT ![i] = sent] /\ used' = used \cup {form[d]}
  BY DEF Submit, SubmitKeys
<1>4. /\ sent \in Call /\ sent.op = "book" /\ sent.of = d /\ sent.seats = selected[d]
      /\ sent.key = form[d] /\ sent.form = form[d] /\ sent.at = "way" /\ sent.heard
  BY <1>1 DEF New, DeskTypeOK, Call
<1> HIDE DEF sent
<1>5. /\ call' \in [Calls -> Call] /\ call'[i] = sent
      /\ \A j \in Calls : j # i => call'[j] = call[j]
      /\ used' = used
  BY <1>1, <1>2, <1>4 DEF DeskTypeOK
<1>6. DeskTypeOK'
  BY <1>1, <1>5 DEF DeskTypeOK
<1>7. CallsCarryTheirKey'
  BY <1>1, <1>4, <1>5, NothingIsNoKey DEF CallsCarryTheirKey
<1>8. FormsAskForTheirSeats'
  <2> SUFFICES ASSUME NEW e \in Desks, form[e] # Nothing
               PROVE  /\ form[e] \in used
                      /\ \A j \in Calls : call'[j].op = "book" /\ call'[j].key = form[e] =>
                           call'[j].of = e /\ call'[j].seats = selected[e]
                      /\ booking[form[e]].form # Nothing => booking[form[e]].seats = selected[e]
    BY <1>1, <1>5 DEF FormsAskForTheirSeats
  <2>1. sent.key = form[e] => d = e
    BY <1>1, <1>4 DEF FormsAreApart
  <2> QED BY <1>4, <1>5, <2>1 DEF FormsAskForTheirSeats
<1>9. FormsAreApart'
  BY <1>1 DEF FormsAreApart
<1>10. BookingsAreOfTheirForm'
  BY <1>1, <1>4, <1>5 DEF BookingsAreOfTheirForm, FormsAskForTheirSeats
<1>11. OneKeyOneOrder'
  <2>1. \A j \in Calls : call[j].op = "book" /\ call[j].key = sent.key => call[j].seats = sent.seats
    BY <1>1, <1>4 DEF FormsAskForTheirSeats
  <2> QED BY <1>5, <2>1 DEF OneKeyOneOrder
<1>12. WaitedForByTheForm'
  BY <1>1, <1>4, <1>5, NothingIsNoKey DEF WaitedForByTheForm
<1> QED BY <1>6, <1>7, <1>8, <1>9, <1>10, <1>11, <1>12

\* The steps of the page that are not submissions.
LEMMA PageStep ==
  ASSUME DeskInv, NEW i \in Calls,
         \/ \E d \in Desks : (\E s \in Seats : ClickSeat(d, s, i)) \/ Drop(d, i)
         \/ HoldAnswered(i) \/ ReleaseAnswered(i) \/ Booked(i) \/ NotBooked(i)
         \/ LoseAnswer(i) \/ ProxyTimeout(i) \/ NeverArrives(i)
  PROVE  DeskInv'
<1>0. UNCHANGED <<backend, booking>> /\ UNCHANGED <<holder, lapsed>>
  BY DEF ClickSeat, Drop, HoldAnswered, ReleaseAnswered, Booked, NotBooked, LoseAnswer,
         ProxyTimeout, NeverArrives, backend
<1>1. holder' \in [Seats -> Desks \cup {Nothing}] /\ lapsed' \in SUBSET Seats /\ BookingsGrow
  BY <1>0, BookingsKept DEF DeskInv, DeskTypeOK
<1>2. call[i] \in Call /\ selected \in [Desks -> SUBSET Seats]
  BY DEF DeskInv, DeskTypeOK
<1>3. Remains(NoCall, call[i]) /\ Remains(Abandoned(i), call[i])
  BY <1>0, IdleRemains, AbandonedRemains
<1>4. call[i].of # Nothing => call[i].of \in Desks
  BY <1>2 DEF Call
<1>5. /\ call[i].at \in {"done", "refused", "failed"} => call[i].heard
      /\ call[i].heard => call[i].of # Nothing
  BY DEF DeskInv, WaitedForByTheForm
<1>6. ASSUME NEW d \in Desks, NEW s \in Seats, ClickSeat(d, s, i)
      PROVE  DeskInv'
  <2> DEFINE c == New(d, IF s \in selected[d] THEN "release" ELSE "hold", {s}, Nothing, Nothing)
  <2>1. Remains(c, call[i])
    BY NewRemains
  <2>2. call' = [call EXCEPT ![i] = c] /\ UNCHANGED page
    BY <1>6 DEF ClickSeat
  <2> HIDE DEF c
  <2> QED BY <1>1, <2>1, <2>2, CallStep
<1>7. ASSUME NEW d \in Desks, Drop(d, i)
      PROVE  DeskInv'
  <2> DEFINE c == New(d, "drop", selected[d], Nothing, Nothing)
  <2>1. Remains(c, call[i])
    BY <1>2, NewRemains
  <2>2. Select(d, {}, i, c) /\ UNCHANGED backend
    BY <1>7 DEF Drop
  <2> HIDE DEF c
  <2> QED BY <2>1, <2>2, Selecting
<1>8. CASE HoldAnswered(i)
  <2> DEFINE d == call[i].of
             sel == IF call[i].at = "done" THEN selected[d] \cup call[i].seats ELSE selected[d]
  <2>1. d \in Desks /\ sel \in SUBSET Seats
    BY <1>2, <1>4, <1>5, <1>8 DEF HoldAnswered, Call
  <2>2. Select(d, sel, i, NoCall) /\ UNCHANGED backend
    BY <1>8 DEF HoldAnswered
  <2> HIDE DEF d, sel
  <2> QED BY <1>3, <2>1, <2>2, Selecting
<1>9. CASE ReleaseAnswered(i)
  <2> DEFINE d == call[i].of
             sel == IF call[i].at = "done" THEN selected[d] \ call[i].seats ELSE selected[d]
  <2>1. d \in Desks /\ sel \in SUBSET Seats
    BY <1>2, <1>4, <1>5, <1>9 DEF ReleaseAnswered, Call
  <2>2. Select(d, sel, i, NoCall) /\ UNCHANGED backend
    BY <1>9 DEF ReleaseAnswered
  <2> HIDE DEF d, sel
  <2> QED BY <1>3, <2>1, <2>2, Selecting
<1>10. CASE Booked(i)
  <2> DEFINE d == call[i].of
  <2>1. d \in Desks
    BY <1>4, <1>5, <1>10 DEF Booked
  <2>2. Select(d, {}, i, NoCall) /\ UNCHANGED backend
    BY <1>10 DEF Booked
  <2> HIDE DEF d
  <2> QED BY <1>3, <2>1, <2>2, Selecting
<1>11. CASE NotBooked(i)
  <2> DEFINE d == call[i].of
             sel == IF call[i].at = "refused" THEN {} ELSE selected[d]
  <2>1. d \in Desks /\ sel \in SUBSET Seats
    BY <1>2, <1>4, <1>5, <1>11 DEF NotBooked
  <2>2. Select(d, sel, i, NoCall) /\ UNCHANGED backend
    BY <1>11 DEF NotBooked
  <2> HIDE DEF d, sel
  <2> QED BY <1>3, <2>1, <2>2, Selecting
<1>12. CASE LoseAnswer(i)
  <2>1. call' = [call EXCEPT ![i] = Abandoned(i)] /\ UNCHANGED page
    BY <1>12 DEF LoseAnswer
  <2> QED BY <1>1, <1>3, <2>1, CallStep
<1>13. CASE ProxyTimeout(i)
  <2> DEFINE d == call[i].of
             sel == IF call[i].op = "book" THEN {} ELSE selected[d]
  <2>1. Select(d, sel, i, Abandoned(i)) /\ UNCHANGED backend
    BY <1>13 DEF ProxyTimeout
  <2>2. d \in Desks
    BY <1>2, <1>4, <1>5, <1>13 DEF ProxyTimeout, DeskInv, WaitedForByTheForm, Call
  <2>3. sel \in SUBSET Seats
    BY <1>2, <2>2
  <2> HIDE DEF d, sel
  <2> QED BY <1>3, <2>1, <2>2, <2>3, Selecting
<1>14. CASE NeverArrives(i)
  <2>1. call' = [call EXCEPT ![i] = NoCall] /\ UNCHANGED page
    BY <1>14 DEF NeverArrives
  <2> QED BY <1>1, <1>3, <2>1, CallStep
<1> QED BY <1>6, <1>7, <1>8, <1>9, <1>10, <1>11, <1>12, <1>13, <1>14

LEMMA FreedTyped ==
  ASSUME DeskInv, NEW seats, Freed(seats)
  PROVE  holder' \in [Seats -> Desks \cup {Nothing}] /\ lapsed' \in SUBSET Seats
  BY DEF DeskInv, DeskTypeOK, Freed

\* createBooking writes the booking its call asks for.
LEMMA CreateStep ==
  ASSUME DeskInv, NEW i \in Calls, CreateBooking(i)
  PROVE  DeskInv'
<1> DEFINE k == call[i].key
           row == [seats |-> call[i].seats, form |-> call[i].form, live |-> TRUE]
<1>1. call[i].op = "book" /\ booking[k].form = Nothing /\ UNCHANGED page
  BY DEF CreateBooking
<1>2. k \in Keys /\ call[i].form \in Keys /\ row \in Booking
  BY <1>1 DEF DeskInv, CallsCarryTheirKey, DeskTypeOK, Call, Booking
<1>3. CASE \A s \in call[i].seats : Claimable(call[i].of, s)
  <2>1. /\ booking' = [booking EXCEPT ![k] = row]
        /\ Freed(call[i].seats)
        /\ call' = [call EXCEPT ![i] = Answer(i, "done")]
    BY <1>3 DEF CreateBooking
  <2>2. row.form # Nothing
    BY <1>2, NothingIsNoKey
  <2>3. row.seats = call[i].seats /\ row.form = call[i].form
    OBVIOUS
  <2> HIDE DEF row
  <2>4. booking' \in [Keys -> Booking] /\ booking'[k] = row
        /\ \A l \in Keys : l # k => booking'[l] = booking[l]
    BY <1>2, <2>1 DEF DeskInv, DeskTypeOK
  <2>5. BookingsGrow
    BY <1>1, <2>2, <2>3, <2>4 DEF BookingsGrow
  <2>6. Remains(Answer(i, "done"), call[i])
    BY <2>2, <2>4, <2>5, AnswerRemains
  <2> QED BY <1>1, <2>1, <2>5, <2>6, FreedTyped, CallStep
<1>4. CASE ~ \A s \in call[i].seats : Claimable(call[i].of, s)
  <2>1. call' = [call EXCEPT ![i] = Answer(i, "refused")] /\ UNCHANGED <<holder, lapsed, booking>>
    BY <1>4 DEF CreateBooking, backend
  <2>2. BookingsGrow
    BY <2>1, BookingsKept
  <2>3. Remains(Answer(i, "refused"), call[i])
    BY <2>2, AnswerRemains
  <2>4. holder' \in [Seats -> Desks \cup {Nothing}] /\ lapsed' \in SUBSET Seats
    BY <2>1 DEF DeskInv, DeskTypeOK
  <2> QED BY <1>1, <2>1, <2>2, <2>3, <2>4, CallStep
<1> QED BY <1>3, <1>4

\* The other steps of the backend that a call causes.
LEMMA ServeStep ==
  ASSUME DeskInv, NEW i \in Calls,
         \/ Hold(i) \/ Release(i) \/ Replay(i) \/ Fail(i)
         \/ \E s \in Seats : ReleaseDropped(i, s)
  PROVE  DeskInv'
<1>1. UNCHANGED page /\ UNCHANGED booking
  BY DEF Hold, Release, Replay, Fail, ReleaseDropped, backend
<1>2. BookingsGrow
  BY <1>1, BookingsKept
<1>3. call[i] \in Call /\ holder \in [Seats -> Desks \cup {Nothing}] /\ lapsed \in SUBSET Seats
  BY DEF DeskInv, DeskTypeOK
<1>4. CASE Hold(i)
  <2>1. holder' \in [Seats -> Desks \cup {Nothing}] /\ lapsed' \in SUBSET Seats
    BY <1>3, <1>4 DEF Hold, Call
  <2>2. Remains(Answer(i, "done"), call[i]) /\ Remains(Answer(i, "refused"), call[i])
    BY <1>2, <1>4, AnswerRemains DEF Hold
  <2>3. \/ call' = [call EXCEPT ![i] = Answer(i, "done")]
        \/ call' = [call EXCEPT ![i] = Answer(i, "refused")]
    BY <1>4 DEF Hold
  <2> QED BY <1>1, <1>2, <2>1, <2>2, <2>3, CallStep
<1>5. CASE Release(i)
  <2>1. holder' \in [Seats -> Desks \cup {Nothing}] /\ lapsed' \in SUBSET Seats
    BY <1>5, FreedTyped DEF Release
  <2>2. Remains(Answer(i, "done"), call[i])
    BY <1>2, <1>5, AnswerRemains DEF Release
  <2>3. call' = [call EXCEPT ![i] = Answer(i, "done")]
    BY <1>5 DEF Release
  <2> QED BY <1>1, <1>2, <2>1, <2>2, <2>3, CallStep
<1>6. CASE Replay(i)
  <2>1. holder' \in [Seats -> Desks \cup {Nothing}] /\ lapsed' \in SUBSET Seats
    BY <1>3, <1>6 DEF Replay, backend
  <2>2. booking'[call[i].key].form # Nothing
    BY <1>1, <1>6 DEF Replay
  <2>3. Remains(Answer(i, "done"), call[i])
    BY <1>2, <2>2, AnswerRemains
  <2>4. call' = [call EXCEPT ![i] = Answer(i, "done")]
    BY <1>6 DEF Replay
  <2> QED BY <1>1, <1>2, <2>1, <2>3, <2>4, CallStep
<1>7. CASE Fail(i)
  <2>1. holder' \in [Seats -> Desks \cup {Nothing}] /\ lapsed' \in SUBSET Seats
    BY <1>3, <1>7 DEF Fail, backend
  <2>2. Remains(Answer(i, "failed"), call[i])
    BY <1>2, AnswerRemains
  <2>3. call' = [call EXCEPT ![i] = Answer(i, "failed")]
    BY <1>7 DEF Fail
  <2> QED BY <1>1, <1>2, <2>1, <2>2, <2>3, CallStep
<1>8. ASSUME NEW s \in Seats, ReleaseDropped(i, s)
      PROVE  DeskInv'
  <2>1. holder' \in [Seats -> Desks \cup {Nothing}] /\ lapsed' \in SUBSET Seats
    BY <1>8, FreedTyped DEF ReleaseDropped
  <2> DEFINE left == [call[i] EXCEPT !.seats = call[i].seats \ {s}]
  <2>2. CASE call[i].seats = {s}
    <3>1. call' = [call EXCEPT ![i] = NoCall]
      BY <1>8, <2>2 DEF ReleaseDropped
    <3> QED BY <1>1, <1>2, <2>1, <3>1, IdleRemains, CallStep
  <2>3. CASE call[i].seats # {s}
    <3>1. call' = [call EXCEPT ![i] = left]
      BY <1>8, <2>3 DEF ReleaseDropped
    <3>2. /\ left \in Call /\ left.op = "drop" /\ left.at = call[i].at
          /\ left.heard = call[i].heard /\ left.of = call[i].of
      BY <1>3, <1>8 DEF ReleaseDropped, Call
    <3> HIDE DEF left
    <3>3. Remains(left, call[i])
      BY <3>2 DEF Remains, DeskInv, WaitedForByTheForm
    <3> QED BY <1>1, <1>2, <2>1, <3>1, <3>3, CallStep
  <2> QED BY <2>2, <2>3
<1> QED BY <1>4, <1>5, <1>6, <1>7, <1>8

LEMMA ClockStep ==
  ASSUME DeskInv, (\E s \in Seats : HoldLapses(s)) \/ Sweep \/ \E k \in Keys : Cancel(k)
  PROVE  DeskInv'
<1>1. UNCHANGED page /\ call' = call
  BY DEF HoldLapses, Sweep, Cancel
<1>2. holder' \in [Seats -> Desks \cup {Nothing}] /\ lapsed' \in SUBSET Seats
  BY FreedTyped DEF DeskInv, DeskTypeOK, HoldLapses, Sweep, Cancel
<1>3. /\ BookingsGrow
      /\ \A k \in Keys : booking'[k].form = booking[k].form
  <2>1. CASE UNCHANGED booking
    BY <2>1, BookingsKept
  <2>2. ASSUME NEW k \in Keys, Cancel(k)
        PROVE  <1>3
    BY <2>2 DEF Cancel, DeskInv, DeskTypeOK, Booking, BookingsGrow
  <2> QED BY <2>1, <2>2 DEF HoldLapses, Sweep
<1>4. call' \in [Calls -> Call] /\ \A i \in Calls : Remains(call'[i], call[i])
  BY <1>1, <1>3 DEF DeskInv, DeskTypeOK, WaitedForByTheForm, CallsCarryTheirKey, Remains, Call
<1> QED BY <1>1, <1>2, <1>3, <1>4, BackendStep

LEMMA Stutter == ASSUME DeskInv, UNCHANGED deskVars PROVE DeskInv'
  BY DEF deskVars, DeskInv, DeskTypeOK, CallsCarryTheirKey, FormsAskForTheirSeats, FormsAreApart,
         BookingsAreOfTheirForm, OneKeyOneOrder, WaitedForByTheForm

LEMMA NextKeepsIInv == DeskInv /\ [DeskNext]_deskVars => DeskInv'
<1> SUFFICES ASSUME DeskInv, [DeskNext]_deskVars PROVE DeskInv'
  OBVIOUS
<1>1. ASSUME NEW i \in Calls, NEW d \in Desks, Submit(d, i) PROVE DeskInv'
  BY <1>1, SubmitStep
<1>2. ASSUME NEW i \in Calls,
             \/ \E d \in Desks : (\E s \in Seats : ClickSeat(d, s, i)) \/ Drop(d, i)
             \/ HoldAnswered(i) \/ ReleaseAnswered(i) \/ Booked(i) \/ NotBooked(i)
             \/ LoseAnswer(i) \/ ProxyTimeout(i) \/ NeverArrives(i)
      PROVE  DeskInv'
  BY <1>2, PageStep
<1>3. ASSUME NEW i \in Calls, CreateBooking(i) PROVE DeskInv'
  BY <1>3, CreateStep
<1>4. ASSUME NEW i \in Calls,
             \/ Hold(i) \/ Release(i) \/ Replay(i) \/ Fail(i)
             \/ \E s \in Seats : ReleaseDropped(i, s)
      PROVE  DeskInv'
  BY <1>4, ServeStep
<1>5. ASSUME NEW d \in Desks, Reload(d) PROVE DeskInv'
  BY <1>5, ReloadStep
<1>6. CASE (\E s \in Seats : HoldLapses(s)) \/ Sweep \/ \E k \in Keys : Cancel(k)
  BY <1>6, ClockStep
<1>7. CASE UNCHANGED deskVars
  BY <1>7, Stutter
<1> QED BY <1>1, <1>2, <1>3, <1>4, <1>5, <1>6, <1>7 DEF DeskNext

LEMMA InitIInv == DeskInit => DeskInv
<1> SUFFICES ASSUME DeskInit PROVE DeskInv
  OBVIOUS
<1>1. \A i \in Calls : call[i] = NoCall
  BY DEF DeskInit
<1>2. NoCall \in Call /\ NoCall.op = "none" /\ ~ NoCall.heard /\ NoCall.at = "none"
  BY DEF NoCall, Call
<1>3. DeskTypeOK
  BY <1>2 DEF DeskInit, DeskTypeOK, Booking, NoBooking
<1>4. \A k \in Keys : booking[k].form = Nothing
  BY DEF DeskInit, NoBooking
<1> QED BY <1>1, <1>2, <1>3, <1>4
        DEF DeskInit, DeskInv, CallsCarryTheirKey, FormsAskForTheirSeats, FormsAreApart,
            BookingsAreOfTheirForm, OneKeyOneOrder, WaitedForByTheForm

(* Theorems. *)

\* The invariant that keeps the forms, their keys, their calls and the bookings together.
THEOREM DeskInvariant == DeskSpec => []DeskInv
BY InitIInv, NextKeepsIInv, PTL DEF DeskSpec

\* Whatever the calls, their losses and their delays, the booking a form is answered with
\* has the seats selected at the desk (bookings-feature.tsx:160, bookings.service.ts:144).
THEOREM TicketsAreAsAsked == DeskSpec => []ShownIsAsked
<1>1. DeskInv => ShownIsAsked
  <2> SUFFICES ASSUME DeskInv, NEW i \in Calls, call[i].op = "book", call[i].at = "done"
               PROVE  /\ booking[call[i].key].form # Nothing
                      /\ booking[call[i].key].seats = selected[call[i].of]
    BY DEF ShownIsAsked
  <2>1. call[i].heard /\ booking[call[i].key].form # Nothing
    BY DEF DeskInv, WaitedForByTheForm
  <2>2. call[i].of \in Desks /\ call[i].key = form[call[i].of] /\ call[i].key # Nothing
    BY <2>1 DEF DeskInv, DeskTypeOK, Call, WaitedForByTheForm, CallsCarryTheirKey
  <2> QED BY <2>1, <2>2 DEF DeskInv, FormsAskForTheirSeats
<1> QED BY <1>1, DeskInvariant, PTL

(* Who refuses a booking. *)

\* The page turns no call into a refused one.
LEMMA SelectRefusesNone ==
  ASSUME DeskInv, NEW d, NEW sel, NEW i \in Calls, NEW c, c.at # "refused", Select(d, sel, i, c),
         NEW j \in Calls, call[j].at # "refused"
  PROVE  call'[j].at # "refused"
<1> DEFINE calls == [call EXCEPT ![i] = c]
<1>1. calls[j].at # "refused"
  BY DEF DeskInv, DeskTypeOK
<1>2. call' = calls \/ Remounted(d, sel, calls)
  BY DEF Select
<1> HIDE DEF calls
<1>3. CASE Remounted(d, sel, calls)
  <2>1. call'[j] = Unheard(d, calls[j])
    BY <1>3 DEF Remounted
  <2>2. CASE calls[j].of = d /\ calls[j].op = "book" /\ calls[j].heard
    BY <2>1, <2>2 DEF Unheard, NoCall
  <2>3. CASE ~ (calls[j].of = d /\ calls[j].op = "book" /\ calls[j].heard)
    BY <1>1, <2>1, <2>3 DEF Unheard
  <2> QED BY <2>2, <2>3
<1> QED BY <1>1, <1>2, <1>3

LEMMA OneCallRefusesNone ==
  ASSUME DeskInv, NEW i \in Calls, NEW c, call' = [call EXCEPT ![i] = c],
         NEW j \in Calls, call[j].at # "refused", i = j => c.at # "refused"
  PROVE  call'[j].at # "refused"
  BY DEF DeskInv, DeskTypeOK

LEMMA AbandonedIsNotRefused ==
  ASSUME DeskInv, NEW i \in Calls
  PROVE  Abandoned(i).at # "refused"
<1>1. CASE call[i].at = "way"
  <2> DEFINE left == [call[i] EXCEPT !.heard = FALSE]
  <2>1. Abandoned(i) = left
    BY <1>1 DEF Abandoned
  <2>2. left.at = "way"
    BY <1>1 DEF DeskInv, DeskTypeOK, Call
  <2> QED BY <2>1, <2>2
<1>2. CASE call[i].at # "way"
  BY <1>2 DEF Abandoned, NoCall
<1> QED BY <1>1, <1>2

LEMMA AnswerIsNotRefused ==
  ASSUME DeskInv, NEW i \in Calls, NEW at \in {"done", "failed"}
  PROVE  Answer(i, at).at # "refused"
<1>1. CASE call[i].heard
  <2> DEFINE left == [call[i] EXCEPT !.at = at]
  <2>1. Answer(i, at) = left
    BY <1>1 DEF Answer
  <2>2. left.at = at
    BY DEF DeskInv, DeskTypeOK, Call
  <2> QED BY <2>1, <2>2
<1>2. CASE ~ call[i].heard
  BY <1>2 DEF Answer, NoCall
<1> QED BY <1>1, <1>2

LEMMA OnlyCreateBookingRefuses ==
  ASSUME DeskInv, DeskNext, NEW j \in Calls,
         call[j].op = "book", call[j].at = "way", call'[j].at = "refused"
  PROVE  CreateBooking(j)
<1> USE DEF New, NoCall
<1>1. ASSUME NEW i \in Calls, NEW d \in Desks, NEW s \in Seats, ClickSeat(d, s, i) PROVE FALSE
  <2>1. PICK op : call' = [call EXCEPT ![i] = New(d, op, {s}, Nothing, Nothing)]
    BY <1>1 DEF ClickSeat
  <2> QED BY <2>1, OneCallRefusesNone
<1>2. ASSUME NEW i \in Calls, NEW d \in Desks, Submit(d, i) PROVE FALSE
  <2>1. PICK k : call' = [call EXCEPT ![i] = New(d, "book", selected[d], k, form[d])]
    BY <1>2 DEF Submit
  <2> QED BY <2>1, OneCallRefusesNone
<1>3. ASSUME NEW i \in Calls, NEW d \in Desks, Drop(d, i) PROVE FALSE
  BY <1>3, SelectRefusesNone DEF Drop
<1>4. ASSUME NEW i \in Calls, HoldAnswered(i) \/ ReleaseAnswered(i) \/ Booked(i) \/ NotBooked(i)
      PROVE  FALSE
  <2>1. PICK d, sel : Select(d, sel, i, NoCall)
    BY <1>4 DEF HoldAnswered, ReleaseAnswered, Booked, NotBooked
  <2> QED BY <2>1, SelectRefusesNone
<1>5. ASSUME NEW i \in Calls, LoseAnswer(i) \/ NeverArrives(i) PROVE FALSE
  BY <1>5, OneCallRefusesNone, AbandonedIsNotRefused DEF LoseAnswer, NeverArrives
<1>6. ASSUME NEW i \in Calls, ProxyTimeout(i) PROVE FALSE
  BY <1>6, SelectRefusesNone, AbandonedIsNotRefused DEF ProxyTimeout
<1>7. ASSUME NEW i \in Calls, Hold(i) PROVE FALSE
  <2>1. call[i].op # call[j].op
    BY <1>7 DEF Hold
  <2>2. PICK c : call' = [call EXCEPT ![i] = c]
    BY <1>7 DEF Hold
  <2> QED BY <2>1, <2>2, OneCallRefusesNone
<1>8. ASSUME NEW i \in Calls, Release(i) \/ Replay(i) \/ Fail(i) PROVE FALSE
  BY <1>8, OneCallRefusesNone, AnswerIsNotRefused DEF Release, Replay, Fail
<1>9. ASSUME NEW i \in Calls, NEW s \in Seats, ReleaseDropped(i, s) PROVE FALSE
  <2>1. call[i].op # call[j].op
    BY <1>9 DEF ReleaseDropped
  <2>2. PICK c : call' = [call EXCEPT ![i] = c]
    BY <1>9 DEF ReleaseDropped
  <2> QED BY <2>1, <2>2, OneCallRefusesNone
<1>10. ASSUME NEW d \in Desks, Reload(d) PROVE FALSE
  <2>1. call'[j] = Unheard(d, call[j])
    BY <1>10 DEF Reload, Remounted
  <2>2. CASE call[j].of = d /\ call[j].heard
    <3>1. call'[j] = [call[j] EXCEPT !.heard = FALSE]
      BY <2>1, <2>2 DEF Unheard
    <3> QED BY <3>1 DEF DeskInv, DeskTypeOK, Call
  <2>3. CASE ~ (call[j].of = d /\ call[j].heard)
    BY <2>1, <2>3 DEF Unheard
  <2> QED BY <2>2, <2>3
<1>11. ASSUME (\E s \in Seats : HoldLapses(s)) \/ Sweep \/ \E k \in Keys : Cancel(k) PROVE FALSE
  BY <1>11 DEF HoldLapses, Sweep, Cancel
<1>12. PICK i \in Calls : CreateBooking(i)
  BY <1>1, <1>2, <1>3, <1>4, <1>5, <1>6, <1>7, <1>8, <1>9, <1>10, <1>11 DEF DeskNext
<1>13. i = j
  <2>1. PICK c : call' = [call EXCEPT ![i] = c]
    BY <1>12 DEF CreateBooking
  <2> QED BY <2>1, OneCallRefusesNone
<1> QED BY <1>12, <1>13

\* A form that has bought its seats is never refused because they are sold: every
\* submission of it, first or retry, carries the key createBooking replays.
THEOREM RetriesAreReplayed == DeskSpec => NotRefusedByItself
<1> DEFINE Fine == \A i \in Calls :
             call[i].at = "way" /\ call'[i].at = "refused" /\ call[i].op = "book" =>
               \A k \in Keys : booking[k].form # call[i].form
<1>1. DeskInv /\ [DeskNext]_deskVars => [Fine]_deskVars
  <2> SUFFICES ASSUME DeskInv, DeskNext, NEW i \in Calls, call[i].at = "way", call'[i].at = "refused",
                      call[i].op = "book", NEW k \in Keys
               PROVE  booking[k].form # call[i].form
    OBVIOUS
  <2>1. call[i].key = call[i].form /\ call[i].form # Nothing
    BY DEF DeskInv, CallsCarryTheirKey
  <2>2. booking[call[i].key].form = Nothing
    BY OnlyCreateBookingRefuses DEF CreateBooking
  <2> QED BY <2>1, <2>2 DEF DeskInv, BookingsAreOfTheirForm
<1> QED BY <1>1, DeskInvariant, PTL DEF DeskSpec, NotRefusedByItself
===============================================================================
