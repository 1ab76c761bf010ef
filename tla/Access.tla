-------------------------------- MODULE Access --------------------------------
(***************************************************************************)
(* Who may do what: signing in with the lock after repeated failures, the  *)
(* guards of every request, and the administration of users and roles.     *)
(*                                                                         *)
(* A request of an administrator is one database transaction              *)
(* (PrismaService.withTenantContext): it is authenticated, checks what it  *)
(* was asked against the permissions read then, writes, records the change *)
(* in audit_logs and commits.  Signing in is not: each of its calls is a   *)
(* transaction of its own, and the password is compared between two.       *)
(* tx[w] is what the request served by w has read and written; until it    *)
(* commits, a write holds its row and is seen by nobody.  Any request may  *)
(* be lost before its commit (Abort).                                      *)
(***************************************************************************)
EXTENDS Integers

CONSTANTS
  Organizations,
  Users,        \* users, named by their e-mail address
  Roles,        \* ids of roles
  Workers,      \* requests the backend serves at the same time
  Permissions,  \* permissions this instance knows
  Grants,       \* sets of permissions a new role is asked to have
  Changes,      \* new role (None: the same) and new active of a change
  SeededRoles,  \* rows of roles before any administrator acts
  SeededUsers,  \* organization and role of the first users
  Limit,        \* failures that lock an account
  Mistaken,     \* bound: users whose password is mistyped
  MaxAttempts,  \* bound: failures counted on one account
  None

Permission == [domain : STRING, action : STRING, own : BOOLEAN]
All == [domain |-> "*", action |-> "*", own |-> FALSE]
SettingsWrite == [domain |-> "settings", action |-> "write", own |-> FALSE]

ASSUME NoneIsNothing == None \notin Organizations \cup Users \cup Roles
ASSUME PermissionsAreTyped == Permissions \subseteq Permission
ASSUME GrantsArePermissions == Grants \subseteq SUBSET Permissions
ASSUME ChangesAreTyped == Changes \subseteq (Roles \cup {None}) \X {"same", "on", "off"}
ASSUME LimitIsPositive == Limit \in Nat \ {0} /\ MaxAttempts \in Nat
ASSUME SeedIsTyped ==
  /\ SeededRoles \in [Roles -> [exists : BOOLEAN, org : Organizations \cup {None},
                                perms : SUBSET Permissions]]
  /\ SeededUsers \in [Users -> [org : Organizations \cup {None}, role : Roles \cup {None}]]
ASSUME SeedIsConsistent ==
  \A u \in Users : SeededUsers[u].org # None =>
    /\ SeededUsers[u].role # None
    /\ SeededRoles[SeededUsers[u].role].exists
    /\ SeededRoles[SeededUsers[u].role].org \in {None, SeededUsers[u].org}

VARIABLES
  user,     \* users rows, with the failures counted and the lock
  role,     \* roles rows: organization (None: of all), permissions
  audit,    \* audit_logs: what was recorded of whom
  session,  \* users who were given an access token
  tx,       \* what each request in progress has read and written
  tries     \* history: wrong passwords since the last right one

vars == <<user, role, audit, session, tx, tries>>

Idle == [op |-> "idle", kind |-> "none", by |-> None, org |-> None, perms |-> {},
         on |-> None, role |-> None, wants |-> {}, active |-> "same", seen |-> 0]

\* A user who was just created; NoUser while there is no row.
NewUser(org, r) == [exists |-> TRUE, org |-> org, role |-> r, active |-> TRUE,
                    attempts |-> 0, lock |-> "none"]
NoUser == [NewUser(None, None) EXCEPT !.exists = FALSE]

UserRow == [exists : BOOLEAN, org : Organizations \cup {None}, role : Roles \cup {None},
            active : BOOLEAN, attempts : Nat, lock : {"none", "locked", "past"}]
RoleRow == [exists : BOOLEAN, org : Organizations \cup {None}, perms : SUBSET Permissions]
Request == [op : {"idle", "password", "signed", "admin", "checked", "written"},
            kind : {"none", "role", "user", "change"},
            by : Users \cup {None}, org : Organizations \cup {None},
            perms : SUBSET Permissions, on : Users \cup Roles \cup {None},
            role : Roles \cup {None}, wants : SUBSET Permissions,
            active : {"same", "on", "off"}, seen : Nat]
Entry == [of : Users \cup Roles, kind : {"login", "role", "user", "change"}]

TypeOK ==
  /\ user \in [Users -> UserRow]
  /\ role \in [Roles -> RoleRow]
  /\ audit \subseteq Entry
  /\ session \subseteq Users
  /\ tx \in [Workers -> Request]
  /\ tries \in [Users -> Nat]

Init ==
  /\ user = [u \in Users |-> IF SeededUsers[u].org = None THEN NoUser
                             ELSE NewUser(SeededUsers[u].org, SeededUsers[u].role)]
  /\ role = SeededRoles
  /\ audit = {}
  /\ session = {}
  /\ tx = [w \in Workers |-> Idle]
  /\ tries = [u \in Users |-> 0]

-----------------------------------------------------------------------------
(* Permissions *)

Wide(p) == [domain |-> p.domain, action |-> "*", own |-> FALSE]
Broader(p) == [p EXCEPT !.own = FALSE]

\* hasPermission of PermissionsGuard.
Has(perms, p) == All \in perms \/ p \in perms \/ Wide(p) \in perms

\* canGrantPermissions: nobody gives more than what he has.
CanGrant(perms, wanted) ==
  \/ All \in perms
  \/ \A p \in wanted :
       /\ p # All
       /\ p \in perms \/ Wide(p) \in perms \/ (p.own /\ Broader(p) \in perms)

\* Mutation of Grantable: the permissions of the role are not looked at.
GrantableToAll(w, r) == TRUE

\* validateRefs and ensureGrantablePermissions.
Grantable(w, r) == CanGrant(tx[w].perms, role[r].perms)

\* Mutation of Visible: roles are looked up without their organization.
Anywhere(r, org) == role[r].exists

Visible(r, org) == role[r].exists /\ role[r].org \in {None, org}

-----------------------------------------------------------------------------
(* Signing in *)

Uncommitted(w) == tx[w].op = "written"

\* A row written by a transaction in progress is locked until its end.
Locked(row) == \E w \in Workers : Uncommitted(w) /\ tx[w].on = row

\* findAuthUserByEmail and the checks before the password.
SignInRead(w, u) ==
  /\ tx[w] = Idle
  /\ user[u].exists
  /\ user[u].active
  /\ user[u].lock # "locked"
  /\ tx' = [tx EXCEPT ![w] = [Idle EXCEPT !.op = "password", !.on = u,
                                          !.seen = user[u].attempts]]
  /\ UNCHANGED <<user, role, audit, session, tries>>

\* Mutation of Counted: the count that was read before the comparison.
CountedAtLookup(w, u) == tx[w].seen

\* auth_record_failed_login adds to the row, whatever the request has read.
Counted(w, u) == user[u].attempts

SignInWrong(w, u) ==
  /\ tx[w].op = "password"
  /\ tx[w].on = u
  /\ u \in Mistaken
  /\ user[u].attempts < MaxAttempts
  /\ ~ Locked(u)
  /\ LET attempts == Counted(w, u) + 1
     IN user' = [user EXCEPT ![u].attempts = attempts,
                             ![u].lock = IF attempts >= Limit THEN "locked" ELSE @]
  /\ tries' = [tries EXCEPT ![u] = @ + 1]
  /\ tx' = [tx EXCEPT ![w] = Idle]
  /\ UNCHANGED <<role, audit, session>>

SignInRight(w, u) ==
  /\ tx[w].op = "password"
  /\ tx[w].on = u
  /\ ~ Locked(u)
  /\ user' = [user EXCEPT ![u].attempts = 0, ![u].lock = "none"]
  /\ tries' = [tries EXCEPT ![u] = 0]
  /\ tx' = [tx EXCEPT ![w].op = "signed", ![w].seen = 0]
  /\ UNCHANGED <<role, audit, session>>

\* The entry of the log has a transaction of its own; then the token is given.
SignInAudited(w, u) ==
  /\ tx[w].op = "signed"
  /\ tx[w].on = u
  /\ audit' = audit \cup {[of |-> u, kind |-> "login"]}
  /\ session' = session \cup {u}
  /\ tx' = [tx EXCEPT ![w] = Idle]
  /\ UNCHANGED <<user, role, tries>>

\* The 15 minutes are over: the lock is past, the count stays.
LockExpires(u) ==
  /\ user[u].lock = "locked"
  /\ user' = [user EXCEPT ![u].lock = "past"]
  /\ UNCHANGED <<role, audit, session, tx, tries>>

-----------------------------------------------------------------------------
(* Administration *)

\* JwtAuthGuard reads the user again, PermissionsGuard asks for
\* settings.write, TenantRlsInterceptor opens the transaction.
Authenticate(w, u) ==
  /\ tx[w] = Idle
  /\ u \in session
  /\ user[u].active
  /\ Has(role[user[u].role].perms, SettingsWrite)
  /\ tx' = [tx EXCEPT ![w] = [Idle EXCEPT !.op = "admin", !.by = u, !.org = user[u].org,
                                          !.perms = role[user[u].role].perms]]
  /\ UNCHANGED <<user, role, audit, session, tries>>

\* The rows after the commit of w.
RolesAfter(w) ==
  IF tx[w].kind # "role" THEN role
  ELSE [role EXCEPT ![tx[w].on] =
          [exists |-> TRUE, org |-> tx[w].org, perms |-> tx[w].wants]]

Changed(w, row) ==
  [row EXCEPT !.role = IF tx[w].role # None THEN tx[w].role ELSE @,
              !.active = IF tx[w].active = "same" THEN @ ELSE tx[w].active = "on"]

UsersAfter(w) ==
  CASE tx[w].kind = "user" ->
         [user EXCEPT ![tx[w].on] = NewUser(tx[w].org, tx[w].role)]
    [] tx[w].kind = "change" -> [user EXCEPT ![tx[w].on] = Changed(w, @)]
    [] OTHER -> user

\* Mutation of Write: the $transaction of a service is one of its own.
WriteAndCommit(w, row) ==
  /\ ~ Locked(row)
  /\ tx' = [tx EXCEPT ![w].op = "written"]
  /\ user' = UsersAfter(w)
  /\ role' = RolesAfter(w)
  /\ UNCHANGED <<audit, session, tries>>

\* Inside a request, $transaction runs in the transaction of the request.
Write(w, row) ==
  /\ ~ Locked(row)
  /\ tx' = [tx EXCEPT ![w].op = "written"]
  /\ UNCHANGED <<user, role, audit, session, tries>>

Check(w, kind, on, r, wants, active) ==
  /\ tx' = [tx EXCEPT ![w].op = "checked", ![w].kind = kind, ![w].on = on,
                      ![w].role = r, ![w].wants = wants, ![w].active = active]
  /\ UNCHANGED <<user, role, audit, session, tries>>

CreateRoleRead(w, r, wants) ==
  /\ tx[w].op = "admin"
  /\ CanGrant(tx[w].perms, wants)
  /\ Check(w, "role", r, None, wants, "same")

\* findUnique sees the users of the organization only.
CreateUserRead(w, u, r) ==
  /\ tx[w].op = "admin"
  /\ Visible(r, tx[w].org)
  /\ Grantable(w, r)
  /\ ~ (user[u].exists /\ user[u].org = tx[w].org)
  /\ Check(w, "user", u, r, {}, "same")

\* New roles have new ids, e-mail addresses are unique in the whole table.
InsertWrite(w, row) ==
  /\ tx[w].op = "checked"
  /\ tx[w].on = row
  /\ \/ tx[w].kind = "role" /\ row \in Roles /\ ~ role[row].exists
     \/ tx[w].kind = "user" /\ row \in Users /\ ~ user[row].exists
  /\ Write(w, row)

\* A change of the role, of active, or of both; r is None for no new role.
UpdateUserRead(w, u, r, active) ==
  /\ tx[w].op = "admin"
  /\ user[u].exists
  /\ user[u].org = tx[w].org
  /\ ~ (u = tx[w].by /\ active = "off")
  /\ r # None => Visible(r, tx[w].org) /\ Grantable(w, r)
  /\ Check(w, "change", u, r, {}, active)

UpdateUserWrite(w, u) ==
  /\ tx[w].op = "checked"
  /\ tx[w].kind = "change"
  /\ tx[w].on = u
  /\ Write(w, u)

\* audit.log writes its entry in the same transaction, which then commits.
Commit(w) ==
  /\ Uncommitted(w)
  /\ user' = UsersAfter(w)
  /\ role' = RolesAfter(w)
  /\ audit' = audit \cup {[of |-> tx[w].on, kind |-> tx[w].kind]}
  /\ tx' = [tx EXCEPT ![w] = Idle]
  /\ UNCHANGED <<session, tries>>

\* A refusal, an error, or the 30 seconds of the transaction are over: what
\* is left of the handler finds its transaction closed.
Abort(w) ==
  /\ tx[w] # Idle
  /\ tx' = [tx EXCEPT ![w] = Idle]
  /\ UNCHANGED <<user, role, audit, session, tries>>

-----------------------------------------------------------------------------

SigningIn(w) ==
  \E u \in Users :
    SignInRead(w, u) \/ SignInWrong(w, u) \/ SignInRight(w, u) \/ SignInAudited(w, u)

Administering(w) ==
  \/ \E u \in Users : Authenticate(w, u)
  \/ \E r \in Roles, wants \in Grants : CreateRoleRead(w, r, wants)
  \/ \E u \in Users, r \in Roles : CreateUserRead(w, u, r)
  \/ \E row \in Users \cup Roles : InsertWrite(w, row)
  \/ \E u \in Users, change \in Changes : UpdateUserRead(w, u, change[1], change[2])
  \/ \E u \in Users : UpdateUserWrite(w, u)
  \/ Commit(w)

Next ==
  \/ \E w \in Workers : SigningIn(w) \/ Administering(w) \/ Abort(w)
  \/ \E u \in Users : LockExpires(u)

Spec == Init /\ [][Next]_vars

-----------------------------------------------------------------------------
(* Properties *)

\* What some first user of the organization could grant.
Covered(org, perms) ==
  \E u \in Users :
    /\ SeededUsers[u].org = org
    /\ SeededUsers[u].role # None
    /\ CanGrant(SeededRoles[SeededUsers[u].role].perms, perms)

\* However administrators create roles, create users and change each other,
\* and whatever changed between a check and its write, no user has a
\* permission that the first users of the organization did not have.
GrantsAreCovered ==
  \A u \in Users : user[u].exists => Covered(user[u].org, role[user[u].role].perms)

\* Every session, every role that is not as it was seeded, every user created and
\* every user whose role or active flag was changed is in the log: such a change is
\* never kept without its entry.
NothingUnaudited ==
  /\ \A u \in session : [of |-> u, kind |-> "login"] \in audit
  /\ \A r \in Roles : role[r] # SeededRoles[r] => [of |-> r, kind |-> "role"] \in audit
  /\ \A u \in Users : user[u].exists =>
       \/ /\ SeededUsers[u].org # None
          /\ user[u].role = SeededUsers[u].role
          /\ user[u].active
       \/ \E kind \in {"user", "change"} : [of |-> u, kind |-> kind] \in audit

\* However many attempts overlap, each failure after the limit leaves the
\* account locked: no failure is lost to another one counted meanwhile.
LockedAtLimit ==
  [][\A u \in Users :
       tries'[u] > tries[u] /\ tries'[u] >= Limit => user'[u].lock = "locked"]_vars

\* An account is counted as often as it failed, and locked from the limit on.
CountsAgree ==
  \A u \in Users :
    /\ user[u].attempts = tries[u]
    /\ user[u].lock # "none" => tries[u] >= Limit
    /\ user[u].lock = "none" => tries[u] < Limit
    /\ ~ user[u].exists => tries[u] = 0

\* Users have roles of their own organization, or of all.
RolesAreOwn ==
  \A u \in Users : user[u].exists =>
    /\ user[u].org # None
    /\ user[u].role # None
    /\ role[user[u].role].exists
    /\ role[user[u].role].org \in {None, user[u].org}

\* A request relies on what it has checked until its commit.
RequestOK(w) ==
  LET t == tx[w] IN
  /\ t.op \in {"password", "signed"} => t.on \in Users /\ user[t.on].exists
  /\ t.op \in {"admin", "checked", "written"} =>
       t.org # None /\ Covered(t.org, t.perms)
  /\ t.op \in {"checked", "written"} =>
       /\ t.kind = "role" => t.on \in Roles
       /\ t.kind = "user" => t.on \in Users /\ t.role # None
       /\ t.kind = "change" => t.on \in Users /\ user[t.on].exists /\ user[t.on].org = t.org
       /\ t.kind # "none"
       /\ t.role # None => /\ role[t.role].exists
                           /\ role[t.role].org \in {None, t.org}
                           /\ CanGrant(t.perms, role[t.role].perms)
  /\ Uncommitted(w) =>
       /\ t.kind = "role" => ~ role[t.on].exists
       /\ t.kind = "user" => ~ user[t.on].exists
       /\ \A v \in Workers \ {w} : Uncommitted(v) => tx[v].on # t.on

\* The inductive invariant.
IInv ==
  /\ TypeOK
  /\ CountsAgree
  /\ RolesAreOwn
  /\ GrantsAreCovered
  /\ NothingUnaudited
  /\ session \subseteq {u \in Users : user[u].exists}
  /\ \A w \in Workers : RequestOK(w)
===============================================================================
