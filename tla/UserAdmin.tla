------------------------------ MODULE UserAdmin ------------------------------
(***************************************************************************)
(* Accounts, roles and requests for an account.  Every call of the API     *)
(* reads documents, decides and writes one of them back, and between two   *)
(* calls to the store any other call may run: there are no transactions    *)
(* and no versions, only the filters of the updates and two unique         *)
(* indexes.                                                                *)
(*                                                                         *)
(* A call that is refused, fails, or dies with the server ends without     *)
(* another write (Stop), at any of its steps.                              *)
(***************************************************************************)
EXTENDS Naturals, FiniteSets

CONSTANTS
    Ids,            \* documents of users, stored or not yet
    Root,           \* the account that the seeds create
    Names,          \* user names, in lower case
    Roles,          \* documents of roles
    SuperRole,      \* the role that the seeds create
    RoleNames,      \* names of roles as they are spelled
    Super,          \* SUPERADMIN
    Fold,           \* what EqualFold makes of a spelling
    Tickets,        \* documents of account requests
    Workers,        \* calls that the server handles at one time
    MaxCalls,       \* bound on calls
    None

ASSUME UserAdminAssumption ==
    /\ Root \in Ids /\ SuperRole \in Roles /\ Super \in RoleNames
    /\ Fold \in [RoleNames -> RoleNames]
    /\ None \notin Ids \cup Names \cup Roles \cup RoleNames \cup Tickets
    /\ MaxCalls \in Nat

VARIABLES
    users,      \* the users collection
    roles,      \* the roles collection
    tickets,    \* the account_requests collection
    signedIn,   \* the users who have been given a session
    call,       \* the call that each worker handles
    calls       \* calls so far

vars == <<users, roles, tickets, signedIn, call, calls>>
store == <<users, roles, tickets, signedIn>>

-----------------------------------------------------------------------------
(***************************************************************************)
(* Documents.                                                              *)
(***************************************************************************)
FormStatuses == {"new", "active", "inactive", "suspended", "deactivated"}
AllowsLogin == {"new", "active"}

User == [status : FormStatuses \cup {"absent", "deleted"}, name : Names \cup {None},
         role : Roles \cup {None}, lastLogin : BOOLEAN,
         createdBy : Ids \cup {None}, updatedBy : Ids \cup {None}, deletedBy : Ids \cup {None}]

NoUser == [status |-> "absent", name |-> None, role |-> None, lastLogin |-> FALSE,
           createdBy |-> None, updatedBy |-> None, deletedBy |-> None]

Role == [status : {"absent", "active", "deleted"}, name : RoleNames \cup {None},
         createdBy : Ids \cup {None}, updatedBy : Ids \cup {None}, deletedBy : Ids \cup {None}]

NoRole == [status |-> "absent", name |-> None,
           createdBy |-> None, updatedBy |-> None, deletedBy |-> None]

Ticket == [status : {"absent", "pending", "fulfilled"}, name : Names \cup {None},
           fulfilledBy : Ids \cup {None}, fulfilledUserId : Ids \cup {None}]

NoTicket == [status |-> "absent", name |-> None, fulfilledBy |-> None, fulfilledUserId |-> None]
Pending(n) == [NoTicket EXCEPT !.status = "pending", !.name = n]

\* What a query sees that leaves deleted documents out.
Live(u) == users[u].status \notin {"absent", "deleted"}
ActiveRole(r) == roles[r].status = "active"
FindByUsername(n) == {u \in Ids : Live(u) /\ users[u].name = n}
FindByName(n) == {r \in Roles : ActiveRole(r) /\ Fold[roles[r].name] = Fold[n]}
FindPendingByUsername(n) == {t \in Tickets : tickets[t].status = "pending" /\ tickets[t].name = n}

-----------------------------------------------------------------------------
(***************************************************************************)
(* Calls.  The fields hold what the call was given or has read so far.     *)
(***************************************************************************)
Ops == {"idle", "login", "update", "suspend", "unsuspend", "delete", "register",
        "requestAccount", "createRole", "updateRole", "deleteRole"}

\* HasActivity looks at the user, then at roles, other users and requests.
Traces == {"own", "inRoles", "inUsers", "inTickets"}

Steps == Traces \cup {"idle", "stamp", "promote", "role", "ticket", "name", "pending",
                      "count", "write", "insert", "fulfil"}

Call == [op : Ops, step : Steps, by : Ids \cup {None}, user : Ids \cup {None},
         role : Roles \cup {None}, status : FormStatuses \cup {None},
         ticket : Tickets \cup {None}, name : Names \cup RoleNames \cup {None}]

Idle == [op |-> "idle", step |-> "idle", by |-> None, user |-> None,
         role |-> None, status |-> None, ticket |-> None, name |-> None]

At(w, op, step) == call[w].op = op /\ call[w].step = step

Begin(w, op, step, c) ==
    /\ call[w] = Idle
    /\ calls < MaxCalls
    /\ calls' = calls + 1
    /\ call' = [call EXCEPT ![w] = [c EXCEPT !.op = op, !.step = step]]
    /\ UNCHANGED store

Goto(w, step) == call' = [call EXCEPT ![w].step = step] /\ UNCHANGED calls
End(w) == call' = [call EXCEPT ![w] = Idle] /\ UNCHANGED calls

-----------------------------------------------------------------------------
\* The seeds' role and administrator, one more role, one more user in any
\* state (absent too), who may be an import without a role, and perhaps a
\* request.
InitialStore(rootName, n, plain, spelled, status, seen, u, role, t, ticket) ==
    /\ rootName # n /\ Fold[spelled] # Fold[Super]
    /\ seen => role # None /\ status \notin {"new", "deleted"}
    /\ status = "absent" => role = None /\ ~seen
    /\ ticket.name # rootName
    /\ users = [i \in Ids |->
          CASE i = Root -> [NoUser EXCEPT !.status = "active", !.name = rootName, !.role = SuperRole,
                                          !.lastLogin = TRUE, !.createdBy = Root, !.updatedBy = Root]
            [] i = u /\ status # "absent" ->
                   [NoUser EXCEPT !.status = status, !.name = n, !.role = role, !.lastLogin = seen,
                                  !.createdBy = Root, !.deletedBy = IF status = "deleted" THEN Root ELSE None]
            [] OTHER -> NoUser]
    /\ roles = [r \in Roles |->
          CASE r = SuperRole -> [NoRole EXCEPT !.status = "active", !.name = Super,
                                               !.createdBy = Root, !.updatedBy = Root]
            [] r = plain -> [NoRole EXCEPT !.status = "active", !.name = spelled, !.createdBy = Root]
            [] OTHER -> NoRole]
    /\ tickets = [i \in Tickets |-> IF i = t THEN ticket ELSE NoTicket]
    /\ signedIn = {i \in Ids : users[i].lastLogin}

Init ==
    /\ \E rootName, n \in Names, plain \in Roles \ {SuperRole}, spelled \in RoleNames,
         status \in FormStatuses \cup {"absent", "deleted"}, seen \in BOOLEAN, u \in Ids \ {Root} :
        \E role \in {plain, None}, t \in Tickets, ticket \in {NoTicket} \cup {Pending(m) : m \in Names} :
            InitialStore(rootName, n, plain, spelled, status, seen, u, role, t, ticket)
    /\ call = [w \in Workers |-> Idle]
    /\ calls = 0

\* A call ends early: refused by a check, failed, or the server is gone.
Stop(w) ==
    /\ call[w] # Idle /\ ~At(w, "login", "stamp") /\ ~At(w, "login", "promote")
    /\ End(w)
    /\ UNCHANGED store

-----------------------------------------------------------------------------
(***************************************************************************)
(* Signing in.                                                             *)
(***************************************************************************)
Login(w) ==
    \E u \in Ids :
        /\ users[u].status \in AllowsLogin /\ users[u].role # None
        /\ Begin(w, "login", "stamp", [Idle EXCEPT !.user = u])

\* UpdateLastLogin, its first write.
Stamp(w) ==
    LET u == call[w].user
    IN  /\ At(w, "login", "stamp")
        /\ users[u].status \in AllowsLogin
        /\ users' = [users EXCEPT ![u].lastLogin = TRUE]
        /\ Goto(w, "promote")
        /\ UNCHANGED <<roles, tickets, signedIn>>

\* Mutant: whoever signs in becomes active.
Promoted_Any(doc) == [doc EXCEPT !.status = "active"]

\* Its second write: only a new user becomes active.
Promoted(doc) == IF doc.status = "new" THEN [doc EXCEPT !.status = "active"] ELSE doc

Promote(w) ==
    LET u == call[w].user
    IN  /\ At(w, "login", "promote")
        /\ users' = [users EXCEPT ![u] = Promoted(@)]
        /\ signedIn' = signedIn \cup {u}
        /\ End(w)
        /\ UNCHANGED <<roles, tickets>>

\* A last login that cannot be recorded does not refuse the session; the
\* call can also fail before it.
LoginEnds(w) ==
    /\ At(w, "login", "stamp") \/ At(w, "login", "promote")
    /\ signedIn' \in {signedIn, signedIn \cup {call[w].user}}
    /\ End(w)
    /\ UNCHANGED <<users, roles, tickets>>

-----------------------------------------------------------------------------
(***************************************************************************)
(* Changing a user: read, decide, and write the role and the status back.  *)
(***************************************************************************)
UpdateUser(w) ==
    \E by \in signedIn, u \in Ids, r \in Roles, s \in FormStatuses :
        /\ Live(u)
        /\ Begin(w, "update", "role",
                 [Idle EXCEPT !.by = by, !.user = u, !.role = r, !.status = s])

Suspend(w) ==
    \E by \in signedIn, u \in Ids :
        /\ by # u /\ users[u].status \in {"new", "active"}
        /\ Begin(w, "suspend", "write",
                 [Idle EXCEPT !.by = by, !.user = u, !.role = users[u].role, !.status = "suspended"])

Unsuspend(w) ==
    \E by \in signedIn, u \in Ids :
        /\ users[u].status = "suspended"
        /\ Begin(w, "unsuspend", "write",
                 [Idle EXCEPT !.by = by, !.user = u, !.role = users[u].role, !.status = "active"])

\* The role that Update and Register have been given must exist.
CheckRole(w) ==
    /\ call[w].step = "role" /\ ActiveRole(call[w].role)
    /\ Goto(w, IF call[w].op = "update" THEN "write"
               ELSE IF call[w].user # None \/ call[w].ticket # None THEN "ticket" ELSE "name")
    /\ UNCHANGED store

\* Mutant: the write matches a deleted document too.
Writable_Any(doc) == doc.status # "absent"

\* The filter of the repository's updates.
Writable(doc) == doc.status \notin {"absent", "deleted"}

WriteUser(w) ==
    LET c == call[w]
    IN  /\ c.step = "write" /\ c.op \in {"update", "suspend", "unsuspend", "register"}
        /\ Writable(users[c.user])
        /\ users' = [users EXCEPT ![c.user].role = c.role, ![c.user].status = c.status,
                                  ![c.user].updatedBy = c.by]
        /\ End(w)
        /\ UNCHANGED <<roles, tickets, signedIn>>

-----------------------------------------------------------------------------
(***************************************************************************)
(* Deleting a user who has left no trace.                                  *)
(***************************************************************************)
DeleteUser(w) ==
    \E by \in signedIn, u \in Ids :
        /\ by # u /\ Live(u)
        /\ Begin(w, "delete", "own", [Idle EXCEPT !.by = by, !.user = u])

By(doc) == {doc.createdBy, doc.updatedBy, doc.deletedBy}

HasTrace(u, place) ==
    CASE place = "own" -> ~Live(u) \/ users[u].lastLogin \/ users[u].updatedBy = u
      [] place = "inRoles" -> \E r \in Roles : u \in By(roles[r])
      [] place = "inUsers" -> \E v \in Ids \ {u} : u \in By(users[v])
      [] place = "inTickets" -> \E t \in Tickets : tickets[t].fulfilledBy = u

AfterTrace == [own |-> "inRoles", inRoles |-> "inUsers", inUsers |-> "inTickets", inTickets |-> "write"]

\* One query of HasActivity that finds nothing.
NoActivity(w) ==
    /\ call[w].step \in Traces /\ ~HasTrace(call[w].user, call[w].step)
    /\ Goto(w, AfterTrace[call[w].step])
    /\ UNCHANGED store

RemoveUser(w) ==
    LET c == call[w]
    IN  /\ At(w, "delete", "write")
        /\ Writable(users[c.user])
        /\ users' = [users EXCEPT ![c.user].status = "deleted", ![c.user].deletedBy = c.by]
        /\ End(w)
        /\ UNCHANGED <<roles, tickets, signedIn>>

-----------------------------------------------------------------------------
(***************************************************************************)
(* Requesting an account, and registering one: from nothing, from a        *)
(* request, or for an imported user without a role, whom the page lists    *)
(* among the requests.                                                     *)
(***************************************************************************)
RequestAccount(w) ==
    \E n \in Names :
        /\ FindByUsername(n) = {}
        /\ Begin(w, "requestAccount", "pending", [Idle EXCEPT !.name = n])

CheckPending(w) ==
    /\ At(w, "requestAccount", "pending")
    /\ FindPendingByUsername(call[w].name) = {}
    /\ Goto(w, "insert")
    /\ UNCHANGED store

InsertTicket(w) ==
    /\ At(w, "requestAccount", "insert")
    /\ \E t \in Tickets :
        /\ tickets[t].status = "absent"
        /\ tickets' = [tickets EXCEPT ![t] = Pending(call[w].name)]
    /\ End(w)
    /\ UNCHANGED <<users, roles, signedIn>>

\* The form gives a name, and perhaps a request or an account without a role that stands
\* for one; nobody compares their names with it.
Register(w) ==
    \E by \in signedIn, r \in Roles, n \in Names :
        LET c == [Idle EXCEPT !.by = by, !.role = r, !.name = n]
        IN  \/ Begin(w, "register", "role", c)
            \/ \E t \in Tickets :
                /\ tickets[t].status # "absent"
                /\ Begin(w, "register", "role", [c EXCEPT !.ticket = t])
            \/ \E u \in Ids :
                /\ Live(u) /\ users[u].role = None
                /\ Begin(w, "register", "role", [c EXCEPT !.user = u])

\* Mutant: the query's projection leaves the status out.
StatusRead_Projected(doc) == IF doc = NoUser THEN doc.status ELSE None

\* The status that the write at the end of the call will store again.
StatusRead(doc) == doc.status

CheckTicket(w) ==
    LET c == call[w]
    IN  /\ c.step = "ticket"
        /\ \/ /\ c.ticket # None /\ tickets[c.ticket].status = "pending"
              /\ Goto(w, "name")
           \/ /\ c.user # None /\ Live(c.user) /\ users[c.user].role = None
              /\ call' = [call EXCEPT ![w].step = "name", ![w].status = StatusRead(users[c.user])]
              /\ UNCHANGED calls
        /\ UNCHANGED store

CheckUsername(w) ==
    LET c == call[w]
    IN  /\ At(w, "register", "name")
        /\ FindByUsername(c.name) \subseteq {c.user}
        /\ Goto(w, IF c.user = None THEN "insert" ELSE "write")
        /\ UNCHANGED store

\* uniq_user_username: one document per name, deleted ones included.
UniqueUsername(n) == \A v \in Ids : users[v].name # n

Registered(c) == [NoUser EXCEPT !.status = "new", !.name = c.name, !.role = c.role, !.createdBy = c.by]

\* Mutant: the index is missing.
Create_NoIndex(u, c) == users' = [users EXCEPT ![u] = Registered(c)]

\* Mutant: an insert that fails is not noticed.
Create_Unnoticed(u, c) ==
    users' = IF UniqueUsername(c.name) THEN [users EXCEPT ![u] = Registered(c)] ELSE users

Create(u, c) == UniqueUsername(c.name) /\ users' = [users EXCEPT ![u] = Registered(c)]

InsertUser(w) ==
    /\ At(w, "register", "insert")
    /\ \E u \in Ids :
        /\ users[u] = NoUser
        /\ Create(u, call[w])
        /\ IF call[w].ticket = None THEN End(w)
           ELSE call' = [call EXCEPT ![w].step = "fulfil", ![w].user = u] /\ UNCHANGED calls
    /\ UNCHANGED <<roles, tickets, signedIn>>

Fulfil(w) ==
    LET c == call[w]
    IN  /\ At(w, "register", "fulfil")
        /\ tickets[c.ticket].status = "pending"
        /\ tickets' = [tickets EXCEPT ![c.ticket].status = "fulfilled", ![c.ticket].fulfilledBy = c.by,
                                      ![c.ticket].fulfilledUserId = c.user]
        /\ End(w)
        /\ UNCHANGED <<users, roles, signedIn>>

-----------------------------------------------------------------------------
(***************************************************************************)
(* Roles.                                                                  *)
(***************************************************************************)
CreateRole(w) ==
    \E by \in signedIn, n \in RoleNames :
        /\ FindByName(n) = {}
        /\ Begin(w, "createRole", "insert", [Idle EXCEPT !.by = by, !.name = n])

\* uniq_role_name_active compares spellings, and active roles only.
UniqueRoleName(n, r) == \A other \in Roles \ {r} : ActiveRole(other) => roles[other].name # n

InsertRole(w) ==
    LET c == call[w]
    IN  /\ At(w, "createRole", "insert")
        /\ \E r \in Roles :
            /\ roles[r] = NoRole /\ UniqueRoleName(c.name, r)
            /\ roles' = [roles EXCEPT ![r] = [NoRole EXCEPT !.status = "active", !.name = c.name,
                                                            !.createdBy = c.by]]
        /\ End(w)
        /\ UNCHANGED <<users, tickets, signedIn>>

IsSuper(n) == Fold[n] = Fold[Super]

\* Mutant: only the deletion protects SUPERADMIN.
MayRename_Any(old, new) == old \in RoleNames /\ new \in RoleNames

MayRename(old, new) == IsSuper(old) => IsSuper(new)

UpdateRole(w) ==
    \E by \in signedIn, r \in Roles, n \in RoleNames :
        /\ ActiveRole(r) /\ MayRename(roles[r].name, n)
        /\ Begin(w, "updateRole", "name", [Idle EXCEPT !.by = by, !.role = r, !.name = n])

\* FindByName returns any one of the roles it finds.
CheckRoleName(w) ==
    LET c == call[w]
    IN  /\ At(w, "updateRole", "name")
        /\ FindByName(c.name) = {} \/ c.role \in FindByName(c.name)
        /\ Goto(w, "write")
        /\ UNCHANGED store

WriteRole(w) ==
    LET c == call[w]
    IN  /\ At(w, "updateRole", "write")
        /\ ActiveRole(c.role) /\ UniqueRoleName(c.name, c.role)
        /\ roles' = [roles EXCEPT ![c.role].name = c.name, ![c.role].updatedBy = c.by]
        /\ End(w)
        /\ UNCHANGED <<users, tickets, signedIn>>

DeleteRole(w) ==
    \E by \in signedIn, r \in Roles :
        /\ ActiveRole(r) /\ ~IsSuper(roles[r].name)
        /\ Begin(w, "deleteRole", "count", [Idle EXCEPT !.by = by, !.role = r])

CountByRole(w) ==
    /\ At(w, "deleteRole", "count")
    /\ ~\E u \in Ids : Live(u) /\ users[u].role = call[w].role
    /\ Goto(w, "write")
    /\ UNCHANGED store

RemoveRole(w) ==
    LET c == call[w]
    IN  /\ At(w, "deleteRole", "write")
        /\ ActiveRole(c.role)
        /\ roles' = [roles EXCEPT ![c.role].status = "deleted", ![c.role].deletedBy = c.by]
        /\ End(w)
        /\ UNCHANGED <<users, tickets, signedIn>>

-----------------------------------------------------------------------------
Accounts(w) ==
    \/ Login(w) \/ Stamp(w) \/ Promote(w) \/ LoginEnds(w)
    \/ UpdateUser(w) \/ Suspend(w) \/ Unsuspend(w) \/ CheckRole(w) \/ WriteUser(w)
    \/ DeleteUser(w) \/ NoActivity(w) \/ RemoveUser(w)

Registrations(w) ==
    \/ RequestAccount(w) \/ CheckPending(w) \/ InsertTicket(w)
    \/ Register(w) \/ CheckTicket(w) \/ CheckUsername(w) \/ InsertUser(w) \/ Fulfil(w)

RoleCalls(w) ==
    \/ CreateRole(w) \/ InsertRole(w)
    \/ UpdateRole(w) \/ CheckRoleName(w) \/ WriteRole(w)
    \/ DeleteRole(w) \/ CountByRole(w) \/ RemoveRole(w)

Next == \E w \in Workers : Accounts(w) \/ Registrations(w) \/ RoleCalls(w) \/ Stop(w)

Spec == Init /\ [][Next]_vars

-----------------------------------------------------------------------------
\* The collections hold documents of their types, whatever calls meet: a
\* stored account, role or request always has a name.
TypeOK ==
    /\ users \in [Ids -> User] /\ \A u \in Ids : users[u].status # "absent" => users[u].name # None
    /\ roles \in [Roles -> Role] /\ \A r \in Roles : roles[r].status # "absent" => roles[r].name # None
    /\ tickets \in [Tickets -> Ticket] /\ \A t \in Tickets : tickets[t].status # "absent" => tickets[t].name # None
    /\ signedIn \subseteq Ids
    /\ call \in [Workers -> Call]
    /\ calls \in 0..MaxCalls

\* Two calls that both found a name free do not both use it: two live
\* accounts never have one name, nor two active roles one spelling.
NamesUnique ==
    /\ \A u, v \in Ids : Live(u) /\ Live(v) /\ users[u].name = users[v].name => u = v
    /\ \A r, s \in Roles : ActiveRole(r) /\ ActiveRole(s) /\ roles[r].name = roles[s].name => r = s

\* No rename or deletion that read the role earlier, and no other role that
\* was renamed in between, ends with SUPERADMIN gone.
SuperKept == ActiveRole(SuperRole) /\ IsSuper(roles[SuperRole].name)

\* A request that is closed has an account, which the one who closed it has inserted,
\* and no two requests have one account, although the account is inserted in one write
\* and the request closed in another.  The account's name may be another than the request's.
ClosedHonestly ==
    \A t \in Tickets : tickets[t].status = "fulfilled" =>
        LET u == tickets[t].fulfilledUserId
        IN  /\ u \in Ids /\ users[u].status # "absent"
            /\ users[u].createdBy = tickets[t].fulfilledBy
            /\ \A other \in Tickets \ {t} : tickets[other].fulfilledUserId # u

\* A call that read an account before it was deleted does not bring it back,
\* nor change it in any other way.
DeletedForGood == [][\A u \in Ids : users[u].status = "deleted" => users'[u] = users[u]]_vars

\* An account that was suspended or switched off opens again by the write of
\* an administrator's call, and never because its owner was signing in.
OnlyAdminsUnblock ==
    [][\A u \in Ids :
        users[u].status \in FormStatuses \ AllowsLogin /\ users'[u].status \in AllowsLogin =>
            \E w \in Workers : call[w].step = "write" /\ call[w].user = u /\ call[w].by # None]_vars

\* The users page: "Users who have logged in or taken action in CoopInsight
\* cannot be deleted."
DeletedUnused == \A u \in Ids : users[u].status = "deleted" => ~users[u].lastLogin
=============================================================================
