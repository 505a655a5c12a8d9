--------------------------- MODULE UserAdminProofs ---------------------------
(***************************************************************************)
(* Theorems about UserAdmin, for any number of accounts, roles, requests,  *)
(* workers and calls: the types, what is unique, what is kept, and that a  *)
(* closed request has its account.                                         *)
(***************************************************************************)
EXTENDS UserAdmin, TLAPS

\* What a call holds at its steps.
CallOK(c) ==
    /\ c.op \in {"login", "update", "suspend", "unsuspend", "delete"} => c.user \in Ids
    /\ c.op \in {"update", "register", "updateRole", "deleteRole"} => c.role \in Roles
    /\ c.op \in {"update", "suspend", "unsuspend"} => c.status \in FormStatuses
    /\ c.op \in {"register", "requestAccount"} => c.name \in Names
    /\ c.op \in {"createRole", "updateRole"} => c.name \in RoleNames
    /\ c.step \in Traces => c.op = "delete"
    /\ c.step = "role" => c.op \in {"update", "register"}
    /\ c.op = "register" /\ c.step \in {"role", "ticket", "name"} /\ c.ticket # None => c.user = None
    /\ c.op = "register" /\ c.step = "name" /\ c.user # None => c.status \in FormStatuses
    /\ c.op = "register" /\ c.step = "write" => c.user \in Ids /\ c.status \in FormStatuses
    /\ c.op = "register" /\ c.step = "fulfil" => c.user \in Ids /\ c.ticket \in Tickets

CallInv == call \in [Workers -> Call] /\ \A w \in Workers : CallOK(call[w])

StoreInv ==
    /\ users \in [Ids -> User] /\ \A u \in Ids : users[u].status # "absent" => users[u].name # None
    /\ roles \in [Roles -> Role] /\ \A r \in Roles : roles[r].status # "absent" => roles[r].name # None
    /\ tickets \in [Tickets -> Ticket] /\ \A t \in Tickets : tickets[t].status # "absent" => tickets[t].name # None
    /\ signedIn \subseteq Ids

\* SUPERADMIN is there, a rename of it keeps its name, no deletion aims at it.
SuperInv ==
    /\ SuperKept
    /\ \A w \in Workers :
        /\ call[w].op = "updateRole" /\ call[w].role = SuperRole => IsSuper(call[w].name)
        /\ call[w].op = "deleteRole" => call[w].role # SuperRole

\* Also the names of deleted accounts stay taken.
Stored(u) == users[u].status # "absent"

NamesInv ==
    /\ \A u, v \in Ids : Stored(u) /\ Stored(v) /\ users[u].name = users[v].name => u = v
    /\ \A r, s \in Roles : ActiveRole(r) /\ ActiveRole(s) /\ roles[r].name = roles[s].name => r = s

\* A call about to close its request holds an account that nobody else has.
Fulfilling(w) == call[w].op = "register" /\ call[w].step = "fulfil"

TicketInv ==
    /\ \A t \in Tickets : tickets[t].fulfilledUserId # None =>
           /\ tickets[t].status = "fulfilled" /\ Stored(tickets[t].fulfilledUserId)
           /\ users[tickets[t].fulfilledUserId].createdBy = tickets[t].fulfilledBy
    /\ \A t, o \in Tickets :
           tickets[t].fulfilledUserId # None /\ tickets[t].fulfilledUserId = tickets[o].fulfilledUserId => t = o
    /\ \A t \in Tickets : tickets[t].status = "fulfilled" => tickets[t].fulfilledUserId # None
    /\ \A w \in Workers : Fulfilling(w) =>
           /\ Stored(call[w].user) /\ users[call[w].user].createdBy = call[w].by
           /\ \A t \in Tickets : tickets[t].fulfilledUserId # call[w].user
           /\ \A v \in Workers : Fulfilling(v) /\ call[v].user = call[w].user => v = w

-----------------------------------------------------------------------------
(***************************************************************************)
(* The call of a worker.                                                   *)
(***************************************************************************)
LEMMA IdleOK == Idle \in Call /\ CallOK(Idle)
  BY UserAdminAssumption DEF Idle, Call, CallOK, Ops, Steps, Traces

LEMMA CallReplaced ==
    ASSUME CallInv, NEW w \in Workers, NEW c \in Call, CallOK(c), call' = [call EXCEPT ![w] = c]
    PROVE  CallInv'
  BY DEF CallInv

LEMMA CallBegins ==
    ASSUME CallInv, calls \in 0..MaxCalls, NEW w \in Workers, NEW op \in Ops, NEW step \in Steps,
           NEW c \in Call, CallOK([c EXCEPT !.op = op, !.step = step]), Begin(w, op, step, c)
    PROVE  CallInv' /\ calls' \in 0..MaxCalls /\ UNCHANGED store
<1>1. [c EXCEPT !.op = op, !.step = step] \in Call BY DEF Call
<1>2. CallInv' BY <1>1, CallReplaced DEF Begin
<1>3. calls' \in 0..MaxCalls BY UserAdminAssumption DEF Begin
<1>4. QED BY <1>2, <1>3 DEF Begin

LEMMA CallGoes ==
    ASSUME CallInv, NEW w \in Workers, NEW step \in Steps,
           CallOK([call[w] EXCEPT !.step = step]), Goto(w, step)
    PROVE  CallInv' /\ calls' = calls
<1>1. [call[w] EXCEPT !.step = step] \in Call BY DEF Call, CallInv
<1>2. call' = [call EXCEPT ![w] = [call[w] EXCEPT !.step = step]] BY DEF Goto
<1>3. QED BY <1>1, <1>2, CallReplaced DEF Goto

LEMMA CallEnds ==
    ASSUME CallInv, NEW w \in Workers, End(w)
    PROVE  CallInv' /\ calls' = calls
  BY IdleOK, CallReplaced DEF End

LEMMA CallFields ==
    ASSUME CallInv, NEW w \in Workers
    PROVE  call[w] \in Call /\ CallOK(call[w])
  BY DEF CallInv

-----------------------------------------------------------------------------
LEMMA CallStep ==
    ASSUME TypeOK, CallInv, [Next]_vars
    PROVE  CallInv' /\ calls' \in 0..MaxCalls
<1> USE UserAdminAssumption
<1>a. calls \in 0..MaxCalls BY DEF TypeOK
<1> SUFFICES ASSUME NEW w \in Workers, Accounts(w) \/ Registrations(w) \/ RoleCalls(w) \/ Stop(w)
             PROVE  CallInv' /\ calls' \in 0..MaxCalls
  <2> CASE UNCHANGED vars
    BY <1>a DEF vars, CallInv
  <2> QED BY DEF Next
<1>b. call[w] \in Call /\ CallOK(call[w]) BY CallFields
<1>1. CASE Login(w)
  <2>1. PICK u \in Ids : Begin(w, "login", "stamp", [Idle EXCEPT !.user = u])
    BY <1>1 DEF Login
  <2> DEFINE c == [Idle EXCEPT !.user = u]
  <2>2. c \in Call BY <2>1, IdleOK DEF Call, TypeOK, FormStatuses
  <2>3. CallOK([c EXCEPT !.op = "login", !.step = "stamp"]) BY DEF CallOK, Idle, FormStatuses, Traces
  <2>4. "login" \in Ops /\ "stamp" \in Steps BY DEF Ops, Steps, Traces
  <2> HIDE DEF c
  <2>5. QED BY <2>1, <2>2, <2>3, <2>4, <1>a, CallBegins DEF c
<1>2. CASE Stamp(w)
  <2>1. Goto(w, "promote") /\ CallOK([call[w] EXCEPT !.step = "promote"])
    BY <1>2, <1>b DEF Stamp, At, CallOK, Call, Traces
  <2>2. QED BY <2>1, <1>a, CallGoes DEF Steps
<1>3. CASE Promote(w)
  BY <1>3, <1>a, CallEnds DEF Promote
<1>4. CASE LoginEnds(w)
  BY <1>4, <1>a, CallEnds DEF LoginEnds
<1>5. CASE UpdateUser(w)
  <2>1. PICK by \in signedIn, u \in Ids, r \in Roles, s \in FormStatuses : Begin(w, "update", "role", [Idle EXCEPT !.by = by, !.user = u, !.role = r, !.status = s])
    BY <1>5 DEF UpdateUser
  <2> DEFINE c == [Idle EXCEPT !.by = by, !.user = u, !.role = r, !.status = s]
  <2>2. c \in Call BY <2>1, IdleOK DEF Call, TypeOK, FormStatuses
  <2>3. CallOK([c EXCEPT !.op = "update", !.step = "role"]) BY DEF CallOK, Idle, FormStatuses, Traces
  <2>4. "update" \in Ops /\ "role" \in Steps BY DEF Ops, Steps, Traces
  <2> HIDE DEF c
  <2>5. QED BY <2>1, <2>2, <2>3, <2>4, <1>a, CallBegins DEF c
<1>6. CASE Suspend(w)
  <2>1. PICK by \in signedIn, u \in Ids : Begin(w, "suspend", "write", [Idle EXCEPT !.by = by, !.user = u, !.role = users[u].role, !.status = "suspended"])
    BY <1>6 DEF Suspend
  <2> DEFINE c == [Idle EXCEPT !.by = by, !.user = u, !.role = users[u].role, !.status = "suspended"]
  <2>2. c \in Call BY <2>1, IdleOK DEF Call, TypeOK, FormStatuses, User
  <2>3. CallOK([c EXCEPT !.op = "suspend", !.step = "write"]) BY DEF CallOK, Idle, FormStatuses, Traces
  <2>4. "suspend" \in Ops /\ "write" \in Steps BY DEF Ops, Steps, Traces
  <2> HIDE DEF c
  <2>5. QED BY <2>1, <2>2, <2>3, <2>4, <1>a, CallBegins DEF c
<1>7. CASE Unsuspend(w)
  <2>1. PICK by \in signedIn, u \in Ids : Begin(w, "unsuspend", "write", [Idle EXCEPT !.by = by, !.user = u, !.role = users[u].role, !.status = "active"])
    BY <1>7 DEF Unsuspend
  <2> DEFINE c == [Idle EXCEPT !.by = by, !.user = u, !.role = users[u].role, !.status = "active"]
  <2>2. c \in Call BY <2>1, IdleOK DEF Call, TypeOK, FormStatuses, User
  <2>3. CallOK([c EXCEPT !.op = "unsuspend", !.step = "write"]) BY DEF CallOK, Idle, FormStatuses, Traces
  <2>4. "unsuspend" \in Ops /\ "write" \in Steps BY DEF Ops, Steps, Traces
  <2> HIDE DEF c
  <2>5. QED BY <2>1, <2>2, <2>3, <2>4, <1>a, CallBegins DEF c
<1>8. CASE CheckRole(w)
  <2>1. PICK step \in {"write", "ticket", "name"} : Goto(w, step) /\ CallOK([call[w] EXCEPT !.step = step])
    BY <1>8, <1>b DEF CheckRole, CallOK, Call, Traces
  <2>2. QED BY <2>1, <1>a, CallGoes DEF Steps
<1>9. CASE WriteUser(w)
  BY <1>9, <1>a, CallEnds DEF WriteUser
<1>10. CASE DeleteUser(w)
  <2>1. PICK by \in signedIn, u \in Ids : Begin(w, "delete", "own", [Idle EXCEPT !.by = by, !.user = u])
    BY <1>10 DEF DeleteUser
  <2> DEFINE c == [Idle EXCEPT !.by = by, !.user = u]
  <2>2. c \in Call BY <2>1, IdleOK DEF Call, TypeOK, FormStatuses
  <2>3. CallOK([c EXCEPT !.op = "delete", !.step = "own"]) BY DEF CallOK, Idle, FormStatuses, Traces
  <2>4. "delete" \in Ops /\ "own" \in Steps BY DEF Ops, Steps, Traces
  <2> HIDE DEF c
  <2>5. QED BY <2>1, <2>2, <2>3, <2>4, <1>a, CallBegins DEF c
<1>11. CASE NoActivity(w)
  <2>1. PICK step \in Traces \cup {"write"} : Goto(w, step) /\ CallOK([call[w] EXCEPT !.step = step])
    BY <1>11, <1>b DEF NoActivity, AfterTrace, CallOK, Call, Traces
  <2>2. QED BY <2>1, <1>a, CallGoes DEF Steps
<1>12. CASE RemoveUser(w)
  BY <1>12, <1>a, CallEnds DEF RemoveUser
<1>13. CASE RequestAccount(w)
  <2>1. PICK n \in Names : Begin(w, "requestAccount", "pending", [Idle EXCEPT !.name = n])
    BY <1>13 DEF RequestAccount
  <2> DEFINE c == [Idle EXCEPT !.name = n]
  <2>2. c \in Call BY <2>1, IdleOK DEF Call, TypeOK, FormStatuses
  <2>3. CallOK([c EXCEPT !.op = "requestAccount", !.step = "pending"]) BY DEF CallOK, Idle, FormStatuses, Traces
  <2>4. "requestAccount" \in Ops /\ "pending" \in Steps BY DEF Ops, Steps, Traces
  <2> HIDE DEF c
  <2>5. QED BY <2>1, <2>2, <2>3, <2>4, <1>a, CallBegins DEF c
<1>14. CASE CheckPending(w)
  <2>1. Goto(w, "insert") /\ CallOK([call[w] EXCEPT !.step = "insert"])
    BY <1>14, <1>b DEF CheckPending, At, CallOK, Call, Traces
  <2>2. QED BY <2>1, <1>a, CallGoes DEF Steps
<1>15. CASE InsertTicket(w)
  BY <1>15, <1>a, CallEnds DEF InsertTicket
<1>16. CASE Register(w)
  <2>0. PICK by \in signedIn, r \in Roles, n \in Names :
            \/ Begin(w, "register", "role", [Idle EXCEPT !.by = by, !.role = r, !.name = n])
            \/ \E t \in Tickets :
                Begin(w, "register", "role", [Idle EXCEPT !.by = by, !.role = r, !.name = n, !.ticket = t])
            \/ \E u \in Ids :
                Begin(w, "register", "role", [Idle EXCEPT !.by = by, !.role = r, !.name = n, !.user = u])
    BY <1>16 DEF Register
  <2> DEFINE c0 == [Idle EXCEPT !.by = by, !.role = r, !.name = n]
  <2>1. "register" \in Ops /\ "role" \in Steps BY DEF Ops, Steps
  <2>2. CASE Begin(w, "register", "role", c0)
    <3>1. c0 \in Call BY IdleOK DEF Call, TypeOK
    <3>2. CallOK([c0 EXCEPT !.op = "register", !.step = "role"]) BY DEF CallOK, Idle, Traces
    <3> HIDE DEF c0
    <3>3. QED BY <3>1, <3>2, <2>1, <2>2, <1>a, CallBegins
  <2>3. ASSUME NEW t \in Tickets, Begin(w, "register", "role", [c0 EXCEPT !.ticket = t])
        PROVE  CallInv' /\ calls' \in 0..MaxCalls
    <3> DEFINE c == [c0 EXCEPT !.ticket = t]
    <3>1. c \in Call BY IdleOK DEF Call, TypeOK
    <3>2. CallOK([c EXCEPT !.op = "register", !.step = "role"]) BY DEF CallOK, Idle, Traces
    <3> HIDE DEF c
    <3>3. QED BY <3>1, <3>2, <2>1, <2>3, <1>a, CallBegins DEF c
  <2>4. ASSUME NEW u \in Ids, Begin(w, "register", "role", [c0 EXCEPT !.user = u])
        PROVE  CallInv' /\ calls' \in 0..MaxCalls
    <3> DEFINE c == [c0 EXCEPT !.user = u]
    <3>1. c \in Call BY IdleOK DEF Call, TypeOK
    <3>2. CallOK([c EXCEPT !.op = "register", !.step = "role"]) BY DEF CallOK, Idle, Traces
    <3> HIDE DEF c
    <3>3. QED BY <3>1, <3>2, <2>1, <2>4, <1>a, CallBegins DEF c
  <2>5. QED BY <2>0, <2>2, <2>3, <2>4
<1>17. CASE CheckTicket(w)
  <2>1. CASE Goto(w, "name") /\ call[w].ticket # None
    <3>1. CallOK([call[w] EXCEPT !.step = "name"]) BY <1>17, <1>b, <2>1 DEF CheckTicket, CallOK, Call, Traces
    <3>2. QED BY <3>1, <2>1, <1>a, CallGoes DEF Steps
  <2>2. CASE /\ call[w].user # None /\ Live(call[w].user)
            /\ call' = [call EXCEPT ![w].step = "name", ![w].status = users[call[w].user].status]
    <3> DEFINE c == [call[w] EXCEPT !.step = "name", !.status = users[call[w].user].status]
    <3>1. call[w].user \in Ids BY <1>b, <2>2 DEF Call
    <3>2. users[call[w].user].status \in FormStatuses BY <3>1, <2>2 DEF TypeOK, User, Live
    <3>3. c \in Call BY <1>b, <3>2 DEF Call, Steps
    <3>4. CallOK(c) BY <1>17, <1>b, <3>2 DEF CheckTicket, CallOK, Call, Traces
    <3>5. call' = [call EXCEPT ![w] = c] BY <2>2
    <3> HIDE DEF c
    <3>6. calls' = calls BY <1>17 DEF CheckTicket, Goto
    <3>7. QED BY <3>3, <3>4, <3>5, <3>6, <1>a, CallReplaced
  <2>3. QED BY <1>17, <2>1, <2>2 DEF CheckTicket, StatusRead
<1>18. CASE CheckUsername(w)
  <2>1. PICK step \in {"insert", "write"} : Goto(w, step) /\ CallOK([call[w] EXCEPT !.step = step])
    BY <1>18, <1>b DEF CheckUsername, At, CallOK, Call, Traces
  <2>2. QED BY <2>1, <1>a, CallGoes DEF Steps
<1>19. CASE InsertUser(w)
  <2>1. CASE End(w) BY <2>1, <1>a, CallEnds
  <2>2. ASSUME NEW u \in Ids, call' = [call EXCEPT ![w].step = "fulfil", ![w].user = u], calls' = calls,
               call[w].ticket # None
        PROVE  CallInv' /\ calls' \in 0..MaxCalls
    <3> DEFINE c == [call[w] EXCEPT !.step = "fulfil", !.user = u]
    <3>1. c \in Call BY <1>b DEF Call, Steps
    <3>2. CallOK(c) BY <1>19, <1>b, <2>2 DEF InsertUser, At, CallOK, Call, Traces
    <3>3. call' = [call EXCEPT ![w] = c] BY <2>2
    <3> HIDE DEF c
    <3>4. QED BY <3>1, <3>2, <3>3, <2>2, <1>a, CallReplaced
  <2>3. QED BY <1>19, <2>1, <2>2 DEF InsertUser
<1>20. CASE Fulfil(w)
  BY <1>20, <1>a, CallEnds DEF Fulfil
<1>21. CASE CreateRole(w)
  <2>1. PICK by \in signedIn, n \in RoleNames : Begin(w, "createRole", "insert", [Idle EXCEPT !.by = by, !.name = n])
    BY <1>21 DEF CreateRole
  <2> DEFINE c == [Idle EXCEPT !.by = by, !.name = n]
  <2>2. c \in Call BY <2>1, IdleOK DEF Call, TypeOK, FormStatuses
  <2>3. CallOK([c EXCEPT !.op = "createRole", !.step = "insert"]) BY DEF CallOK, Idle, FormStatuses, Traces
  <2>4. "createRole" \in Ops /\ "insert" \in Steps BY DEF Ops, Steps, Traces
  <2> HIDE DEF c
  <2>5. QED BY <2>1, <2>2, <2>3, <2>4, <1>a, CallBegins DEF c
<1>22. CASE InsertRole(w)
  BY <1>22, <1>a, CallEnds DEF InsertRole
<1>23. CASE UpdateRole(w)
  <2>1. PICK by \in signedIn, r \in Roles, n \in RoleNames : Begin(w, "updateRole", "name", [Idle EXCEPT !.by = by, !.role = r, !.name = n])
    BY <1>23 DEF UpdateRole
  <2> DEFINE c == [Idle EXCEPT !.by = by, !.role = r, !.name = n]
  <2>2. c \in Call BY <2>1, IdleOK DEF Call, TypeOK, FormStatuses
  <2>3. CallOK([c EXCEPT !.op = "updateRole", !.step = "name"]) BY DEF CallOK, Idle, FormStatuses, Traces
  <2>4. "updateRole" \in Ops /\ "name" \in Steps BY DEF Ops, Steps, Traces
  <2> HIDE DEF c
  <2>5. QED BY <2>1, <2>2, <2>3, <2>4, <1>a, CallBegins DEF c
<1>24. CASE CheckRoleName(w)
  <2>1. Goto(w, "write") /\ CallOK([call[w] EXCEPT !.step = "write"])
    BY <1>24, <1>b DEF CheckRoleName, At, CallOK, Call, Traces
  <2>2. QED BY <2>1, <1>a, CallGoes DEF Steps
<1>25. CASE WriteRole(w)
  BY <1>25, <1>a, CallEnds DEF WriteRole
<1>26. CASE DeleteRole(w)
  <2>1. PICK by \in signedIn, r \in Roles : Begin(w, "deleteRole", "count", [Idle EXCEPT !.by = by, !.role = r])
    BY <1>26 DEF DeleteRole
  <2> DEFINE c == [Idle EXCEPT !.by = by, !.role = r]
  <2>2. c \in Call BY <2>1, IdleOK DEF Call, TypeOK, FormStatuses
  <2>3. CallOK([c EXCEPT !.op = "deleteRole", !.step = "count"]) BY DEF CallOK, Idle, FormStatuses, Traces
  <2>4. "deleteRole" \in Ops /\ "count" \in Steps BY DEF Ops, Steps, Traces
  <2> HIDE DEF c
  <2>5. QED BY <2>1, <2>2, <2>3, <2>4, <1>a, CallBegins DEF c
<1>27. CASE CountByRole(w)
  <2>1. Goto(w, "write") /\ CallOK([call[w] EXCEPT !.step = "write"])
    BY <1>27, <1>b DEF CountByRole, At, CallOK, Call, Traces
  <2>2. QED BY <2>1, <1>a, CallGoes DEF Steps
<1>28. CASE RemoveRole(w)
  BY <1>28, <1>a, CallEnds DEF RemoveRole
<1>29. CASE Stop(w)
  BY <1>29, <1>a, CallEnds DEF Stop
<1>q. QED BY <1>1, <1>2, <1>3, <1>4, <1>5, <1>6, <1>7, <1>8, <1>9, <1>10, <1>11, <1>12, <1>13, <1>14, <1>15, <1>16, <1>17, <1>18, <1>19, <1>20, <1>21, <1>22, <1>23, <1>24, <1>25, <1>26, <1>27, <1>28, <1>29 DEF Accounts, Registrations, RoleCalls

-----------------------------------------------------------------------------
(***************************************************************************)
(* The collections: which actions write them, and the types.               *)
(***************************************************************************)
UserWrite(w) == Stamp(w) \/ Promote(w) \/ WriteUser(w) \/ RemoveUser(w) \/ InsertUser(w)
RoleWrite(w) == InsertRole(w) \/ WriteRole(w) \/ RemoveRole(w)
TicketWrite(w) == InsertTicket(w) \/ Fulfil(w)

LEMMA WritesOf ==
    ASSUME NEW w \in Workers, Accounts(w) \/ Registrations(w) \/ RoleCalls(w) \/ Stop(w)
    PROVE  UNCHANGED store \/ UserWrite(w) \/ RoleWrite(w) \/ TicketWrite(w) \/ LoginEnds(w)
<1>1. CASE Accounts(w)
  BY <1>1 DEF Accounts, UserWrite, Login, UpdateUser, Suspend, Unsuspend, CheckRole, DeleteUser,
              NoActivity, Begin
<1>2. CASE Registrations(w)
  BY <1>2 DEF Registrations, UserWrite, TicketWrite, RequestAccount, CheckPending, Register,
              CheckTicket, CheckUsername, Begin
<1>3. CASE RoleCalls(w)
  BY <1>3 DEF RoleCalls, RoleWrite, CreateRole, UpdateRole, CheckRoleName, DeleteRole, CountByRole, Begin
<1>4. CASE Stop(w)
  BY <1>4 DEF Stop
<1>5. QED BY <1>1, <1>2, <1>3, <1>4

LEMMA Writes ==
    ASSUME [Next]_vars
    PROVE  \/ UNCHANGED store
           \/ \E w \in Workers : UserWrite(w) \/ RoleWrite(w) \/ TicketWrite(w) \/ LoginEnds(w)
<1>1. CASE UNCHANGED vars BY <1>1 DEF vars, store
<1>2. CASE Next BY <1>2, WritesOf DEF Next
<1>3. QED BY <1>1, <1>2

LEMMA UserTyped ==
    ASSUME StoreInv, CallInv, NEW w \in Workers, UserWrite(w)
    PROVE  StoreInv' /\ UNCHANGED <<roles, tickets>>
<1> USE UserAdminAssumption
<1>a. call[w] \in Call /\ CallOK(call[w]) BY CallFields
<1>1. CASE Stamp(w)
  <2>1. call[w].user \in Ids BY <1>1, <1>a DEF Stamp, At, CallOK
  <2>2. ASSUME NEW doc \in User
        PROVE  [doc EXCEPT !.lastLogin = TRUE] \in User /\ [doc EXCEPT !.lastLogin = TRUE].name = doc.name
               /\ [doc EXCEPT !.lastLogin = TRUE].status = doc.status
    BY DEF User
  <2>3. users' = [users EXCEPT ![call[w].user] = [users[call[w].user] EXCEPT !.lastLogin = TRUE]]
        /\ UNCHANGED <<roles, tickets, signedIn>>
    BY <1>1 DEF Stamp
  <2>4. QED BY <2>1, <2>2, <2>3 DEF StoreInv, User
<1>2. CASE Promote(w) BY <1>2, <1>a DEF Promote, Promoted, At, CallOK, StoreInv, User, FormStatuses
<1>3. CASE WriteUser(w)
  <2>1. call[w].user \in Ids /\ call[w].status \in FormStatuses /\ call[w].role \in Roles \cup {None}
        /\ call[w].by \in Ids \cup {None}
    BY <1>3, <1>a DEF WriteUser, CallOK, Call
  <2>2. QED BY <1>3, <2>1 DEF WriteUser, Writable, StoreInv, User, FormStatuses
<1>4. CASE RemoveUser(w) BY <1>4, <1>a DEF RemoveUser, Writable, At, CallOK, Call, StoreInv, User
<1>5. CASE InsertUser(w)
  <2>1. PICK u \in Ids : Create(u, call[w]) BY <1>5 DEF InsertUser
  <2>2. Registered(call[w]) \in User /\ Registered(call[w]).name # None
    BY <1>5, <1>a DEF InsertUser, At, Registered, NoUser, User, CallOK, Call, FormStatuses
  <2>3. QED BY <1>5, <2>1, <2>2 DEF InsertUser, Create, StoreInv
<1>6. QED BY <1>1, <1>2, <1>3, <1>4, <1>5 DEF UserWrite

LEMMA RoleTyped ==
    ASSUME StoreInv, CallInv, NEW w \in Workers, RoleWrite(w)
    PROVE  StoreInv' /\ UNCHANGED <<users, tickets>>
<1> USE UserAdminAssumption
<1>a. call[w] \in Call /\ CallOK(call[w]) BY CallFields
<1>1. CASE InsertRole(w)
  <2> DEFINE doc == [NoRole EXCEPT !.status = "active", !.name = call[w].name, !.createdBy = call[w].by]
  <2>1. PICK r \in Roles : roles' = [roles EXCEPT ![r] = doc] BY <1>1 DEF InsertRole
  <2>2. doc \in Role /\ doc.name # None
    BY <1>1, <1>a DEF InsertRole, At, CallOK, Call, Role, NoRole
  <2> HIDE DEF doc
  <2>3. QED BY <1>1, <2>1, <2>2 DEF InsertRole, StoreInv
<1>2. CASE WriteRole(w)
  BY <1>2, <1>a DEF WriteRole, At, ActiveRole, CallOK, Call, StoreInv, Role
<1>3. CASE RemoveRole(w)
  BY <1>3, <1>a DEF RemoveRole, At, ActiveRole, CallOK, Call, StoreInv, Role
<1>4. QED BY <1>1, <1>2, <1>3 DEF RoleWrite

LEMMA TicketTyped ==
    ASSUME StoreInv, CallInv, NEW w \in Workers, TicketWrite(w)
    PROVE  StoreInv' /\ UNCHANGED <<users, roles>>
<1> USE UserAdminAssumption
<1>a. call[w] \in Call /\ CallOK(call[w]) BY CallFields
<1>1. CASE InsertTicket(w)
  <2>1. PICK t \in Tickets : tickets' = [tickets EXCEPT ![t] = Pending(call[w].name)] BY <1>1 DEF InsertTicket
  <2>2. Pending(call[w].name) \in Ticket /\ Pending(call[w].name).name # None
    BY <1>1, <1>a DEF InsertTicket, At, CallOK, Call, Ticket, Pending, NoTicket
  <2>3. QED BY <1>1, <2>1, <2>2 DEF InsertTicket, StoreInv
<1>2. CASE Fulfil(w)
  BY <1>2, <1>a DEF Fulfil, At, CallOK, Call, StoreInv, Ticket
<1>3. QED BY <1>1, <1>2 DEF TicketWrite

LEMMA StoreStep ==
    ASSUME StoreInv, CallInv, [Next]_vars
    PROVE  StoreInv'
<1>1. CASE UNCHANGED store BY <1>1 DEF store, StoreInv
<1>2. ASSUME NEW w \in Workers, LoginEnds(w) PROVE StoreInv'
  <2>1. call[w].user \in Ids BY <1>2, CallFields DEF LoginEnds, At, CallOK
  <2>2. QED BY <1>2, <2>1 DEF LoginEnds, StoreInv
<1>3. QED BY <1>1, <1>2, Writes, UserTyped, RoleTyped, TicketTyped

LEMMA TypeSplit == TypeOK /\ CallInv <=> StoreInv /\ CallInv /\ calls \in 0..MaxCalls
  BY DEF TypeOK, StoreInv, CallInv

LEMMA TypeInit == Init => TypeOK /\ CallInv
<1> USE UserAdminAssumption
<1> SUFFICES ASSUME Init PROVE TypeOK /\ CallInv
  OBVIOUS
<1>0. PICK rootName \in Names, n \in Names, plain \in Roles \ {SuperRole}, spelled \in RoleNames,
           status \in FormStatuses \cup {"absent", "deleted"}, seen \in BOOLEAN, u \in Ids \ {Root} :
        \E role \in {plain, None}, t \in Tickets, ticket \in {NoTicket} \cup {Pending(m) : m \in Names} :
        InitialStore(rootName, n, plain, spelled, status, seen, u, role, t, ticket)
  BY DEF Init
<1>1. PICK role \in {plain, None}, t \in Tickets, ticket \in {NoTicket} \cup {Pending(m) : m \in Names} :
        InitialStore(rootName, n, plain, spelled, status, seen, u, role, t, ticket)
  BY <1>0
<1>2. users \in [Ids -> User] /\ \A i \in Ids : users[i].status # "absent" => users[i].name # None
  BY <1>1 DEF InitialStore, User, NoUser, FormStatuses
<1>3. roles \in [Roles -> Role] /\ \A r \in Roles : roles[r].status # "absent" => roles[r].name # None
  BY <1>1 DEF InitialStore, Role, NoRole
<1>3a. NoTicket \in Ticket /\ \A m \in Names : Pending(m) \in Ticket /\ Pending(m).name # None
  BY DEF Ticket, NoTicket, Pending
<1>4. ticket \in Ticket /\ NoTicket \in Ticket /\ (ticket.status # "absent" => ticket.name # None)
  BY <1>3a, <1>1 DEF NoTicket
<1>5. tickets \in [Tickets -> Ticket] /\ \A i \in Tickets : tickets[i].status # "absent" => tickets[i].name # None
  BY <1>1, <1>4 DEF InitialStore, NoTicket
<1>6. CallInv BY IdleOK DEF Init, CallInv
<1>7. QED BY <1>1, <1>2, <1>3, <1>5, <1>6 DEF Init, InitialStore, TypeOK, CallInv

LEMMA TypeStep == TypeOK /\ CallInv /\ [Next]_vars => (TypeOK /\ CallInv)'
  BY CallStep, StoreStep, TypeSplit DEF TypeOK, CallInv, StoreInv

\* TypeOK of UserAdmin: documents keep their types and their names.
THEOREM AccountTypes == Spec => []TypeOK
  BY TypeStep, TypeInit, PTL DEF Spec


-----------------------------------------------------------------------------
(***************************************************************************)
(* How a call moves: it ends, goes on with the same arguments, or begins.  *)
(***************************************************************************)
Ends(w) == call' = [call EXCEPT ![w] = Idle]

Kept(w) ==
    /\ call'[w].op = call[w].op /\ call'[w].role = call[w].role
    /\ call'[w].ticket = call[w].ticket /\ call'[w].name = call[w].name
    /\ call'[w].by = call[w].by
    /\ \/ call'[w].step # "fulfil"
       \/ InsertUser(w) /\ call[w].ticket # None

Begins(w) ==
    /\ UNCHANGED store
    /\ call'[w].step # "fulfil"
    /\ call'[w].op = "updateRole" =>
           ActiveRole(call'[w].role) /\ MayRename(roles[call'[w].role].name, call'[w].name)
    /\ call'[w].op = "deleteRole" => ~IsSuper(roles[call'[w].role].name)
    /\ call'[w].op \in {"update", "suspend", "unsuspend", "register"} => call'[w].by \in signedIn

LEMMA Moves ==
    ASSUME CallInv, NEW w \in Workers, Accounts(w) \/ Registrations(w) \/ RoleCalls(w) \/ Stop(w)
    PROVE  /\ \A v \in Workers \ {w} : call'[v] = call[v]
           /\ Ends(w) \/ Kept(w) \/ Begins(w)
<1> USE UserAdminAssumption
<1>a. call \in [Workers -> Call] BY DEF CallInv
<1>b. call[w] \in Call BY <1>a
<1>c. ASSUME NEW step, Goto(w, step), step # "fulfil"
      PROVE  Kept(w) /\ \A v \in Workers \ {w} : call'[v] = call[v]
  BY <1>a, <1>b, <1>c DEF Goto, Kept, Call
<1>1. ASSUME End(w) PROVE Ends(w) /\ \A v \in Workers \ {w} : call'[v] = call[v]
  BY <1>1, <1>a DEF End, Ends
<1>2. CASE Promote(w) \/ LoginEnds(w) \/ WriteUser(w) \/ RemoveUser(w) \/ InsertTicket(w) \/ Fulfil(w) \/ InsertRole(w) \/ WriteRole(w) \/ RemoveRole(w) \/ Stop(w)
  BY <1>1, <1>2 DEF Promote, LoginEnds, WriteUser, RemoveUser, InsertTicket, Fulfil, InsertRole, WriteRole, RemoveRole, Stop
<1>3. CASE Stamp(w) BY <1>3, <1>c DEF Stamp
<1>4. CASE CheckRole(w) BY <1>4, <1>c DEF CheckRole
<1>5. CASE NoActivity(w) BY <1>5, <1>c DEF NoActivity, AfterTrace, Traces
<1>6. CASE CheckPending(w) BY <1>6, <1>c DEF CheckPending
<1>7. CASE CheckUsername(w) BY <1>7, <1>c DEF CheckUsername
<1>8. CASE CheckRoleName(w) BY <1>8, <1>c DEF CheckRoleName
<1>9. CASE CountByRole(w) BY <1>9, <1>c DEF CountByRole
<1>10. CASE CheckTicket(w)
  <2>1. CASE Goto(w, "name") BY <2>1, <1>c
  <2>2. CASE call' = [call EXCEPT ![w].step = "name", ![w].status = StatusRead(users[call[w].user])]
    BY <2>2, <1>a, <1>b DEF Kept, Call
  <2>3. QED BY <1>10, <2>1, <2>2 DEF CheckTicket
<1>11. CASE InsertUser(w)
  <2>1. CASE End(w) BY <2>1, <1>1
  <2>2. ASSUME NEW u \in Ids, call' = [call EXCEPT ![w].step = "fulfil", ![w].user = u], call[w].ticket # None
        PROVE  Kept(w) /\ \A v \in Workers \ {w} : call'[v] = call[v]
    BY <2>2, <1>11, <1>a, <1>b DEF Kept, Call
  <2>3. QED BY <1>11, <2>1, <2>2 DEF InsertUser
<1>12. CASE Login(w)
  BY <1>12, <1>a DEF Login, Begin, Begins, Idle, store
<1>13. CASE UpdateUser(w)
  BY <1>13, <1>a DEF UpdateUser, Begin, Begins, Idle, store
<1>14. CASE Suspend(w)
  BY <1>14, <1>a DEF Suspend, Begin, Begins, Idle, store
<1>15. CASE Unsuspend(w)
  BY <1>15, <1>a DEF Unsuspend, Begin, Begins, Idle, store
<1>16. CASE DeleteUser(w)
  BY <1>16, <1>a DEF DeleteUser, Begin, Begins, Idle, store
<1>17. CASE RequestAccount(w)
  BY <1>17, <1>a DEF RequestAccount, Begin, Begins, Idle, store
<1>18. CASE Register(w)
  <2>1. PICK by \in signedIn, r \in Roles, m \in Names :
            \/ Begin(w, "register", "role", [Idle EXCEPT !.by = by, !.role = r, !.name = m])
            \/ \E t \in Tickets :
                Begin(w, "register", "role", [Idle EXCEPT !.by = by, !.role = r, !.name = m, !.ticket = t])
            \/ \E u \in Ids :
                Begin(w, "register", "role", [Idle EXCEPT !.by = by, !.role = r, !.name = m, !.user = u])
    BY <1>18 DEF Register
  <2>2. ASSUME Begin(w, "register", "role", [Idle EXCEPT !.by = by, !.role = r, !.name = m])
        PROVE  Begins(w) /\ \A v \in Workers \ {w} : call'[v] = call[v]
    BY <2>2, <1>a DEF Begin, Begins, Idle
  <2>3. ASSUME NEW t \in Tickets,
               Begin(w, "register", "role", [Idle EXCEPT !.by = by, !.role = r, !.name = m, !.ticket = t])
        PROVE  Begins(w) /\ \A v \in Workers \ {w} : call'[v] = call[v]
    BY <2>3, <1>a DEF Begin, Begins, Idle
  <2>4. ASSUME NEW u \in Ids,
               Begin(w, "register", "role", [Idle EXCEPT !.by = by, !.role = r, !.name = m, !.user = u])
        PROVE  Begins(w) /\ \A v \in Workers \ {w} : call'[v] = call[v]
    BY <2>4, <1>a DEF Begin, Begins, Idle
  <2>5. QED BY <2>1, <2>2, <2>3, <2>4
<1>19. CASE CreateRole(w)
  BY <1>19, <1>a DEF CreateRole, Begin, Begins, Idle, store
<1>20. CASE UpdateRole(w)
  BY <1>20, <1>a DEF UpdateRole, Begin, Begins, Idle, store, ActiveRole, MayRename
<1>21. CASE DeleteRole(w)
  BY <1>21, <1>a DEF DeleteRole, Begin, Begins, Idle, store, ActiveRole
<1>22. QED BY <1>2, <1>3, <1>4, <1>5, <1>6, <1>7, <1>8, <1>9, <1>10, <1>11, <1>12, <1>13, <1>14, <1>15, <1>16, <1>17, <1>18, <1>19, <1>20, <1>21 DEF Accounts, Registrations, RoleCalls

-----------------------------------------------------------------------------
(***************************************************************************)
(* SUPERADMIN.                                                             *)
(***************************************************************************)
LEMMA SuperStep ==
    ASSUME StoreInv, CallInv, CallInv', SuperInv, [Next]_vars
    PROVE  SuperInv'
<1> USE UserAdminAssumption
<1>1. CASE UNCHANGED vars BY <1>1 DEF vars, SuperInv, SuperKept, ActiveRole
<1>2. ASSUME NEW w \in Workers, Accounts(w) \/ Registrations(w) \/ RoleCalls(w) \/ Stop(w)
      PROVE  SuperInv'
  <2>1. \A v \in Workers :
            /\ call'[v].op = "updateRole" /\ call'[v].role = SuperRole => IsSuper(call'[v].name)
            /\ call'[v].op = "deleteRole" => call'[v].role # SuperRole
    <3>1. \A v \in Workers \ {w} : call'[v] = call[v] BY <1>2, Moves
    <3>2. CASE Ends(w)
      <4>1. call'[w].op = "idle" BY <3>2 DEF Ends, CallInv, Idle
      <4>2. QED BY <3>1, <4>1 DEF SuperInv
    <3>3. CASE Kept(w) BY <3>1, <3>3 DEF SuperInv, Kept
    <3>4. CASE Begins(w) BY <3>1, <3>4 DEF SuperInv, SuperKept, Begins, MayRename
    <3>5. QED BY <3>2, <3>3, <3>4, <1>2, Moves
  <2>2. SuperKept'
    <3>1. CASE InsertRole(w)
      <4>1. PICK r \in Roles, doc \in {NoRole} : roles[r] = doc /\ \A s \in Roles \ {r} : roles'[s] = roles[s]
        BY <3>1 DEF InsertRole, StoreInv
      <4>2. QED BY <4>1 DEF SuperInv, SuperKept, ActiveRole, NoRole
    <3>2. CASE WriteRole(w)
      <4>1. roles' = [roles EXCEPT ![call[w].role].name = call[w].name, ![call[w].role].updatedBy = call[w].by]
            /\ call[w].op = "updateRole"
        BY <3>2 DEF WriteRole, At
      <4>2. call[w].role = SuperRole => IsSuper(call[w].name) BY <4>1 DEF SuperInv
      <4>3. roles[SuperRole] \in Role BY DEF StoreInv
      <4>4. QED BY <4>1, <4>2, <4>3 DEF SuperInv, SuperKept, ActiveRole, StoreInv, Role
    <3>3. CASE RemoveRole(w)
      BY <3>3 DEF RemoveRole, At, SuperInv, SuperKept, ActiveRole, StoreInv
    <3>4. CASE UNCHANGED roles BY <3>4 DEF SuperInv, SuperKept, ActiveRole
    <3>5. UNCHANGED roles \/ RoleWrite(w)
      BY <1>2, WritesOf, UserTyped, TicketTyped DEF LoginEnds, store
    <3>6. QED BY <3>1, <3>2, <3>3, <3>4, <3>5 DEF RoleWrite
  <2>3. QED BY <2>1, <2>2 DEF SuperInv
<1>3. QED BY <1>1, <1>2 DEF Next

LEMMA SuperInit == Init => SuperInv
  BY UserAdminAssumption DEF Init, InitialStore, SuperInv, SuperKept, ActiveRole, IsSuper, Idle, NoRole

\* SuperKept of UserAdmin: SUPERADMIN is never renamed away or deleted,
\* however many calls work on roles at one time.
THEOREM SuperStays == Spec => []SuperKept
<1>1. TypeOK /\ CallInv /\ SuperInv /\ [Next]_vars => (TypeOK /\ CallInv /\ SuperInv)'
  BY TypeStep, TypeSplit, SuperStep
<1>2. SuperInv => SuperKept BY DEF SuperInv
<1>3. QED BY <1>1, <1>2, TypeInit, SuperInit, PTL DEF Spec

\* Every write of a user names the account it must find, and none of them
\* finds a deleted one.
LEMMA DeletedStep ==
    ASSUME StoreInv, CallInv, [Next]_vars, NEW u \in Ids, users[u].status = "deleted"
    PROVE  users'[u] = users[u]
<1>1. CASE UNCHANGED store BY <1>1 DEF store
<1>2. ASSUME NEW w \in Workers, UserWrite(w) PROVE users'[u] = users[u]
  <2>1. CASE Stamp(w) BY <2>1 DEF Stamp, AllowsLogin, StoreInv
  <2>2. CASE Promote(w) BY <2>2 DEF Promote, Promoted, StoreInv
  <2>3. CASE WriteUser(w) BY <2>3 DEF WriteUser, Writable, StoreInv
  <2>4. CASE RemoveUser(w) BY <2>4 DEF RemoveUser, Writable, StoreInv
  <2>5. CASE InsertUser(w) BY <2>5 DEF InsertUser, Create, NoUser, StoreInv
  <2>6. QED BY <1>2, <2>1, <2>2, <2>3, <2>4, <2>5 DEF UserWrite
<1>3. QED BY <1>1, <1>2, Writes, RoleTyped, TicketTyped DEF LoginEnds

\* DeletedForGood of UserAdmin: no write of a call in flight touches an
\* account once it is deleted.
THEOREM DeletedStay == Spec => DeletedForGood
<1>1. TypeOK /\ CallInv /\ [Next]_vars
      => [\A u \in Ids : users[u].status = "deleted" => users'[u] = users[u]]_vars
  BY DeletedStep, TypeSplit
<1>2. TypeOK /\ CallInv /\ [Next]_vars => (TypeOK /\ CallInv)' BY TypeStep
<1>3. QED BY <1>1, <1>2, TypeInit, PTL DEF Spec, DeletedForGood

-----------------------------------------------------------------------------
(***************************************************************************)
(* Blocked accounts.                                                       *)
(***************************************************************************)
\* A call that can open an account has an administrator.
AskerInv ==
    \A w \in Workers :
        call[w].op \in {"update", "suspend", "unsuspend", "register"} => call[w].by \in Ids

LEMMA AskerStep ==
    ASSUME StoreInv, CallInv, AskerInv, [Next]_vars
    PROVE  AskerInv'
<1>1. CASE UNCHANGED vars BY <1>1 DEF vars, AskerInv
<1>2. ASSUME NEW w \in Workers, Accounts(w) \/ Registrations(w) \/ RoleCalls(w) \/ Stop(w)
      PROVE  AskerInv'
  <2>1. \A v \in Workers \ {w} : call'[v] = call[v] BY <1>2, Moves
  <2>2. call'[w].op \in {"update", "suspend", "unsuspend", "register"} => call'[w].by \in Ids
    <3>1. CASE Ends(w) BY <3>1 DEF Ends, CallInv, Idle
    <3>2. CASE Kept(w) BY <3>2 DEF Kept, AskerInv
    <3>3. CASE Begins(w) BY <3>3 DEF Begins, StoreInv
    <3>4. QED BY <1>2, <3>1, <3>2, <3>3, Moves
  <2>3. QED BY <2>1, <2>2 DEF AskerInv
<1>3. QED BY <1>1, <1>2 DEF Next

\* Of the writes of an account only that of an administrator's call opens a blocked one.
Unblocks(w, u) == call[w].step = "write" /\ call[w].user = u /\ call[w].by # None

LEMMA UnblockStep ==
    ASSUME StoreInv, CallInv, AskerInv, [Next]_vars, NEW u \in Ids,
           users[u].status \in FormStatuses \ AllowsLogin, users'[u].status \in AllowsLogin
    PROVE  \E w \in Workers : Unblocks(w, u)
<1>1. CASE UNCHANGED store BY <1>1 DEF store
<1>2. ASSUME NEW w \in Workers, UserWrite(w) PROVE Unblocks(w, u)
  <2>1. CASE Stamp(w) BY <2>1 DEF Stamp, StoreInv, User
  <2>2. CASE Promote(w) BY <2>2 DEF Promote, Promoted, AllowsLogin, StoreInv, User
  <2>3. CASE WriteUser(w)
    <3>1. call[w].user = u BY <2>3 DEF WriteUser, StoreInv
    <3>2. call[w].by # None BY <2>3, UserAdminAssumption DEF WriteUser, AskerInv
    <3>3. QED BY <2>3, <3>1, <3>2 DEF WriteUser, Unblocks
  <2>4. CASE RemoveUser(w) BY <2>4 DEF RemoveUser, AllowsLogin, StoreInv, User
  <2>5. CASE InsertUser(w) BY <2>5 DEF InsertUser, Create, NoUser, FormStatuses, StoreInv
  <2>6. QED BY <1>2, <2>1, <2>2, <2>3, <2>4, <2>5 DEF UserWrite
<1>3. QED BY <1>1, <1>2, Writes, RoleTyped, TicketTyped DEF LoginEnds

\* OnlyAdminsUnblock of UserAdmin: neither of a login's two writes, nor a call
\* without an administrator behind it, opens an account that was blocked.
THEOREM BlockedStayBlocked == Spec => OnlyAdminsUnblock
<1>1. TypeOK /\ CallInv /\ AskerInv /\ [Next]_vars
      => [\A u \in Ids :
             users[u].status \in FormStatuses \ AllowsLogin /\ users'[u].status \in AllowsLogin =>
                 \E w \in Workers : call[w].step = "write" /\ call[w].user = u /\ call[w].by # None]_vars
  BY UnblockStep, TypeSplit DEF Unblocks
<1>2. TypeOK /\ CallInv /\ AskerInv /\ [Next]_vars => (TypeOK /\ CallInv /\ AskerInv)'
  BY TypeStep, TypeSplit, AskerStep
<1>3. Init => AskerInv BY DEF Init, AskerInv, Idle
<1>4. QED BY <1>1, <1>2, <1>3, TypeInit, PTL DEF Spec, OnlyAdminsUnblock

-----------------------------------------------------------------------------
(***************************************************************************)
(* Names.                                                                  *)
(***************************************************************************)
LEMMA AccountsKept ==
    ASSUME StoreInv, CallInv, NEW w \in Workers, UserWrite(w), ~InsertUser(w), NEW u \in Ids
    PROVE  /\ users'[u].name = users[u].name /\ users'[u].createdBy = users[u].createdBy
           /\ Stored(u)' <=> Stored(u)
<1>a. CallOK(call[w]) BY CallFields
<1>b. users[u] \in User BY DEF StoreInv
<1>1. CASE Stamp(w) BY <1>1, <1>b DEF Stamp, StoreInv, Stored, User
<1>2. CASE Promote(w) BY <1>2, <1>b DEF Promote, Promoted, StoreInv, Stored, User
<1>3. CASE WriteUser(w)
  <2>1. call[w].status \in FormStatuses BY <1>3, <1>a DEF WriteUser, CallOK
  <2>2. QED BY <1>3, <2>1, <1>b DEF WriteUser, Writable, StoreInv, Stored, User, FormStatuses
<1>4. CASE RemoveUser(w) BY <1>4, <1>b DEF RemoveUser, Writable, StoreInv, Stored, User
<1>5. QED BY <1>1, <1>2, <1>3, <1>4 DEF UserWrite

LEMMA AccountCreated ==
    ASSUME StoreInv, CallInv, NEW w \in Workers, InsertUser(w)
    PROVE  \E u \in Ids :
               /\ ~Stored(u) /\ Stored(u)'
               /\ users'[u].name = call[w].name /\ users'[u].createdBy = call[w].by
               /\ \A v \in Ids : users[v].name # call[w].name
               /\ \A v \in Ids \ {u} : users'[v] = users[v]
               /\ call[w].ticket # None =>
                      call' = [call EXCEPT ![w].step = "fulfil", ![w].user = u]
               /\ call[w].ticket = None => Ends(w)
<1>1. PICK u \in Ids :
        /\ users[u] = NoUser
        /\ Create(u, call[w])
        /\ IF call[w].ticket = None THEN End(w)
           ELSE call' = [call EXCEPT ![w].step = "fulfil", ![w].user = u] /\ UNCHANGED calls
  BY DEF InsertUser
<1>2. users' = [users EXCEPT ![u] = Registered(call[w])] /\ UniqueUsername(call[w].name)
  BY <1>1 DEF Create
<1>3. ~Stored(u) /\ Stored(u)' /\ users'[u].name = call[w].name /\ users'[u].createdBy = call[w].by
  BY <1>1, <1>2 DEF Stored, Registered, NoUser, StoreInv
<1>4. QED BY <1>1, <1>2, <1>3 DEF UniqueUsername, StoreInv, End, Ends

LEMMA NamesStep ==
    ASSUME StoreInv, CallInv, NamesInv, [Next]_vars
    PROVE  NamesInv'
<1> DEFINE UserNames == \A u, v \in Ids : Stored(u) /\ Stored(v) /\ users[u].name = users[v].name => u = v
           Spellings == \A r, s \in Roles :
                            ActiveRole(r) /\ ActiveRole(s) /\ roles[r].name = roles[s].name => r = s
<1>1. CASE UNCHANGED <<users, roles>> BY <1>1 DEF NamesInv, Stored, ActiveRole
<1>2. ASSUME NEW w \in Workers, UserWrite(w) PROVE UserNames' /\ UNCHANGED roles
  <2>1. CASE InsertUser(w)
    <3>1. PICK x \in Ids :
            /\ ~Stored(x) /\ Stored(x)' /\ users'[x].name = call[w].name
            /\ \A v \in Ids : users[v].name # call[w].name
            /\ \A v \in Ids \ {x} : users'[v] = users[v]
      BY <2>1, AccountCreated
    <3>2. QED BY <3>1, <1>2, UserTyped DEF NamesInv, Stored
  <2>2. CASE ~InsertUser(w) BY <2>2, <1>2, AccountsKept, UserTyped DEF NamesInv
  <2>3. QED BY <2>1, <2>2
<1>3. ASSUME NEW w \in Workers, RoleWrite(w) PROVE Spellings' /\ UNCHANGED users
  <2>1. CASE InsertRole(w)
    <3>1. PICK r \in Roles :
            /\ UniqueRoleName(call[w].name, r)
            /\ roles' = [roles EXCEPT ![r] = [NoRole EXCEPT !.status = "active", !.name = call[w].name,
                                                            !.createdBy = call[w].by]]
      BY <2>1 DEF InsertRole
    <3>2. roles'[r].name = call[w].name /\ \A s \in Roles \ {r} : roles'[s] = roles[s]
      BY <3>1 DEF StoreInv, NoRole
    <3>3. QED BY <3>1, <3>2, <2>1 DEF InsertRole, NamesInv, UniqueRoleName, ActiveRole
  <2>2. CASE WriteRole(w)
    <3>1. call[w].role \in Roles BY <2>2, CallFields DEF WriteRole, At, CallOK
    <3>2. /\ roles'[call[w].role].name = call[w].name
          /\ \A s \in Roles \ {call[w].role} : roles'[s] = roles[s]
      BY <3>1, <2>2 DEF WriteRole, StoreInv, Role
    <3>3. \A s \in Roles \ {call[w].role} :
            ActiveRole(s)' => ActiveRole(s) /\ roles'[s].name = roles[s].name /\ roles[s].name # call[w].name
      BY <3>1, <3>2, <2>2 DEF WriteRole, UniqueRoleName, ActiveRole
    <3>4. Spellings' BY <3>1, <3>2, <3>3 DEF NamesInv, ActiveRole
    <3>5. QED BY <3>4, <2>2 DEF WriteRole
  <2>3. CASE RemoveRole(w)
    <3> DEFINE r == call[w].role
    <3>1. r \in Roles BY <2>3, CallFields DEF RemoveRole, At, CallOK
    <3>2. roles' = [roles EXCEPT ![r].status = "deleted", ![r].deletedBy = call[w].by] BY <2>3 DEF RemoveRole
    <3> HIDE DEF r
    <3>3. /\ roles'[r].name = roles[r].name /\ roles'[r].status = "deleted"
          /\ \A s \in Roles \ {r} : roles'[s] = roles[s]
      BY <3>1, <3>2 DEF StoreInv, Role
    <3>4. \A s \in Roles : roles'[s].name = roles[s].name /\ (ActiveRole(s)' => ActiveRole(s))
      BY <3>3 DEF ActiveRole
    <3>5. QED BY <3>4, <2>3 DEF RemoveRole, NamesInv
  <2>4. QED BY <1>3, <2>1, <2>2, <2>3 DEF RoleWrite
<1>4. UNCHANGED users => UserNames' BY DEF NamesInv, Stored
<1>5. UNCHANGED roles => Spellings' BY DEF NamesInv, ActiveRole
<1>6. UserNames' /\ Spellings'
  BY <1>1, <1>2, <1>3, <1>4, <1>5, Writes, TicketTyped DEF store, LoginEnds, NamesInv
<1>7. QED BY <1>6 DEF NamesInv

LEMMA NamesInit == Init => NamesInv
  BY UserAdminAssumption DEF Init, InitialStore, NamesInv, Stored, ActiveRole, NoUser, NoRole

\* NamesUnique of UserAdmin: concurrent registrations, creations and renames
\* never leave two live accounts, or two active roles, with one name.
THEOREM NamesStayUnique == Spec => []NamesUnique
<1>1. TypeOK /\ CallInv /\ NamesInv /\ [Next]_vars => (TypeOK /\ CallInv /\ NamesInv)'
  BY TypeStep, TypeSplit, NamesStep
<1>2. NamesInv => NamesUnique BY DEF NamesInv, NamesUnique, Stored, Live
<1>3. QED BY <1>1, <1>2, TypeInit, NamesInit, PTL DEF Spec

-----------------------------------------------------------------------------
(***************************************************************************)
(* Closed requests.  The account is inserted in one write and its request  *)
(* closed in another; between them the call alone knows of the account.    *)
(***************************************************************************)
LEMMA CallFrame ==
    ASSUME CallInv, NEW w \in Workers, Accounts(w) \/ Registrations(w) \/ RoleCalls(w) \/ Stop(w),
           ~InsertUser(w)
    PROVE  \A v \in Workers : Fulfilling(v)' => v # w /\ Fulfilling(v) /\ call'[v] = call[v]
<1>1. \A v \in Workers \ {w} : call'[v] = call[v] BY Moves
<1>2. ~Fulfilling(w)'
  <2>1. CASE Ends(w) BY <2>1 DEF Ends, CallInv, Idle, Fulfilling
  <2>2. CASE Kept(w) BY <2>2 DEF Kept, Fulfilling
  <2>3. CASE Begins(w) BY <2>3 DEF Begins, Fulfilling
  <2>4. QED BY <2>1, <2>2, <2>3, Moves
<1>3. QED BY <1>1, <1>2 DEF Fulfilling

LEMMA TicketStep ==
    ASSUME StoreInv, StoreInv', CallInv, CallInv', NamesInv, TicketInv, [Next]_vars
    PROVE  TicketInv'
<1> USE UserAdminAssumption
<1>1. CASE UNCHANGED vars BY <1>1 DEF vars, TicketInv, Stored, Fulfilling
<1>2. ASSUME NEW w \in Workers, Accounts(w) \/ Registrations(w) \/ RoleCalls(w) \/ Stop(w)
      PROVE  TicketInv'
  <2>b. \A t \in Tickets : tickets[t] \in Ticket BY DEF StoreInv
  <2>c. \A v \in Workers : Fulfilling(v) => call[v].user \in Ids /\ call[v].ticket \in Tickets
    BY CallFields DEF Fulfilling, CallOK
  <2>1. CASE InsertUser(w)
    <3>1. PICK x \in Ids :
            /\ ~Stored(x) /\ Stored(x)' /\ users'[x].createdBy = call[w].by
            /\ \A v \in Ids \ {x} : users'[v] = users[v]
            /\ call[w].ticket # None =>
                   call' = [call EXCEPT ![w].step = "fulfil", ![w].user = x]
            /\ call[w].ticket = None => Ends(w)
      BY <2>1, AccountCreated
    <3>2. UNCHANGED tickets BY <2>1 DEF InsertUser
    <3>3. \A t \in Tickets : tickets[t].fulfilledUserId # x
      BY <3>1, UserAdminAssumption DEF TicketInv
    <3>4. \A u \in Ids : Stored(u) => Stored(u)' /\ users'[u].createdBy = users[u].createdBy
      BY <3>1 DEF Stored
    <3>5. \A v \in Workers \ {w} : call'[v] = call[v] BY <1>2, Moves
    <3>6. ~Fulfilling(w) BY <2>1 DEF InsertUser, At, Fulfilling
    <3>7. Fulfilling(w)' => call'[w].user = x /\ call'[w].by = call[w].by
      BY <3>1 DEF CallInv, Call, Ends, Idle, Fulfilling
    <3>8. \A v \in Workers \ {w} : Fulfilling(v)' => Fulfilling(v) /\ call[v].user # x
      BY <3>1, <3>5 DEF TicketInv, Fulfilling
    <3>9. ASSUME NEW v \in Workers, Fulfilling(v)'
          PROVE  /\ Stored(call[v].user)' /\ users'[call'[v].user].createdBy = call'[v].by
                 /\ \A t \in Tickets : tickets'[t].fulfilledUserId # call'[v].user
                 /\ \A o \in Workers : Fulfilling(o)' /\ call'[o].user = call'[v].user => o = v
      <4>1. CASE v = w
        <5>1. call'[v].user = x /\ call'[v].by = call[w].by BY <4>1, <3>7, <3>9
        <5>2. Stored(call[v].user)' /\ users'[call'[v].user].createdBy = call'[v].by
          BY <5>1, <3>1 DEF Stored
        <5>3. \A t \in Tickets : tickets'[t].fulfilledUserId # call'[v].user BY <5>1, <3>2, <3>3
        <5>4. ASSUME NEW o \in Workers, Fulfilling(o)', call'[o].user = call'[v].user PROVE o = v
          <6>1. CASE o = w BY <6>1, <4>1
          <6>2. CASE o # w BY <6>2, <5>1, <5>4, <3>5, <3>8
          <6>3. QED BY <6>1, <6>2
        <5>5. QED BY <5>2, <5>3, <5>4
      <4>2. CASE v # w BY <4>2, <3>2, <3>4, <3>5, <3>7, <3>8, <3>9, <2>c DEF TicketInv
      <4>3. QED BY <4>1, <4>2
    <3>10. QED BY <3>2, <3>3, <3>4, <3>9, <2>b DEF TicketInv, Ticket
  <2>2. CASE ~InsertUser(w)
    <3>1. \A u \in Ids : users'[u].createdBy = users[u].createdBy /\ (Stored(u)' <=> Stored(u))
      <4>1. CASE UserWrite(w) BY <4>1, <2>2, AccountsKept
      <4>2. CASE UNCHANGED users BY <4>2 DEF Stored
      <4>3. QED BY <4>1, <4>2, <1>2, WritesOf, RoleTyped, TicketTyped DEF store, LoginEnds
    <3>2. \A v \in Workers : Fulfilling(v)' => v # w /\ Fulfilling(v) /\ call'[v] = call[v]
      BY <1>2, <2>2, CallFrame
    <3>3. CASE UNCHANGED tickets
      <4>1. ASSUME NEW v \in Workers, Fulfilling(v)'
            PROVE  /\ Stored(call[v].user)' /\ users'[call'[v].user].createdBy = call'[v].by
                   /\ \A t \in Tickets : tickets'[t].fulfilledUserId # call'[v].user
                   /\ \A o \in Workers : Fulfilling(o)' /\ call'[o].user = call'[v].user => o = v
        BY <3>1, <3>2, <3>3, <4>1, <2>c DEF TicketInv
      <4>2. QED BY <3>1, <3>3, <4>1, <2>b DEF TicketInv, Ticket
    <3>4. CASE InsertTicket(w)
      <4>1. PICK t \in Tickets : tickets[t].status = "absent" /\ tickets' = [tickets EXCEPT ![t] = Pending(call[w].name)]
        BY <3>4 DEF InsertTicket
      <4>2. tickets[t].fulfilledUserId = None /\ tickets'[t].fulfilledUserId = None /\ tickets'[t].status = "pending"
            /\ \A o \in Tickets \ {t} : tickets'[o] = tickets[o]
        BY <4>1, <2>b DEF StoreInv, TicketInv, Pending, NoTicket
      <4>3. ASSUME NEW v \in Workers, Fulfilling(v)'
            PROVE  /\ Stored(call[v].user)' /\ users'[call'[v].user].createdBy = call'[v].by
                   /\ \A o \in Tickets : tickets'[o].fulfilledUserId # call'[v].user
                   /\ \A o \in Workers : Fulfilling(o)' /\ call'[o].user = call'[v].user => o = v
        BY <3>1, <3>2, <4>2, <4>3, <2>c DEF TicketInv
      <4>4. QED BY <3>1, <4>2, <4>3, <2>b DEF TicketInv, Ticket
    <3>5. CASE Fulfil(w)
      <4> DEFINE t == call[w].ticket
                 u == call[w].user
      <4>1. Fulfilling(w) /\ t \in Tickets /\ u \in Ids BY <3>5, <2>c DEF Fulfil, At, Fulfilling
      <4>2. tickets[t].status = "pending"
            /\ tickets' = [tickets EXCEPT ![t].status = "fulfilled", ![t].fulfilledBy = call[w].by,
                                          ![t].fulfilledUserId = u]
        BY <3>5 DEF Fulfil
      <4> HIDE DEF t, u
      <4>3. /\ tickets'[t].status = "fulfilled" /\ tickets'[t].fulfilledUserId = u
            /\ tickets'[t].fulfilledBy = call[w].by
            /\ \A o \in Tickets \ {t} : tickets'[o] = tickets[o]
        BY <4>1, <4>2, <2>b DEF StoreInv, Ticket
      <4>4. /\ Stored(u) /\ users[u].createdBy = call[w].by
            /\ \A o \in Tickets : tickets[o].fulfilledUserId # u
        BY <4>1 DEF TicketInv, u
      <4>5. ASSUME NEW v \in Workers, Fulfilling(v)'
            PROVE  /\ Stored(call[v].user)' /\ users'[call'[v].user].createdBy = call'[v].by
                   /\ \A o \in Tickets : tickets'[o].fulfilledUserId # call'[v].user
                   /\ \A o \in Workers : Fulfilling(o)' /\ call'[o].user = call'[v].user => o = v
        <5>1. v # w /\ Fulfilling(v) /\ call'[v] = call[v] BY <3>2, <4>5
        <5>2. call[v].user # u BY <5>1, <4>1 DEF TicketInv, u
        <5>3. QED BY <5>1, <5>2, <3>1, <3>2, <4>3, <2>c DEF TicketInv
      <4>6. QED BY <3>1, <4>1, <4>3, <4>4, <4>5, <2>b DEF TicketInv, Ticket
    <3>6. QED BY <3>3, <3>4, <3>5, <1>2, WritesOf, UserTyped, RoleTyped DEF TicketWrite, store, LoginEnds
  <2>3. QED BY <2>1, <2>2
<1>3. QED BY <1>1, <1>2 DEF Next

LEMMA TicketInit == Init => TicketInv
<1> USE UserAdminAssumption
<1> SUFFICES ASSUME Init PROVE TicketInv
  OBVIOUS
<1>1. \A t \in Tickets : tickets[t].fulfilledUserId = None /\ tickets[t].status # "fulfilled"
  <2>1. \A m \in Names : Pending(m).fulfilledUserId = None /\ Pending(m).status # "fulfilled"
    BY DEF Pending, NoTicket
  <2>2. PICK t \in Tickets, ticket \in {NoTicket} \cup {Pending(m) : m \in Names} :
           tickets = [i \in Tickets |-> IF i = t THEN ticket ELSE NoTicket]
    BY DEF Init, InitialStore
  <2>3. QED BY <2>1, <2>2 DEF NoTicket
<1>2. \A w \in Workers : call[w].op = "idle" BY DEF Init, Idle
<1>3. QED BY <1>1, <1>2 DEF TicketInv, Fulfilling

\* ClosedHonestly of UserAdmin: whoever approves what at the same time, under whatever
\* name, and wherever calls break off, a closed request has an account of its own, which
\* the one who closed it has inserted.
THEOREM RequestsCloseHonestly == Spec => []ClosedHonestly
<1>1. TypeOK /\ CallInv /\ NamesInv /\ TicketInv /\ [Next]_vars
      => (TypeOK /\ CallInv /\ NamesInv /\ TicketInv)'
  BY TypeStep, TypeSplit, NamesStep, TicketStep DEF TypeOK, StoreInv
<1>2. TypeOK /\ TicketInv => ClosedHonestly
  BY UserAdminAssumption DEF TypeOK, Ticket, TicketInv, ClosedHonestly, Stored
<1>3. QED BY <1>1, <1>2, TypeInit, NamesInit, TicketInit, PTL DEF Spec
=============================================================================
