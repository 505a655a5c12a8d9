SPECIFICATION Spec
CONSTANTS
    Ids = {root, u1, u2}
    Root = root
    Names = {n1, n2}
    Roles = {super, r1, r2}
    SuperRole = super
    RoleNames <- MCRoleNames
    Super = SUPERADMIN
    SUPERADMIN = SUPERADMIN
    SuperAdmin = SuperAdmin
    Operator = Operator
    Teller = Teller
    Fold <- MCFold
    Tickets = {t1, t2}
    Workers = {w1, w2}
    MaxCalls = 2
    None = None
SYMMETRY Symmetry
INVARIANTS TypeOK NamesUnique SuperKept ClosedHonestly
PROPERTIES DeletedForGood OnlyAdminsUnblock
CHECK_DEADLOCK FALSE
