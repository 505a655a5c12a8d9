----------------------------- MODULE MCUserAdmin -----------------------------
(***************************************************************************)
(* Instances of UserAdmin for TLC.                                         *)
(***************************************************************************)
EXTENDS UserAdmin, TLC

\* Two spellings of SUPERADMIN and two other names.
CONSTANTS SUPERADMIN, SuperAdmin, Operator, Teller

MCRoleNames == {SUPERADMIN, SuperAdmin, Operator, Teller}
MCFold == [n \in MCRoleNames |-> IF n = SuperAdmin THEN SUPERADMIN ELSE n]

Symmetry == UNION {Permutations(S) :
    S \in {Ids \ {Root}, Names, Roles \ {SuperRole}, {Operator, Teller}, Workers}}
=============================================================================
