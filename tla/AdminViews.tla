----------------------------- MODULE AdminViews -----------------------------
(***************************************************************************)
(* How the administration screens show their slots, in the terms of Sight. *)
(***************************************************************************)
EXTENDS AdminSlots, ViewHabits

\* The lists of users, roles, permissions and account requests are tables that are not
\* told when they are loading.
BareTable == [loading |-> "keeps", nothing |-> "says", failure |-> "no"]
UsersView == [View(UsersSlot, UsersPage, {BareTable}) EXCEPT !.exports = TableExports]
RolesView == [View(RolesSlot, RolesPage, {BareTable}) EXCEPT !.exports = TableExports]
PermissionsView ==
    [View(PermissionsSlot, PermissionsPage, {BareTable}) EXCEPT !.exports = TableExports]
RequestsView == [View(RequestsSlot, RequestsPage, {BareTable}) EXCEPT !.exports = TableExports]

\* One user, role or permission: a spinner, then what it is, or that it was not found.
UserViewShows == [loading |-> "covers", nothing |-> "says", failure |-> "no"]
UserViewView == View(UserSlot, UserView, {UserViewShows})
RoleViewShows == UserViewShows
RoleViewView == View(RoleSlot, RoleView, {RoleViewShows})
PermissionViewShows == UserViewShows
PermissionViewView == View(PermissionSlot, PermissionView, {PermissionViewShows})

\* Their forms.  The form of a role waits for one even when none will come, but a failure
\* leads back to the list; a permission's and an account request's may be empty.
UserEditShows == [loading |-> "first", nothing |-> "says", failure |-> "no"]
UserEditView == View(UserSlot, UserEdit, {UserEditShows})
RoleEditShows == [loading |-> "covers", nothing |-> "waits", failure |-> "no"]
RoleEditView == View(RoleSlot, RoleEdit, {RoleEditShows})
PermissionEditShows == [loading |-> "first", nothing |-> "blank", failure |-> "no"]
PermissionEditView == View(PermissionSlot, PermissionEdit, {PermissionEditShows})
RequestFormShows == [loading |-> "first", nothing |-> "blank", failure |-> "no"]
RequestFormView == View(RequestFormSlot, RequestForm, {RequestFormShows})

ActivityLogView ==
    [View(ActivityLogSlot, ActivityLogPage, {TableShows}) EXCEPT !.exports = TableExports]

AdminViews ==
    {UsersView, RolesView, PermissionsView, RequestsView, UserViewView, RoleViewView,
     PermissionViewView, UserEditView, RoleEditView, PermissionEditView, RequestFormView,
     ActivityLogView}
=============================================================================
