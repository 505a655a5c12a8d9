----------------------------- MODULE AdminSlots -----------------------------
(***************************************************************************)
(* The request slots of the administration screens, by the habits          *)
(* RequestSlot distinguishes.  All are plain.  A question to a list is the *)
(* state of the server the page waits for: its page fetches the list when  *)
(* it opens, when the session is refreshed and after each change it made.                       *)
(***************************************************************************)
EXTENDS SlotHabits

UsersThunk == PlainThunk
UsersSlice == [PlainSlice EXCEPT !.heals = TRUE]
UsersPage == PlainPage
UsersSlot == [thunk |-> UsersThunk, slice |-> UsersSlice, screens |-> {UsersPage}]

RolesThunk == PlainThunk
RolesSlice == PlainSlice
RolesPage == PlainPage
RolesSlot == [thunk |-> RolesThunk, slice |-> RolesSlice, screens |-> {RolesPage}]

PermissionsThunk == PlainThunk
PermissionsSlice == PlainSlice
PermissionsPage == PlainPage
PermissionsSlot ==
    [thunk |-> PermissionsThunk, slice |-> PermissionsSlice, screens |-> {PermissionsPage}]

\* One user, role, permission or account request, viewed or edited.  Where the cleanup
\* of the effect clears what was selected, the next question starts from nothing.
UserThunk == PlainThunk
UserSlice ==
    [PlainSlice EXCEPT !.drops = "all", !.heals = TRUE, !.wipes = "always", !.clears = {"rows"}]
UserEdit == [PlainPage EXCEPT !.leaves = TRUE]
UserView == UserEdit
UserSlot == [thunk |-> UserThunk, slice |-> UserSlice, screens |-> {UserEdit, UserView}]

\* The role that is edited is not cleared when the screen is left.
RoleThunk == PlainThunk
RoleSlice == UserSlice
RoleEdit == PlainPage
RoleView == [PlainPage EXCEPT !.leaves = TRUE]
RoleSlot == [thunk |-> RoleThunk, slice |-> RoleSlice, screens |-> {RoleEdit, RoleView}]

PermissionThunk == PlainThunk
PermissionSlice == [PlainSlice EXCEPT !.wipes = "always", !.clears = {"rows"}]
PermissionEdit == [PlainPage EXCEPT !.leaves = TRUE]
PermissionView == PermissionEdit
PermissionSlot ==
    [thunk |-> PermissionThunk, slice |-> PermissionSlice,
     screens |-> {PermissionEdit, PermissionView}]

RequestThunk == PlainThunk
RequestSlice == UserSlice
RequestForm == [PlainPage EXCEPT !.leaves = TRUE]
RequestFormSlot == [thunk |-> RequestThunk, slice |-> RequestSlice, screens |-> {RequestForm}]

RequestsThunk == PlainThunk
RequestsSlice == [PlainSlice EXCEPT !.heals = TRUE]
RequestsPage == PlainPage
RequestsSlot == [thunk |-> RequestsThunk, slice |-> RequestsSlice, screens |-> {RequestsPage}]

\* The activity log of a range and kind of action.
ActivityLogThunk == PlainThunk
ActivityLogSlice == [PlainSlice EXCEPT !.clears = {"rows", "loading"}]
ActivityLogPage == [PlainPage EXCEPT !.empties = "keeps", !.leaves = TRUE]
ActivityLogSlot ==
    [thunk |-> ActivityLogThunk, slice |-> ActivityLogSlice, screens |-> {ActivityLogPage}]

AdminSlots ==
    {UsersSlot, RolesSlot, PermissionsSlot, UserSlot, RoleSlot, PermissionSlot, RequestFormSlot,
     RequestsSlot, ActivityLogSlot}
=============================================================================
