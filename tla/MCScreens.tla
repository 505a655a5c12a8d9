----------------------------- MODULE MCScreens -----------------------------
EXTENDS Sight, ListViews, ReportViews, SearchViews, AdminViews, HomeScreens
CONSTANTS a1, a2, b1
MCSlots == ListSlots \cup ReportSlots \cup SearchSlots \cup AdminSlots \cup HomeSlots
MCCardDetail == {CardDetailSlot}
MCGroup == [q \in {a1, a2, b1} |-> IF q = b1 THEN b1 ELSE a1]
MCViews == ListViews \cup ReportViews \cup SearchViews \cup AdminViews \cup HomeViews
MCDetailViews == {CardDetailView}
MCSilent ==
    {TerminalRateView, UsersView, RolesView, PermissionsView, RequestsView, PermissionEditView}
MCLingering ==
    {CardDetailView, ActivityView, ByBranchView, EbirrView, CoverageView, DepositView,
     AtmTerminalsView, PosTerminalsView, AtmDashboardView, PosDashboardView, UsersView, RolesView,
     PermissionsView, RequestsView, ActivityLogView}
MCEndless == {TrendView, RoleEditView}
=============================================================================
