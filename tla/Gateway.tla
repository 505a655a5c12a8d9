------------------------------- MODULE Gateway -------------------------------
(***************************************************************************)
(* The calls that the pages of the frontend make, with the permissions     *)
(* that make a page offer them, and the permissions that the API asks for  *)
(* before it runs each one.  A feed over a WebSocket is not a call here.   *)
(***************************************************************************)
EXTENDS Links

Super == "SUPERADMIN"

\* A call of the API that the role of a super administrator opens too.
Gate(call, needs) == Offer(call, needs \cup {Super})

-----------------------------------------------------------------------------
(* What the API asks for.                                                  *)

RateCall(kind) == "GET /reports" \o RatePath(kind)
LegacyRight == "report:view-success-transactions"
RateGates ==
    {Gate(RateCall(k), RateNeeds(k) \cup {LegacyRight}) : k \in RateKinds}
    \cup {Gate("GET /reports/success-rate-trend",
               {LegacyRight} \cup {RateRight(k) : k \in RateKinds}),
          Gate("GET /reports/success-transactions",
               {"report:browse-success-transactions", LegacyRight})}
ReportGates ==
    {Gate("GET /reports/pos-terminal-success-rate", {RateRight("pos-acquiring"), LegacyRight}),
     Gate("GET /reports/atm-terminal-success-rate", {RateRight("atm-acquiring"), LegacyRight}),
     Gate("GET /reports/card-product-success-rate", CardProductNeeds \cup {LegacyRight}),
     Offer("GET /reports/ebirr-cardless-withdrawal", {"report:view-ebirr-cardless-withdrawal"}),
     Gate("GET /reports/transaction-mix", {"report:view-transaction-mix"}),
     Gate("GET /reports/atm-transactions", {"terminal:view-atm-transaction"}),
     Gate("GET /reports/pos-transactions", {"terminal:view-pos-transaction"}),
     Gate("GET /reports/atm-terminal-comparison", {"terminal:view-atm-transaction"}),
     Gate("GET /reports/pos-terminal-comparison", {"terminal:view-pos-transaction"}),
     Gate("GET /reports/cortex-transactions", {"report:search-cortex-transactions"}),
     Gate("GET /reports/switch-transactions", {"report:search-switch-transactions"}),
     Gate("GET /reports/terminal-recon/chunk?source=switch", {"report:export-switch-terminal-recon"}),
     Gate("GET /reports/terminal-recon/chunk?source=cortex", {"report:export-cortex-terminal-recon"})}
EJGates ==
    {Gate(c, EJRights) :
        c \in {"GET /reports/ej-coverage", "GET /reports/ej-transactions", "GET /reports/ej-browse"}}
AtmListGate ==
    {Gate("GET /terminals/atm",
          {"terminal:view-atm", "terminal:view-atm-transaction", "report:search-ej-transactions"}
          \cup ReconExportNeeds)}
PosListGate ==
    {Gate("GET /terminals/pos",
          {"terminal:view-pos", "terminal:view-pos-transaction"} \cup ReconExportNeeds)}
ClearingGates ==
    {Offer("GET " \o HubTab("/clearing/uncleared", s), {ClearingRight("uncleared", s)}) :
        s \in ToSet(Schemes)}
    \cup {Offer("GET " \o HubTab("/clearing/cleared", s),
                {ClearingRight("cleared", s)} \cup
                (IF s = "visacbs" THEN {ClearingRight("uncleared", s)} ELSE {})) :
            s \in ToSet(Schemes)}
SettlementGates ==
    {Offer("GET " \o HubTab("/settlement/unsettled", s), {SettlementRight("unsettled", s)}) :
        s \in ToSet(Schemes)}
    \cup {Offer("GET " \o HubTab("/settlement/settled", "eth"), {SettlementRight("settled", "eth")})}
VisaGate == {Offer("GET /visa-settlements", Anyone), Offer("POST /visa-settlements/upload", Anyone)}
IPMGate ==
    {Offer(c, {"settlement:view-settled-mastercard"}) :
        c \in {"GET /mastercard-ipm", "POST /mastercard-ipm/upload"}}
CardGates ==
    {Offer("GET /card/count-per-status", {"card:view-number-of-cards-per-status"}),
     Offer("GET /card/prepaid-visa", {"card:view-prepaid-visa"}),
     Offer("GET /card/activity", {"card:view-activity-dashboard"}),
     Offer("GET /card/details", {"card:view-card-details"})}
SafGate == {Offer("GET /monitoring/saf", {"monitoring:view-saf"})}
LogGate == {Gate("GET /activity-logs", {"activity:view"})}
TestGate == {Gate("GET /tests/test", {})}
UserGates ==
    {Offer("GET /users", {"user:view"}),
     Offer("GET /users/:id", {"user:view-details", "user:update"}),
     Offer("POST /users", {"user:create"}),
     Offer("PUT /users/:id", {"user:update"}),
     Offer("POST /users/:id/suspend", {"user:suspend", "user:update"}),
     Offer("DELETE /users/:id", {"user:delete"})}
RequestGates ==
    {Offer("GET /account-requests", {"user:view", "user:create"}),
     Offer("GET /account-requests/:id", {"user:view", "user:create", "user:update"})}
RoleGates ==
    {Offer("GET /roles", {"role:view"}),
     Offer("GET /roles/:id", {"role:view", "role:view-details", "role:update"}),
     Offer("POST /roles", {"role:create"}),
     Offer("PUT /roles/:id", {"role:update"}),
     Offer("DELETE /roles/:id", {"role:delete"})}
PermissionGates ==
    {Offer("GET /permissions", {"permission:view"}),
     Offer("GET /permissions/:id", {"permission:view", "permission:view-details", "permission:update"}),
     Gate("POST /permissions", {"permission:create"}),
     Gate("PUT /permissions/:id", {"permission:update"}),
     Gate("DELETE /permissions/:id", {"permission:delete"})}
Saves == {"PUT /account/avatar", "POST /account/avatar/photo", "PUT /account/profile"}
AccountGates == {Offer(c, Anyone) : c \in Saves}

Gates ==
    RateGates \cup ReportGates \cup EJGates \cup AtmListGate \cup PosListGate \cup ClearingGates
    \cup SettlementGates \cup VisaGate \cup IPMGate \cup CardGates \cup SafGate \cup LogGate
    \cup TestGate \cup UserGates \cup RequestGates \cup RoleGates \cup PermissionGates
    \cup AccountGates

Calls == {g.to : g \in Gates}
GateNeeds == [c \in Calls |-> (CHOOSE g \in Gates : g.to = c).needs]

\* AuthorizeRolesOrPermissions: the call goes by the claims of the token it is sent with.
Accepts(call, rights) == Admits(GateNeeds[call], rights)

-----------------------------------------------------------------------------
(* What the pages call.                                                    *)

Asks(pages, calls, needs) == {<<p, Offer(c, needs)>> : p \in pages, c \in calls}

RatePageCalls ==
    {<<RatePath(k), Offer(RateCall(k), Anyone)>> : k \in RateKinds}
    \cup Asks({RatePath(k) : k \in RateKinds}, {"GET /reports/success-transactions"},
              {"report:browse-success-transactions", LegacyRight})
ReportPageCalls ==
    {<<p, Offer("GET /reports" \o p, Anyone)>> :
        p \in {"/pos-terminal-success-rate", "/atm-terminal-success-rate",
               "/card-product-success-rate", "/ebirr-cardless-withdrawal", "/transaction-mix"}}
    \cup Asks({"/success-rate-trends"}, {"GET /reports/success-rate-trend"}, Anyone)
    \cup Asks({"/deposit-per-terminal"}, {"GET /tests/test"}, Anyone)
    \cup Asks({"/cortex-transaction-search"}, {"GET /reports/cortex-transactions"}, Anyone)
    \cup Asks({"/switch-transaction-search"}, {"GET /reports/switch-transactions"}, Anyone)
ExportPageCalls ==
    Asks({"/terminal-recon-export"}, {"GET /terminals/atm", "GET /terminals/pos"}, Anyone)
    \cup Asks({"/terminal-recon-export"}, {"GET /reports/terminal-recon/chunk?source=switch"},
              {"report:export-switch-terminal-recon"})
    \cup Asks({"/terminal-recon-export"}, {"GET /reports/terminal-recon/chunk?source=cortex"},
              {"report:export-cortex-terminal-recon"})
EJPageCalls ==
    Asks({"/ej-finder", "/ej-transaction-search"},
         {"GET /reports/ej-transactions", "GET /terminals/atm"}, Anyone)
    \cup Asks({"/ej-coverage"}, {"GET /reports/ej-coverage"}, Anyone)
    \cup Asks({"/ej-by-terminal"}, {"GET /reports/ej-browse"}, Anyone)
MonitoringPageCalls ==
    Asks({"/ist-monitoring"}, {"GET /terminals/atm"}, Anyone)
    \cup Asks({"/saf-monitoring"}, {"GET /monitoring/saf"}, Anyone)
TerminalPageCalls ==
    LET of(f) ==
        Asks({"/" \o f \o "-dashboard", "/" \o f \o "-terminals"},
             {"GET /terminals/" \o f}, Anyone)
        \cup Asks({"/" \o f \o "-terminals/:terminalId/transactions", "/" \o f \o "-transactions"},
                  {"GET /terminals/" \o f, "GET /reports/" \o f \o "-transactions"}, Anyone)
        \cup Asks({"/" \o f \o "-comparison"},
                  {"GET /reports/" \o f \o "-terminal-comparison"}, Anyone)
    IN  of("atm") \cup of("pos")
HubPageCalls ==
    {<<p, Offer("GET " \o p, Anyone)>> :
        p \in TabbedPages \ {SettledTabs[2].to, SettledTabs[3].to}}
    \cup Asks({SettledTabs[2].to}, {"GET /visa-settlements", "POST /visa-settlements/upload"}, Anyone)
    \cup Asks({SettledTabs[3].to}, {"GET /mastercard-ipm", "POST /mastercard-ipm/upload"}, Anyone)
CardPageCalls ==
    Asks({"/cards-per-status"}, {"GET /card/count-per-status"}, Anyone)
    \cup Asks({"/card-activity"}, {"GET /card/activity"}, Anyone)
    \cup Asks({"/card-activity"}, {"GET /card/details"}, {"card:view-card-details"})
    \cup Asks(PrepaidPaths, {"GET /card/prepaid-visa"}, Anyone)
UserPageCalls ==
    Asks({"/users"}, {"GET /users"}, Anyone)
    \cup Asks({"/users"}, {"POST /users/:id/suspend"}, {"user:suspend", "user:update"})
    \cup Asks({"/users"}, {"DELETE /users/:id"}, {"user:delete"})
    \cup Asks({"/user"}, {"GET /roles", "GET /permissions", "GET /account-requests/:id",
                          "POST /users", "GET /users"}, Anyone)
    \cup Asks({"/user/:id"}, {"GET /users/:id", "GET /permissions"}, Anyone)
    \cup Asks({"/user/:id/edit"}, {"GET /users/:id", "GET /roles", "GET /permissions",
                                   "PUT /users/:id", "GET /users"}, Anyone)
    \cup Asks({"/account-requests"}, {"GET /account-requests"}, Anyone)
RolePageCalls ==
    Asks({"/roles"}, {"GET /roles"}, Anyone)
    \cup Asks({"/roles"}, {"DELETE /roles/:id"}, {"role:delete"})
    \cup Asks({"/role"}, {"GET /permissions", "POST /roles", "GET /roles"}, Anyone)
    \cup Asks({"/role/:id"}, {"GET /roles/:id", "GET /permissions"}, Anyone)
    \cup Asks({"/role/:id/edit"}, {"GET /roles/:id", "GET /permissions", "PUT /roles/:id",
                                   "GET /roles"}, Anyone)
PermissionPageCalls ==
    Asks({"/permissions"}, {"GET /permissions"}, Anyone)
    \cup Asks({"/permissions"}, {"DELETE /permissions/:id"}, {"permission:delete"})
    \cup Asks({"/permission"}, {"POST /permissions", "GET /permissions"}, Anyone)
    \cup Asks({"/permission/:id"}, {"GET /permissions/:id"}, Anyone)
    \cup Asks({"/permission/:id/edit"}, {"GET /permissions/:id", "PUT /permissions/:id",
                                         "GET /permissions"}, Anyone)
OtherPageCalls ==
    Asks({"/activity-log"}, {"GET /activity-logs"}, Anyone)
    \cup Asks({"/account"}, Saves, Anyone)

PageCalls ==
    RatePageCalls \cup ReportPageCalls \cup ExportPageCalls \cup EJPageCalls
    \cup MonitoringPageCalls \cup TerminalPageCalls \cup HubPageCalls \cup CardPageCalls
    \cup UserPageCalls \cup RolePageCalls \cup PermissionPageCalls \cup OtherPageCalls

\* Home asks for what its sections show: of the rates for one, of the queues for each.
HomeRateCalls(rights) == {RateCall(k) : k \in {k \in ToSet(HomeRates) : IsHomeRate(k, rights)}}
HomeRateOffers == {Offer(RateCall(k), {RateRight(k)}) : k \in ToSet(HomeRates)}
HomeReportOffers == {Offer("GET /tests/test", {"report:view-deposit-per-terminal"})}
HomeQueueOffers ==
    {Offer("GET " \o tab.to, tab.needs) : tab \in ToSet(UnclearedTabs) \cup ToSet(UnsettledTabs)}
    \cup {Offer("GET /reports/ej-coverage", EJRights)}
HomeCardOffers ==
    {Offer("GET /card/activity", {"card:view-activity-dashboard"}),
     Offer("GET /card/count-per-status", {"card:view-number-of-cards-per-status"}),
     Offer("GET /card/prepaid-visa", {"card:view-prepaid-visa"})}
HomeSectionOffers == HomeReportOffers \cup HomeQueueOffers \cup HomeCardOffers

\* The calls a page may make, and those it makes for a user.
CallOffersOn(page) ==
    {x[2] : x \in {x \in PageCalls : x[1] = page}}
    \cup (IF page = HomePath THEN HomeRateOffers \cup HomeSectionOffers ELSE {})
CallsOn(page, rights) ==
    Shown({x[2] : x \in {x \in PageCalls : x[1] = page}}, rights)
    \cup (IF page = HomePath
          THEN HomeRateCalls(rights) \cup Shown(HomeSectionOffers, rights)
          ELSE {})
=============================================================================
