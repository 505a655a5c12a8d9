------------------------------ MODULE MCPortal ------------------------------
EXTENDS Session
CONSTANTS u1, u2, t1, t2

(* The permissions the back end seeds, and the roles it makes of them.     *)
UserRights ==
    {"user:" \o a : a \in {"view", "view-details", "create", "update", "suspend", "delete"}}
RoleRights == {"role:" \o a : a \in {"view", "view-details", "create", "update", "delete"}}
PermissionRights ==
    {"permission:" \o a : a \in {"view", "view-details", "create", "update", "delete"}}
AtmRates == {RateRight("atm-" \o f) : f \in {"overall", "acquiring", "onus", "offus", "issuing"}}
PosRates == {RateRight("pos-" \o f) : f \in {"overall", "acquiring", "onus", "offus", "issuing"}}
AllRates ==
    {RateRight(k) : k \in RateKinds} \cup {LegacyRight, "report:browse-success-transactions"}
SwitchLookups == {"report:search-switch-transactions", "report:view-alpha-response"}
Lookups == SwitchLookups \cup {"report:search-cortex-transactions"}
ReportsExceptMix ==
    {"report:view-deposit-per-terminal", "report:view-ebirr-cardless-withdrawal"}
    \cup Lookups \cup ReconExportNeeds
MonitoringRights ==
    {"monitoring:view-" \o f : f \in {"onus", "offus", "atm", "mastercard-debit",
                                      "mastercard-credit", "visa", "ist", "saf"}}
    \cup {"monitoring:run-switch"}
TerminalRights ==
    {"terminal:view-" \o f : f \in {"atm", "pos", "atm-transaction", "pos-transaction"}}
CardRights ==
    {"card:" \o a : a \in {"view-number-of-cards-per-status", "view-activity-dashboard",
                           "view-card-details", "view-cardholder-name", "view-prepaid-visa"}}
Catalog ==
    UserRights \cup RoleRights \cup PermissionRights \cup AllRates \cup ReportsExceptMix
    \cup {"report:view-card-product-success-rate", "report:view-transaction-mix"} \cup EJRights
    \cup MonitoringRights \cup TerminalRights \cup ClearingRights \cup SettlementRights
    \cup CardRights \cup {"activity:view"}

PaySwitch ==
    AllRates \cup ReportsExceptMix \cup {"report:view-transaction-mix"}
    \cup MonitoringRights \cup TerminalRights \cup CardRights
PayRecon == SettlementRights \cup ClearingRights \cup CardRights \cup Lookups \cup ReconExportNeeds
AccountsRecon ==
    SettlementRights \cup ClearingRights \cup EJRights \cup SwitchLookups
    \cup {"report:export-switch-terminal-recon"}
Card ==
    CardRights \cup {"report:search-switch-transactions", "report:view-card-product-success-rate"}
AtmMonitoring ==
    AtmRates \cup {"report:browse-success-transactions"} \cup ReportsExceptMix
    \cup {"terminal:view-atm", "terminal:view-atm-transaction"}
PosMonitoring ==
    PosRates \cup {"report:browse-success-transactions", "terminal:view-pos",
                   "terminal:view-pos-transaction"}
Roles == {PaySwitch, PayRecon, AccountsRecon, Card, AtmMonitoring, PosMonitoring}

-----------------------------------------------------------------------------
\* One user with one permission or one role, every page.
Wide(rights) ==
    [tabs |-> {t1}, users |-> {u1}, rights |-> rights, alternatives |-> {},
     addresses |-> Addresses, pages |-> Pages \cup Hubs, calls |-> Calls, flight |-> 1, logins |-> 1,
     changes |-> 0, people |-> "patient"]
\* Two tabs that two users sign in to.
Shared ==
    [tabs |-> {t1, t2}, users |-> {u1, u2}, rights |-> {}, alternatives |-> {},
     addresses |-> {LoginPage, HomePath},
     pages |-> {LoginPage, HomePath, "/account"}, calls |-> {"PUT /account/profile"},
     flight |-> 1, logins |-> 1, changes |-> 0, people |-> "until they meet"]
\* One tab in which both sign in, one login beside another.
Hasty == [Shared EXCEPT !.tabs = {t1}, !.flight = 2, !.logins = 2]
\* Two tabs of one user whose rights change once, or are withdrawn.
Changing ==
    [tabs |-> {t1, t2}, users |-> {u1}, rights |-> {"role:view"}, alternatives |-> {{}, None},
     addresses |-> {LoginPage, HomePath, "/roles"},
     pages |-> {LoginPage, HomePath, "/roles"}, calls |-> Calls, flight |-> 1, logins |-> 1,
     changes |-> 1, people |-> "free"]
\* One tab with two calls, and two logins, at once.
Busy ==
    [tabs |-> {t1}, users |-> {u1}, rights |-> {"role:view", "role:delete"},
     alternatives |-> {None}, addresses |-> {LoginPage, RequestPage, HomePath, "/roles"},
     pages |-> {LoginPage, RequestPage, HomePath, "/roles"}, calls |-> Calls, flight |-> 2,
     logins |-> 2, changes |-> 1, people |-> "free"]
MCWorlds ==
    {Wide({p}) : p \in Catalog} \cup {Wide(r) : r \in Roles} \cup {Wide({Super})}
    \cup {Shared, Hasty, Changing, Busy}

-----------------------------------------------------------------------------
\* Links that lead home, or nowhere, for some of those they are shown to.
MCDeadLinks ==
    {<<p, "/atm-monitoring">> : p \in Pages}
    \cup {<<HomePath, "/pos-terminal-success-rate">>}
    \cup {<<HomePath, h>> : h \in Hubs}
    \cup UNION {{<<new, list>>, <<new \o "/:id", list>>} :
                    <<new, list>> \in {<<"/user", "/users">>, <<"/role", "/roles">>,
                                       <<"/permission", "/permissions">>}}
    \cup {<<"/user/:id/edit", "/user/:id">>, <<"/role/:id/edit", "/roles">>,
          <<"/permission/:id/edit", "/permissions">>}
    \cup {<<all \o "/:terminalId/transactions", all>> : all \in {"/atm-terminals", "/pos-terminals"}}

\* Calls that a page makes for rights that admit to the page and not to the call.
MCHalfOpen ==
    ({"/deposit-per-terminal", HomePath} \X {"GET /tests/test"})
    \cup ({"/user", "/user/:id/edit"} \X {"GET /users", "GET /roles", "GET /permissions"})
    \cup ({"/role", "/role/:id/edit"} \X {"GET /roles", "GET /permissions"})
    \cup ({"/permission", "/permission/:id/edit"} \X {"GET /permissions"})
    \cup ({"/user/:id", "/role/:id"} \X {"GET /permissions"})
    \cup {<<"/ist-monitoring", "GET /terminals/atm">>}
=============================================================================
