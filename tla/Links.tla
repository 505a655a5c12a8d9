-------------------------------- MODULE Links --------------------------------
(***************************************************************************)
(* The links that the web frontend offers a signed-in user: the sidebar,   *)
(* the home page and the buttons and row menus of the other pages, each    *)
(* with the permissions that make it appear.  A page that navigates by     *)
(* itself when a form is saved is listed with its links.                   *)
(***************************************************************************)
EXTENDS Navigation

Shown(offers, rights) == {o.to : o \in {l \in offers : Admits(l.needs, rights)}}

-----------------------------------------------------------------------------
(* The sidebar, on every page of the layout.                               *)

RateItems ==
    {Offer(RatePath(k), RateNeeds(k)) : k \in RateKinds}
    \cup {Offer("/pos-terminal-success-rate", {RateRight("pos-acquiring")}),
          Offer("/atm-terminal-success-rate", {RateRight("atm-acquiring")}),
          Offer("/card-product-success-rate", CardProductNeeds)}
ReportItems ==
    {Offer("/deposit-per-terminal", {"report:view-deposit-per-terminal"}),
     Offer("/ebirr-cardless-withdrawal", {"report:view-ebirr-cardless-withdrawal"}),
     Offer("/transaction-mix", {"report:view-transaction-mix"}),
     Offer("/switch-transaction-search", {"report:search-switch-transactions"}),
     Offer("/cortex-transaction-search", {"report:search-cortex-transactions"}),
     Offer("/terminal-recon-export", ReconExportNeeds)}
MonitoringItems ==
    {Offer("/" \o f \o "-monitoring", {"monitoring:view-" \o f}) :
        f \in {"ist", "saf", "atm", "onus", "offus",
               "mastercard-debit", "mastercard-credit", "visa"}}
DashboardItems ==
    UNION {{Offer("/" \o f \o "-dashboard", {"terminal:view-" \o f}),
            Offer("/" \o f \o "-transactions", {"terminal:view-" \o f \o "-transaction"}),
            Offer("/" \o f \o "-comparison", {"terminal:view-" \o f \o "-transaction"})} :
                f \in {"atm", "pos"}}
CardItems ==
    {Offer("/cards-per-status", {"card:view-number-of-cards-per-status"}),
     Offer("/card-activity", {"card:view-activity-dashboard"})}
    \cup {Offer(p, {"card:view-prepaid-visa"}) :
            p \in PrepaidPaths \ {"/prepaid-visa/search", "/prepaid-visa/reconciliation"}}
EJItems ==
    {Offer(p, {"report:search-ej-transactions"}) :
        p \in {"/ej-finder", "/ej-by-terminal", "/ej-coverage"}}
HubItems == {Offer(h, HubNeeds[h]) : h \in Hubs}
AdminItems ==
    {Offer("/users", {"user:view"}),
     Offer("/account-requests", {"user:view", "user:create"}),
     Offer("/roles", {"role:view"}),
     Offer("/permissions", {"permission:view"}),
     Offer("/analytics", {"analytics:view"}),
     Offer("/activity-log", {"activity:view"})}

\* The groups, the home entry above them and the account entry of the user menu below.
Sidebar ==
    RateItems \cup ReportItems \cup MonitoringItems \cup DashboardItems \cup CardItems
    \cup EJItems \cup HubItems \cup AdminItems
    \cup {Offer(HomePath, Anyone), Offer("/account", Anyone)}

-----------------------------------------------------------------------------
(* The home page: what it leads to depends on what it already shows.       *)

\* The one success rate home shows: the first of these that the user may see.
HomeRates == <<"switch-overall", "atm-acquiring", "atm-overall", "pos-acquiring", "pos-overall">>
IsHomeRate(kind, rights) ==
    \E i \in DOMAIN HomeRates :
        /\ HomeRates[i] = kind /\ RateRight(kind) \in rights
        /\ \A j \in DOMAIN HomeRates : j < i => RateRight(HomeRates[j]) \notin rights

\* Links to the rates that home does not show itself.
RateOffers == {Offer(RatePath(k), {RateRight(k)}) : k \in {"atm-acquiring", "atm-overall"}}
OtherRates(kinds, rights) ==
    {RatePath(k) : k \in {k \in kinds : RateRight(k) \in rights /\ ~IsHomeRate(k, rights)}}

AtmOffers ==
    {Offer("/atm-terminal-success-rate", {RateRight("atm-acquiring")}),
     Offer("/atm-dashboard", {"terminal:view-atm"}),
     Offer("/atm-transactions", {"terminal:view-atm-transaction"}),
     Offer("/atm-comparison", {"terminal:view-atm-transaction"})}
PosOffers ==
    {Offer("/pos-overall-success-rate", {RateRight("pos-overall")}),
     Offer("/pos-terminal-success-rate", {RateRight("pos-overall")}),
     Offer("/pos-dashboard", {"terminal:view-pos"}),
     Offer("/pos-transactions", {"terminal:view-pos-transaction"}),
     Offer("/pos-comparison", {"terminal:view-pos-transaction"})}
TerminalLinks(rights) ==
    OtherRates({"atm-acquiring", "atm-overall"}, rights) \cup Shown(AtmOffers \cup PosOffers, rights)

SearchAndExport ==
    {Offer("/switch-transaction-search", {"report:search-switch-transactions"}),
     Offer("/terminal-recon-export", ReconExportNeeds)}

\* Links that are there whatever else home shows, and those of the whole switch.
QuickOffers ==
    {Offer("/switch-overall-success-rate", {RateRight("switch-overall")}),
     Offer("/deposit-per-terminal", {"report:view-deposit-per-terminal"}),
     Offer("/ebirr-cardless-withdrawal", {"report:view-ebirr-cardless-withdrawal"})}
WholeOffers ==
    {Offer("/atm-transactions", {"terminal:view-atm-transaction"}),
     Offer("/pos-transactions", {"terminal:view-pos-transaction"}),
     Offer("/atm-comparison", {"terminal:view-atm-transaction"}),
     Offer("/pos-comparison", {"terminal:view-pos-transaction"})}
QuickLinks(rights, whole, recon) ==
    Shown(QuickOffers, rights)
    \cup OtherRates({"atm-acquiring"}, rights)
    \cup (IF whole THEN Shown(WholeOffers, rights) ELSE {})
    \cup (IF recon THEN {} ELSE Shown(SearchAndExport, rights))

ClearingRights ==
    {ClearingRight(g, s) : g \in {"uncleared", "cleared"}, s \in ToSet(Schemes)}
SettlementRights ==
    {SettlementRight(g, s) : g \in {"unsettled", "settled"}, s \in ToSet(Schemes)}
    \ {SettlementRight("settled", "visacbs")}
EJRights == {"report:search-ej-transactions"}

ReconOffers ==
    {Offer("/clearing/uncleared", ClearingRights),
     Offer("/clearing/cleared", ClearingRights),
     Offer("/settlement/unsettled", SettlementRights),
     Offer("/settlement/settled", SettlementRights),
     Offer("/ej-coverage", EJRights),
     Offer("/ej-finder", EJRights)}
    \cup SearchAndExport

CardOffers ==
    {Offer("/card-activity", {"card:view-activity-dashboard"}),
     Offer("/cards-per-status", {"card:view-number-of-cards-per-status"}),
     Offer("/prepaid-visa", {"card:view-prepaid-visa"}),
     Offer("/prepaid-visa/top-ups", {"card:view-prepaid-visa"}),
     Offer("/prepaid-visa/transactions", {"card:view-prepaid-visa"})}

\* All that home may offer.
HomeOffers ==
    RateOffers \cup AtmOffers \cup PosOffers \cup SearchAndExport \cup QuickOffers \cup WholeOffers
    \cup ReconOffers \cup CardOffers

\* The sections home renders, and the links of each.
HomeLinks(rights) ==
    LET whole == RateRight("switch-overall") \in rights
        recon == rights \cap (ClearingRights \cup SettlementRights \cup EJRights) # {}
    IN  (IF whole THEN {} ELSE TerminalLinks(rights))
        \cup (IF recon THEN Shown(ReconOffers, rights) ELSE {})
        \cup Shown(CardOffers, rights)
        \cup QuickLinks(rights, whole, recon)

-----------------------------------------------------------------------------
(* The other pages.                                                        *)

FleetLinks ==
    LET of(f) ==
        LET all == "/" \o f \o "-terminals"
            one == all \o "/:terminalId/transactions"
        IN  {<<"/" \o f \o "-dashboard", Offer(all, Anyone)>>,
             <<all, Offer("/" \o f \o "-dashboard", Anyone)>>,
             <<all, Offer(one, {"terminal:view-" \o f \o "-transaction"})>>,
             <<one, Offer(all, Anyone)>>,
             <<"/" \o f \o "-comparison", Offer(one, Anyone)>>}
    IN  of("atm") \cup of("pos")

PrepaidLinks == {<<p, Offer(q, Anyone)>> : p \in PrepaidPaths, q \in PrepaidPaths}

HubLinks ==
    UNION {{<<p, HubTabs[h][i]>> : p \in TabPages(h), i \in DOMAIN HubTabs[h]} : h \in Hubs}

\* The list of a kind of record, its row menu, and the buttons of its record pages.
RecordLinks(r) ==
    LET list == "/" \o r \o "s"
        new  == "/" \o r
        one  == new \o "/:id"
        edit == one \o "/edit"
    IN  {<<list, Offer(new, {r \o ":create"})>>,
         <<list, Offer(one, {r \o ":view-details"})>>,
         <<list, Offer(edit, {r \o ":update"})>>,
         <<one, Offer(list, Anyone)>>,
         <<one, Offer(edit, {r \o ":update"})>>}
UserLinks ==
    RecordLinks("user")
    \cup {<<"/user", Offer("/users", Anyone)>>,
          <<"/user", Offer("/account-requests", Anyone)>>,
          <<"/user/:id/edit", Offer("/user/:id", Anyone)>>,
          <<"/account-requests", Offer("/user", {"user:create"})>>}
RoleLinks ==
    RecordLinks("role")
    \cup {<<"/role", Offer("/roles", Anyone)>>, <<"/role/:id/edit", Offer("/roles", Anyone)>>}
PermissionLinks ==
    RecordLinks("permission")
    \cup {<<"/permission", Offer("/permissions", Anyone)>>,
          <<"/permission/:id/edit", Offer("/permissions", Anyone)>>}

NotFoundLinks == {<<NotFound, Offer(HomePath, Anyone)>>}

PageLinks ==
    FleetLinks \cup PrepaidLinks \cup HubLinks \cup UserLinks \cup RoleLinks \cup PermissionLinks
    \cup NotFoundLinks

\* The links of the two pages outside the layout.
DoorLinks == [p \in {LoginPage, RequestPage} |-> IF p = LoginPage THEN RequestPage ELSE LoginPage]

\* The offers of a page of the layout, and the links a signed-in user sees there.
OffersOn(page) ==
    Sidebar
    \cup {x[2] : x \in {x \in PageLinks : x[1] = page}}
    \cup (IF page = HomePath THEN HomeOffers ELSE {})
LinksOn(page, rights) ==
    Shown(Sidebar, rights)
    \cup Shown({x[2] : x \in {x \in PageLinks : x[1] = page}}, rights)
    \cup (IF page = HomePath THEN HomeLinks(rights) ELSE {})
=============================================================================
