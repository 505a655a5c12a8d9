----------------------------- MODULE Navigation -----------------------------
(***************************************************************************)
(* The addresses of the web frontend and the page each one ends at for a   *)
(* user with given permissions: the route table of App.tsx, the guard      *)
(* around a route, and the two hubs whose tabs are guarded one by one.     *)
(* An identifier in an address is written as its pattern (":id"): which    *)
(* record is opened does not matter here.                                  *)
(***************************************************************************)
EXTENDS Naturals, Sequences, FiniteSets, SequencesExt

Anyone == {}

\* A route, a tab, a link or a call, and the permissions of which one is enough for it.
Offer(to, needs) == [to |-> to, needs |-> needs]

Admits(needs, rights) == needs = Anyone \/ needs \cap rights # {}

-----------------------------------------------------------------------------
(* The success rates: one page, one address, one permission and one API    *)
(* call for each channel and flow.                                         *)

RateKinds ==
    {"switch-overall", "switch-onus", "switch-offus", "switch-issuing", "switch-remote-onus",
     "atm-overall", "atm-acquiring", "atm-onus", "atm-offus", "atm-issuing",
     "pos-overall", "pos-acquiring", "pos-onus", "pos-offus", "pos-issuing"}

RatePath(kind) == "/" \o kind \o "-success-rate"
RateRight(kind) == "report:view-" \o kind \o "-success-rate"
RateNeeds(kind) ==
    {RateRight(kind)} \cup
    (IF kind = "switch-remote-onus" THEN {RateRight("switch-issuing")} ELSE {})

RateRoutes == {Offer(RatePath(k), RateNeeds(k)) : k \in RateKinds}

CardProductNeeds ==
    {"report:view-card-product-success-rate", RateRight("switch-overall"),
     RateRight("atm-acquiring"), RateRight("atm-overall"),
     RateRight("pos-acquiring"), RateRight("pos-overall")}
ReconExportNeeds ==
    {"report:export-switch-terminal-recon", "report:export-cortex-terminal-recon"}

DepositRoutes == {Offer("/deposit-per-terminal", {"report:view-deposit-per-terminal"})}
TrendRoutes == {Offer("/success-rate-trends", {RateRight(k) : k \in RateKinds})}
ReportRoutes ==
    {Offer("/pos-terminal-success-rate", {RateRight("pos-acquiring")}),
     Offer("/atm-terminal-success-rate", {RateRight("atm-acquiring")}),
     Offer("/card-product-success-rate", CardProductNeeds),
     Offer("/ebirr-cardless-withdrawal", {"report:view-ebirr-cardless-withdrawal"}),
     Offer("/transaction-mix", {"report:view-transaction-mix"}),
     Offer("/cortex-transaction-search", {"report:search-cortex-transactions"}),
     Offer("/switch-transaction-search", {"report:search-switch-transactions"}),
     Offer("/terminal-recon-export", ReconExportNeeds)}
EJRoutes ==
    {Offer(p, {"report:search-ej-transactions"}) :
        p \in {"/ej-finder", "/ej-transaction-search", "/ej-coverage", "/ej-by-terminal"}}
MonitoringRoutes ==
    {Offer("/" \o f \o "-monitoring", {"monitoring:view-" \o f}) :
        f \in {"onus", "offus", "mastercard-debit", "mastercard-credit", "visa", "ist", "saf"}}
TerminalRoutes ==
    UNION {{Offer("/" \o f \o "-dashboard", {"terminal:view-" \o f}),
            Offer("/" \o f \o "-terminals", {"terminal:view-" \o f}),
            Offer("/" \o f \o "-terminals/:terminalId/transactions",
                  {"terminal:view-" \o f \o "-transaction"}),
            Offer("/" \o f \o "-transactions", {"terminal:view-" \o f \o "-transaction"}),
            Offer("/" \o f \o "-comparison", {"terminal:view-" \o f \o "-transaction"})} :
                f \in {"atm", "pos"}}
PrepaidPaths ==
    {"/prepaid-visa", "/prepaid-visa/search", "/prepaid-visa/top-ups", "/prepaid-visa/unloads",
     "/prepaid-visa/transactions", "/prepaid-visa/reconciliation"}
CardRoutes ==
    {Offer("/cards-per-status", {"card:view-number-of-cards-per-status"}),
     Offer("/card-activity", {"card:view-activity-dashboard"})}
    \cup {Offer(p, {"card:view-prepaid-visa"}) : p \in PrepaidPaths}
AdminRoutes ==
    UNION {{Offer("/" \o r \o "s", {r \o ":view"}),
            Offer("/" \o r, {r \o ":create"}),
            Offer("/" \o r \o "/:id", {r \o ":view-details"}),
            Offer("/" \o r \o "/:id/edit", {r \o ":update"})} : r \in {"user", "role", "permission"}}
    \cup {Offer("/account-requests", {"user:view", "user:create"}),
          Offer("/activity-log", {"activity:view"})}
OpenRoutes ==
    {Offer(p, Anyone) : p \in {"/home", "/account", "/analytics", "/transaction"}}

Routes ==
    RateRoutes \cup DepositRoutes \cup TrendRoutes \cup ReportRoutes \cup EJRoutes
    \cup MonitoringRoutes \cup TerminalRoutes \cup CardRoutes \cup AdminRoutes \cup OpenRoutes

PageNeeds == [p \in {r.to : r \in Routes} |-> (CHOOSE r \in Routes : r.to = p).needs]

-----------------------------------------------------------------------------
(* The hubs: a page per stage, a tab per scheme.  The tab is part of the   *)
(* address ("?scheme=").                                                   *)

Schemes == <<"eth", "visa", "visacbs", "mastercard">>
InRightsName(scheme) == IF scheme = "visacbs" THEN "visa-cybersource" ELSE scheme
HubTab(hub, scheme) == hub \o "?scheme=" \o scheme

ClearingRight(stage, scheme) == "clearing:view-" \o stage \o "-" \o InRightsName(scheme)
UnclearedTabs ==
    [i \in 1..4 |-> Offer(HubTab("/clearing/uncleared", Schemes[i]),
                          {ClearingRight("uncleared", Schemes[i])})]
\* Mutant: the hub's own tab does not know the second permission that its route admits.
ClearedTabs_One ==
    [i \in 1..4 |-> Offer(HubTab("/clearing/cleared", Schemes[i]),
                          {ClearingRight("cleared", Schemes[i])})]
ClearedTabs ==
    [i \in 1..4 |-> Offer(HubTab("/clearing/cleared", Schemes[i]),
                          {ClearingRight("cleared", Schemes[i])} \cup
                          (IF Schemes[i] = "visacbs"
                           THEN {ClearingRight("uncleared", "visacbs")} ELSE {}))]

SettlementRight(stage, scheme) == "settlement:view-" \o stage \o "-" \o InRightsName(scheme)
UnsettledTabs ==
    [i \in 1..4 |-> Offer(HubTab("/settlement/unsettled", Schemes[i]),
                          {SettlementRight("unsettled", Schemes[i])})]
SettledTabs ==
    LET schemes == <<"eth", "visa", "mastercard">>
    IN  [i \in 1..3 |-> Offer(HubTab("/settlement/settled", schemes[i]),
                              {SettlementRight("settled", schemes[i])})]

Hubs == {"/clearing/uncleared", "/clearing/cleared", "/settlement/unsettled", "/settlement/settled"}
HubTabs ==
    [h \in Hubs |-> CASE h = "/clearing/uncleared"   -> UnclearedTabs
                      [] h = "/clearing/cleared"     -> ClearedTabs
                      [] h = "/settlement/unsettled" -> UnsettledTabs
                      [] h = "/settlement/settled"   -> SettledTabs]
TabPages(hub) == {HubTabs[hub][i].to : i \in DOMAIN HubTabs[hub]}

\* The permissions that the route of a hub asks for.
HubNeeds ==
    [h \in Hubs |->
        CASE h = "/clearing/uncleared" ->
                {ClearingRight("uncleared", s) : s \in ToSet(Schemes)}
          [] h = "/clearing/cleared" ->
                {ClearingRight("cleared", s) : s \in ToSet(Schemes)}
                \cup {ClearingRight("uncleared", "visacbs")}
          [] h = "/settlement/unsettled" ->
                {SettlementRight("unsettled", s) : s \in ToSet(Schemes)}
          [] h = "/settlement/settled" ->
                {SettlementRight("settled", s) : s \in {"eth", "visa", "mastercard"}}]

\* The tab a hub shows: the one asked for if the user may see it, else the first one allowed.
HubShows(hub, asked, rights) ==
    LET tabs == HubTabs[hub]
        allowed == {i \in DOMAIN tabs : Admits(tabs[i].needs, rights)}
    IN  IF allowed = {} THEN hub
        ELSE IF \E i \in allowed : tabs[i].to = asked THEN asked
        ELSE tabs[CHOOSE i \in allowed : \A j \in allowed : i <= j].to

-----------------------------------------------------------------------------
(* Old addresses, kept as redirects.                                       *)

RateRedirects ==
    [p \in {"/success-rate", "/pos-success-rate"} |->
        IF p = "/success-rate" THEN RatePath("atm-overall") ELSE RatePath("pos-overall")]
ClearingRedirects ==
    LET old(stage, s) == "/" \o stage \o "-" \o InRightsName(s)
        pairs == ({"uncleared", "cleared"} \X ToSet(Schemes))
    IN  [p \in {old(x[1], x[2]) : x \in pairs} \cup {"/uncleared"} |->
            IF p = "/uncleared" THEN HubTab("/clearing/uncleared", "eth")
            ELSE LET x == CHOOSE x \in pairs : old(x[1], x[2]) = p
                 IN  HubTab("/clearing/" \o x[1], x[2])]
SettlementRedirects ==
    LET old(stage, s) == "/" \o stage \o "-" \o InRightsName(s)
        pairs == ({"unsettled", "settled"} \X ToSet(Schemes)) \ {<<"settled", "visacbs">>}
    IN  [p \in {old(x[1], x[2]) : x \in pairs} \cup {"/visa-settlement", "/mastercard-ipm"} |->
            IF p = "/visa-settlement" THEN HubTab("/settlement/settled", "visa")
            ELSE IF p = "/mastercard-ipm" THEN HubTab("/settlement/settled", "mastercard")
            ELSE LET x == CHOOSE x \in pairs : old(x[1], x[2]) = p
                 IN  HubTab("/settlement/" \o x[1], x[2])]

Redirected(to) ==
    IF to \in DOMAIN RateRedirects THEN RateRedirects[to]
    ELSE IF to \in DOMAIN ClearingRedirects THEN ClearingRedirects[to]
    ELSE IF to \in DOMAIN SettlementRedirects THEN SettlementRedirects[to]
    ELSE to

OldAddresses ==
    DOMAIN RateRedirects \cup DOMAIN ClearingRedirects \cup DOMAIN SettlementRedirects

-----------------------------------------------------------------------------
(* Where an address ends.                                                  *)

LoginPage == "/"
RequestPage == "/request-account"
HomePath == "/home"
NotFound == "*"

HubOf(to) == {h \in Hubs : to = h \/ to \in TabPages(h)}

\* RequirePermission: without the permissions of the page, home.
\* Mutant: all permissions are asked for where one is enough.
Guarded_All(needs, rights, shown) == IF needs \subseteq rights THEN shown ELSE HomePath
Guarded(needs, rights, shown) == IF Admits(needs, rights) THEN shown ELSE HomePath

\* The page that an address ends at for a user who is signed in with these rights.
Lands(address, rights) ==
    LET to == Redirected(address)
    IN  CASE to = LoginPage -> LoginPage
          [] to = RequestPage -> HomePath
          [] to \in DOMAIN PageNeeds -> Guarded(PageNeeds[to], rights, to)
          [] HubOf(to) # {} ->
                LET hub == CHOOSE h \in Hubs : h \in HubOf(to)
                IN  Guarded(HubNeeds[hub], rights, HubShows(hub, to, rights))
          [] OTHER -> NotFound

\* The page it ends at for somebody who is not signed in.
LandsSignedOut(address) == IF address = RequestPage THEN RequestPage ELSE LoginPage

\* What an address stands for: its page, and for the bare address of a hub any of its tabs.
Destinations(address) ==
    LET to == Redirected(address) IN IF to \in Hubs THEN TabPages(to) ELSE {to}

TabbedPages == UNION {TabPages(h) : h \in Hubs}
Addresses ==
    {LoginPage, RequestPage, NotFound} \cup DOMAIN PageNeeds \cup Hubs \cup TabbedPages
    \cup OldAddresses
Pages == {LoginPage, RequestPage, NotFound} \cup DOMAIN PageNeeds \cup TabbedPages

\* The permissions of which one is enough to be shown a page or a hub.
NeedsOf(to) ==
    IF to \in DOMAIN PageNeeds THEN PageNeeds[to]
    ELSE IF to \in Hubs THEN HubNeeds[to]
    ELSE UNION {tab.needs : tab \in {t \in UNION {ToSet(HubTabs[h]) : h \in Hubs} : t.to = to}}

\* Whoever is admitted to something by these needs is admitted by those of the target.
Suffices(needs, target) == target = Anyone \/ (needs # Anyone /\ needs \subseteq target)

\* No address stands for two things, home is open to all, and a tab asks for nothing that
\* its hub does not ask for.
ASSUME RouteAssumption ==
    /\ OldAddresses \cap (Pages \cup Hubs) = {}
    /\ {LoginPage, RequestPage, NotFound} \cap (DOMAIN PageNeeds \cup Hubs \cup TabbedPages) = {}
    /\ DOMAIN PageNeeds \cap (Hubs \cup TabbedPages) = {}
    /\ Hubs \cap TabbedPages = {}
    /\ \A h, g \in Hubs : h # g => TabPages(h) \cap TabPages(g) = {}
    /\ HomePath \in DOMAIN PageNeeds /\ PageNeeds[HomePath] = Anyone
    /\ \A h \in Hubs : \A i \in DOMAIN HubTabs[h] :
          HubTabs[h][i].needs # Anyone /\ HubTabs[h][i].needs \subseteq HubNeeds[h]
=============================================================================
