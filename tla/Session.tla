------------------------------- MODULE Session -------------------------------
(***************************************************************************)
(* The session of the web frontend.  Each browser tab keeps the signed-in  *)
(* user and the rights of the access token in memory; all tabs share one   *)
(* session in localStorage, which a tab reads when it is loaded and when   *)
(* it sends a call.  A call answered 401 waits for one refresh per tab and *)
(* is sent once more; a timer refreshes ahead of the expiry; a refresh     *)
(* that fails ends the session.  No tab is told what another one stores.   *)
(***************************************************************************)
EXTENDS Gateway, Naturals

CONSTANTS
    Users, Tabs,
    None,
    Worlds,         \* what the people of a behaviour have and do, with its bounds: see Init
    DeadLinks,      \* <<page, link>>: links known to lead elsewhere than they say
    HalfOpen        \* <<page, call>>: calls a page makes that the back end is known to refuse

VARIABLES
    world,          \* the world of this behaviour, one of Worlds
    server,         \* the rights the back end has for each user, None once access is revoked
    changes,        \* how often an administrator has changed them
    stored,         \* the session in localStorage, or None
    auth,           \* for each tab the session in its memory, or None
    page,           \* for each tab the page it shows
    logging,        \* for each tab the logins in flight
    authLoading,    \* for each tab whether the login form is disabled
    refreshing,     \* for each tab the user whose refresh token is in flight, or None
    calls,          \* the calls in flight
    crossed         \* did a user sign in while another one's session was about?

vars == <<world, server, changes, stored, auth, page, logging, authLoading, refreshing, calls, crossed>>
loginVars == <<logging, authLoading>>

\* The rights that a token may carry.
RightsAbout == (UNION {{w.rights} \cup w.alternatives : w \in Worlds}) \ {None}

Sessions == [user : Users, rights : RightsAbout]

\* The number tells the logins of a tab from each other.
Logins == [user : Users, number : Nat]

ASSUME WorldAssumption ==
    \A w \in Worlds :
        /\ w.tabs \subseteq Tabs /\ w.users \subseteq Users /\ w.addresses \subseteq Addresses
        /\ w.logins \in Nat
ASSUME NoneAssumption == None \notin Users /\ None \notin Sessions

Door == {LoginPage, RequestPage}

\* The page of every address, a menu's included, for every rights of the worlds.
Places == Addresses \cup {item.to : item \in Sidebar}
Landing == [r \in RightsAbout |-> [a \in Places |-> Lands(a, r)]]
Where(session, address) ==
    IF session = None THEN LandsSignedOut(address) ELSE Landing[session.rights][address]

\* But for the dead ones, who is admitted to a page and offered a link there is admitted to
\* where the link leads, by the needs of the link or by those of the page.
ASSUME LinkAssumption ==
    \A p \in Pages \ Door : \A o \in OffersOn(p) :
        /\ o.to \in Places
        /\ \/ <<p, o.to>> \in DeadLinks
           \/ /\ o.to \in (Pages \cup Hubs) \ (Door \cup {NotFound})
              /\ Suffices(o.needs, NeedsOf(o.to)) \/ Suffices(NeedsOf(p), NeedsOf(o.to))

\* In the same way the gates of the API admit whoever may make a call, but for the half open.
ASSUME CallAssumption ==
    \A p \in Pages \ Door : \A o \in CallOffersOn(p) :
        /\ o.to \in Calls
        /\ \/ Suffices(o.needs, GateNeeds[o.to])
           \/ Suffices(NeedsOf(p), GateNeeds[o.to])
           \/ <<p, o.to>> \in HalfOpen

-----------------------------------------------------------------------------
Init ==
    /\ world \in Worlds
    /\ server = [u \in Users |-> world.rights]
    /\ changes = 0
    /\ stored = None
    /\ auth = [t \in Tabs |-> None]
    /\ page = [t \in Tabs |-> LoginPage]
    /\ logging = [t \in Tabs |-> {}]
    /\ authLoading = [t \in Tabs |-> FALSE]
    /\ refreshing = [t \in Tabs |-> None]
    /\ calls = {}
    /\ crossed = FALSE

TypeOK ==
    /\ world \in Worlds
    /\ server \in [Users -> RightsAbout \cup {None}]
    /\ changes \in Nat
    /\ stored \in Sessions \cup {None}
    /\ auth \in [Tabs -> Sessions \cup {None}]
    /\ page \in [Tabs -> Pages]
    /\ logging \in [Tabs -> SUBSET Logins]
    /\ authLoading \in [Tabs -> BOOLEAN]
    /\ refreshing \in [Tabs -> Users \cup {None}]
    /\ calls \subseteq [tab : Tabs, page : Pages, call : Calls, asker : Sessions,
                        token : Sessions, tries : 1..2, waits : BOOLEAN]
    /\ crossed \in BOOLEAN

-----------------------------------------------------------------------------
(* What the actions are made of.                                           *)

CallsOf(tab) == {c \in calls : c.tab = tab}
WaitingIn(tab) == {c \in calls : c.tab = tab /\ c.waits}

\* The users whose session is in a tab or in flight.
About ==
    {auth[t].user : t \in {t \in Tabs : auth[t] # None}}
    \cup (UNION {{l.user : l \in logging[t]} : t \in Tabs})
    \cup {refreshing[t] : t \in {t \in Tabs : refreshing[t] # None}}
    \cup UNION {{c.asker.user, c.token.user} : c \in calls}

\* Mutant: signing out leaves localStorage as it is.
Persist_Keeps(session) ==
    stored' = IF session = None THEN stored ELSE session

\* persistAuth: localStorage follows the session that a tab has just taken on or given up.
Persist(session) == stored' = session

\* The page a tab goes to when it takes on a session where it is.
Rerouted_Stays(tab, session) == page[tab] \* mutant: the permission is checked once
Rerouted(tab, session) == Where(session, page[tab])

\* A tab is loaded anew: all it had in memory and in flight is gone.
Loaded(tab, session, address) ==
    /\ auth' = [auth EXCEPT ![tab] = session]
    /\ page' = [page EXCEPT ![tab] = Where(session, address)]
    /\ logging' = [logging EXCEPT ![tab] = {}]
    /\ authLoading' = [authLoading EXCEPT ![tab] = FALSE]
    /\ refreshing' = [refreshing EXCEPT ![tab] = None]
    /\ calls' = calls \ CallsOf(tab)

\* Mutant: a refresh that fails does not reject the calls that wait for it.
EndSession_Forgets(tab, rejected) ==
    /\ Persist(None)
    /\ \/ /\ page[tab] # LoginPage
          /\ Loaded(tab, None, LoginPage)
       \/ /\ page[tab] = LoginPage
          /\ auth' = [auth EXCEPT ![tab] = None]
          /\ authLoading' = [authLoading EXCEPT ![tab] = FALSE]
          /\ refreshing' = [refreshing EXCEPT ![tab] = None]
          /\ UNCHANGED <<calls, page, logging>>

\* endSession: sign out, and load the login page unless it is already there, where the
\* form is enabled again although a login may be in flight.
EndSession(tab, rejected) ==
    /\ Persist(None)
    /\ \/ /\ page[tab] # LoginPage
          /\ Loaded(tab, None, LoginPage)
       \/ /\ page[tab] = LoginPage
          /\ auth' = [auth EXCEPT ![tab] = None]
          /\ authLoading' = [authLoading EXCEPT ![tab] = FALSE]
          /\ refreshing' = [refreshing EXCEPT ![tab] = None]
          /\ calls' = calls \ rejected
          /\ UNCHANGED <<page, logging>>

\* The links a tab offers.
OfferedIn(tab) ==
    IF page[tab] \in Door THEN {DoorLinks[page[tab]]} ELSE LinksOn(page[tab], auth[tab].rights)

\* The calls its page makes.
CallsIn(tab) == IF page[tab] \in Door THEN {} ELSE CallsOn(page[tab], auth[tab].rights)

-----------------------------------------------------------------------------
(* People.                                                                 *)

\* An address is typed, or the tab is reloaded: the session is read from localStorage.
Open(tab, address) ==
    /\ Where(stored, address) \in world.pages
    /\ Loaded(tab, stored, address)
    /\ UNCHANGED <<world, server, changes, stored, crossed>>

Follow(tab, link) ==
    /\ Where(auth[tab], link) \in world.pages
    /\ page' = [page EXCEPT ![tab] = Where(auth[tab], link)]
    /\ UNCHANGED <<world, server, changes, stored, auth, loginVars, refreshing, calls, crossed>>

\* The login form is there for a signed-in user too, and beside a login in flight when
\* its button has been enabled again.
Login(tab, user) ==
    /\ page[tab] = LoginPage
    /\ ~authLoading[tab]
    /\ \E n \in 1..world.logins :
          /\ \A l \in logging[tab] : l.number # n
          /\ logging' = [logging EXCEPT ![tab] = @ \cup {[user |-> user, number |-> n]}]
    /\ authLoading' = [authLoading EXCEPT ![tab] = TRUE]
    /\ crossed' = (crossed \/ About \ {user} # {})
    /\ UNCHANGED <<world, server, changes, stored, auth, page, refreshing, calls>>

\* What is in flight stays in flight.
Logout(tab) ==
    /\ auth[tab] # None
    /\ page[tab] \notin Door
    /\ auth' = [auth EXCEPT ![tab] = None]
    /\ Persist(None)
    /\ page' = [page EXCEPT ![tab] = LoginPage]
    /\ authLoading' = [authLoading EXCEPT ![tab] = FALSE]
    /\ UNCHANGED <<world, server, changes, logging, refreshing, calls, crossed>>

\* The request interceptor sends the stored token, whoever the tab shows.
Ask(tab, call) ==
    /\ Cardinality(CallsOf(tab)) < world.flight
    /\ calls' = calls \cup
        {[tab |-> tab, page |-> page[tab], call |-> call, asker |-> auth[tab],
          token |-> IF stored # None THEN stored ELSE auth[tab],
          tries |-> 1, waits |-> FALSE]}
    /\ UNCHANGED <<world, server, changes, stored, auth, page, loginVars, refreshing, crossed>>

\* An administrator gives a user other rights, or none.
ChangeRights(user, rights) ==
    /\ changes < world.changes
    /\ server[user] # rights
    /\ server' = [server EXCEPT ![user] = rights]
    /\ changes' = changes + 1
    /\ UNCHANGED <<world, stored, auth, page, loginVars, refreshing, calls, crossed>>

-----------------------------------------------------------------------------
(* Answers, and the timer.                                                 *)

LoginSettles(tab, login) ==
    /\ logging' = [logging EXCEPT ![tab] = @ \ {login}]
    /\ authLoading' = [authLoading EXCEPT ![tab] = FALSE]

LoginOk(tab, login) ==
    /\ server[login.user] # None
    /\ LET session == [user |-> login.user, rights |-> server[login.user]]
       IN  /\ auth' = [auth EXCEPT ![tab] = session]
           /\ Persist(session)
    /\ page' = [page EXCEPT ![tab] = HomePath]
    /\ LoginSettles(tab, login)
    /\ UNCHANGED <<world, server, changes, refreshing, calls, crossed>>

\* Mutant: the tab forgets the session, localStorage does not.
LoginFails_Keeps(tab, login) ==
    /\ auth' = [auth EXCEPT ![tab] = None]
    /\ LoginSettles(tab, login)
    /\ UNCHANGED <<world, server, changes, stored, page, refreshing, calls, crossed>>

\* A failed login signs out whoever was signed in.
LoginFails(tab, login) ==
    /\ auth' = [auth EXCEPT ![tab] = None]
    /\ Persist(None)
    /\ page' = [page EXCEPT ![tab] = Where(None, @)]
    /\ LoginSettles(tab, login)
    /\ UNCHANGED <<world, server, changes, refreshing, calls, crossed>>

\* A saved avatar or profile is written to localStorage with the session of the tab.
Succeeds(call) ==
    /\ Accepts(call.call, call.token.rights)
    /\ ~call.waits
    /\ calls' = calls \ {call}
    /\ \/ /\ call.call \in Saves /\ auth[call.tab] # None
          /\ Persist(auth[call.tab])
       \/ /\ call.call \notin Saves \/ auth[call.tab] = None
          /\ UNCHANGED stored
    /\ UNCHANGED <<world, server, changes, auth, page, loginVars, refreshing, crossed>>

\* Any answer but success and 401, or none: a refusal (403), an error, a cancelled request.
Fails(call) ==
    /\ ~call.waits
    /\ calls' = calls \ {call}
    /\ UNCHANGED <<world, server, changes, stored, auth, page, loginVars, refreshing, crossed>>

\* The second attempt is answered 401 as well.
ExpiresAgain(call) ==
    /\ ~call.waits
    /\ call.tries = 2
    /\ calls' = calls \ {call}
    /\ UNCHANGED <<world, server, changes, stored, auth, page, loginVars, refreshing, crossed>>

Retried_Unmarked(call) == [call EXCEPT !.waits = TRUE] \* mutant: _retry is not set
Retried(call) == [call EXCEPT !.tries = 2, !.waits = TRUE]

\* The first attempt is answered 401: the call waits for the refresh of its tab.
Expires(call) ==
    /\ ~call.waits
    /\ call.tries = 1
    /\ \/ /\ refreshing[call.tab] # None \/ stored # None
          /\ refreshing' = [refreshing EXCEPT
                ![call.tab] = IF @ # None THEN @ ELSE stored.user]
          /\ calls' = (calls \ {call}) \cup {Retried(call)}
          /\ UNCHANGED <<stored, auth, page, loginVars>>
       \/ /\ refreshing[call.tab] = None /\ stored = None
          /\ EndSession(call.tab, {call})
    /\ UNCHANGED <<world, server, changes, crossed>>

\* The waiting calls of a tab are sent again with the new token.
Resent(tab, session) ==
    {[c EXCEPT !.token = session, !.waits = FALSE] : c \in WaitingIn(tab)}

\* The tab takes on whatever session the refresh brings, signed out or not.
RefreshOk(tab) ==
    /\ refreshing[tab] # None
    /\ server[refreshing[tab]] # None
    /\ LET session == [user |-> refreshing[tab], rights |-> server[refreshing[tab]]]
       IN  /\ auth' = [auth EXCEPT ![tab] = session]
           /\ Persist(session)
           /\ page' = [page EXCEPT ![tab] = Rerouted(tab, session)]
           /\ calls' = (calls \ WaitingIn(tab)) \cup Resent(tab, session)
    /\ refreshing' = [refreshing EXCEPT ![tab] = None]
    /\ UNCHANGED <<world, server, changes, loginVars, crossed>>

RefreshFails(tab) ==
    /\ refreshing[tab] # None
    /\ EndSession(tab, WaitingIn(tab))
    /\ UNCHANGED <<world, server, changes, crossed>>

\* useAccessTokenRefresh: ahead of the expiry, on the pages of the layout.
Tick(tab) ==
    /\ auth[tab] # None
    /\ page[tab] \notin Door
    /\ refreshing[tab] = None
    /\ \/ /\ stored # None
          /\ refreshing' = [refreshing EXCEPT ![tab] = stored.user]
          /\ UNCHANGED <<stored, auth, page, loginVars, calls>>
       \/ /\ stored = None
          /\ EndSession(tab, {})
    /\ UNCHANGED <<world, server, changes, crossed>>

-----------------------------------------------------------------------------
LoginEnds(tab) == \E l \in logging[tab] : LoginOk(tab, l) \/ LoginFails(tab, l)
RefreshEnds(tab) == RefreshOk(tab) \/ RefreshFails(tab)
Answer(tab) ==
    \E c \in CallsOf(tab) : Succeeds(c) \/ Fails(c) \/ Expires(c) \/ ExpiresAgain(c)

\* What happens in a tab that nobody touches.
Runs(tab) == LoginEnds(tab) \/ RefreshEnds(tab) \/ Answer(tab) \/ Tick(tab)

\* The bound on people: some act at any time, some wait for what is in flight, some stop when
\* two users' sessions have met.
PeopleAct ==
    \/ world.people = "free"
    \/ /\ world.people = "patient"
       /\ calls = {} /\ \A tab \in Tabs : logging[tab] = {} /\ refreshing[tab] = None
    \/ world.people = "until they meet" /\ ~crossed

Acts(tab) ==
    \/ \E address \in world.addresses : Open(tab, address)
    \/ \E link \in OfferedIn(tab) : Follow(tab, link)
    \/ \E user \in world.users : Login(tab, user)
    \/ Logout(tab)
    \/ \E call \in CallsIn(tab) \cap world.calls : Ask(tab, call)

Next ==
    \/ \E tab \in world.tabs : Runs(tab) \/ (PeopleAct /\ Acts(tab))
    \/ \E user \in world.users, rights \in world.alternatives : ChangeRights(user, rights)

Spec == Init /\ [][Next]_vars

\* The back end bounds every request, and a timer that is set fires.
Fairness ==
    \A tab \in Tabs : /\ WF_vars(LoginEnds(tab))
                      /\ WF_vars(RefreshEnds(tab))
                      /\ WF_vars(Answer(tab))
                      /\ WF_vars(Tick(tab))
FairSpec == Spec /\ Fairness

-----------------------------------------------------------------------------
(* Unless two users' sessions have met in one browser, each call is sent   *)
(* in the name of the user who was signed in where it was made, and no tab *)
(* shows a user while localStorage holds the session of another.           *)
OwnName ==
    crossed \/
    /\ \A c \in calls : c.token.user = c.asker.user
    /\ \A tab \in Tabs : auth[tab] # None /\ stored # None => auth[tab].user = stored.user

(* When no tab is signed in, no session is left in localStorage for the    *)
(* next person who opens the address, however the last one ended: by the   *)
(* menu, a failed login or a refused refresh.                              *)
SignedOutMeansForgotten == (\A tab \in Tabs : auth[tab] = None) => stored = None

(* Whatever becomes of the rights, no tab shows a page that the rights it  *)
(* holds in memory do not admit.                                           *)
OnlyAdmitted ==
    \A tab \in Tabs : page[tab] \notin Door => Where(auth[tab], page[tab]) = page[tab]

(* A link that a user is shown leads to the page it names, with the user's *)
(* rights: neither to home for want of a permission nor to no page at all. *)
LinksLand ==
    \A tab \in world.tabs : page[tab] \notin Door =>
        \A link \in OfferedIn(tab) :
            \/ Where(auth[tab], link) \in Destinations(link)
            \/ <<page[tab], link>> \in DeadLinks

(* A call that a page makes for rights it knows is one the back end allows *)
(* for those rights.                                                       *)
Welcomed ==
    \A c \in calls :
        \/ Accepts(c.call, c.token.rights)
        \/ c.token.rights # c.asker.rights
        \/ <<c.page, c.call>> \in HalfOpen

(* A call that waits has used up its retry, and a refresh of its tab is    *)
(* under way that sends it again or gives it up, whatever happens to the   *)
(* session and the page of the tab meanwhile: none is left in the queue.   *)
WaitersAreWoken == \A c \in calls : c.waits => c.tries = 2 /\ refreshing[c.tab] # None

LeftAlone == <>[][\E tab \in Tabs : Runs(tab)]_vars

(* In tabs that are left alone every call comes to an end: one refresh     *)
(* wakes all that wait for it, and none is sent again and again.           *)
CallsEnd == LeftAlone => <>[](calls = {})

(* Tabs that are left alone come to show the stored session with the       *)
(* rights the back end has for its user, on a page those rights admit,     *)
(* unless two users met in them.                                           *)
Converges ==
    LeftAlone => <>[](crossed \/ \A tab \in Tabs : page[tab] \notin Door =>
                        /\ auth[tab] = stored
                        /\ stored.rights = server[stored.user]
                        /\ Where(stored, page[tab]) = page[tab])
=============================================================================
