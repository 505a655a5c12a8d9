---------------------------- MODULE SessionProofs ----------------------------
(***************************************************************************)
(* Session for any users, tabs and worlds, from two inductive invariants.  *)
(* IInv is about who is signed in: a page of the layout has somebody       *)
(* behind it, and until two users meet all that is held in memory, in      *)
(* flight and in localStorage is of one user.  PageInv is about what they  *)
(* may do: a tab shows a page that its rights admit, and a call is one     *)
(* that its page makes for the rights of its asker.                        *)
(***************************************************************************)
EXTENDS Session, TLAPS

CallFields == {"tab", "page", "call", "asker", "token", "tries", "waits"}

Types ==
    /\ world \in Worlds
    /\ server \in [Users -> RightsAbout \cup {None}]
    /\ stored \in Sessions \cup {None}
    /\ auth \in [Tabs -> Sessions \cup {None}]
    /\ DOMAIN page = Tabs
    /\ logging \in [Tabs -> SUBSET Logins]
    /\ authLoading \in [Tabs -> BOOLEAN]
    /\ refreshing \in [Tabs -> Users \cup {None}]
    /\ crossed \in BOOLEAN

CallTypes ==
    \A c \in calls : /\ DOMAIN c = CallFields
                     /\ c.tab \in Tabs /\ c.asker \in Sessions /\ c.token \in Sessions

\* Behind every page of the layout somebody is signed in.
Inside == \A t \in Tabs : page[t] \notin Door => auth[t] # None

\* All the session parts that there are belong to this user.
AllOf(u) ==
    /\ \A t \in Tabs : /\ auth[t] # None => auth[t].user = u
                       /\ \A l \in logging[t] : l.user = u
                       /\ refreshing[t] # None => refreshing[t] = u
    /\ \A c \in calls : c.asker.user = u /\ c.token.user = u
    /\ stored # None => stored.user = u

OneUser == crossed \/ \E u \in Users \cup {None} : AllOf(u)

IInv == Types /\ CallTypes /\ Inside /\ SignedOutMeansForgotten /\ OneUser

-----------------------------------------------------------------------------
LEMMA SignedOutIsOutside ==
    ASSUME NEW a
    PROVE  Where(None, a) \in Door
  BY DEF Where, LandsSignedOut, Door

LEMMA SessionIsSomething ==
    ASSUME NEW s \in Sessions
    PROVE  s # None /\ s.user \in Users
  BY NoneAssumption DEF Sessions

LEMMA InitIInv == Init => IInv
  <1> SUFFICES ASSUME Init PROVE IInv
      OBVIOUS
  <1>1. world.rights \in RightsAbout \cup {None}
        BY DEF Init, RightsAbout
  <1>2. Types
        BY <1>1 DEF Init, Types
  <1>3. CallTypes /\ Inside /\ SignedOutMeansForgotten
        BY DEF Init, CallTypes, Inside, SignedOutMeansForgotten, Door
  <1>4. AllOf(None)
        BY DEF Init, AllOf
  <1> QED
      BY <1>2, <1>3, <1>4 DEF IInv, OneUser

\* The end of a session leaves nothing of it in its tab or in localStorage.
LEMMA EndSessionIInv ==
    ASSUME IInv, NEW tab \in Tabs, NEW rejected, EndSession(tab, rejected),
           UNCHANGED <<world, server, crossed>>
    PROVE  IInv'
  <1>1. /\ stored' = None
        /\ auth' = [auth EXCEPT ![tab] = None]
        /\ refreshing' = [refreshing EXCEPT ![tab] = None]
        /\ calls' \subseteq calls
        /\ \/ logging' = logging
           \/ logging' = [logging EXCEPT ![tab] = {}]
        /\ authLoading' = [authLoading EXCEPT ![tab] = FALSE]
        BY DEF EndSession, Persist, Loaded
  <1>2. DOMAIN page' = Tabs /\ page'[tab] \in Door
        /\ \A t \in Tabs \ {tab} : page'[t] = page[t]
        BY SignedOutIsOutside DEF EndSession, Loaded, IInv, Types, Door
  <1>3. Types'
        BY <1>1, <1>2 DEF IInv, Types
  <1>4. CallTypes'
        BY <1>1 DEF IInv, CallTypes
  <1>5. Inside'
        BY <1>1, <1>2 DEF IInv, Types, Inside, Door
  <1>6. SignedOutMeansForgotten'
        BY <1>1 DEF SignedOutMeansForgotten
  <1>7. ASSUME NEW u \in Users \cup {None}, AllOf(u)
        PROVE  AllOf(u)'
        BY <1>1, <1>7 DEF AllOf, IInv, Types
  <1> QED
      BY <1>3, <1>4, <1>5, <1>6, <1>7 DEF IInv, OneUser

-----------------------------------------------------------------------------
(* People.                                                                 *)

LEMMA OpenIInv ==
    ASSUME IInv, NEW tab \in Tabs, NEW address, Open(tab, address)
    PROVE  IInv'
  <1>1. /\ auth' = [auth EXCEPT ![tab] = stored]
        /\ page' = [page EXCEPT ![tab] = Where(stored, address)]
        /\ logging' = [logging EXCEPT ![tab] = {}]
        /\ authLoading' = [authLoading EXCEPT ![tab] = FALSE]
        /\ refreshing' = [refreshing EXCEPT ![tab] = None]
        /\ calls' \subseteq calls
        /\ UNCHANGED <<world, server, stored, crossed>>
        BY DEF Open, Loaded
  <1>2. Types' /\ CallTypes'
        BY <1>1 DEF IInv, Types, CallTypes
  <1>3. Inside'
        BY <1>1, SignedOutIsOutside DEF IInv, Types, Inside, Door
  <1>4. SignedOutMeansForgotten'
        BY <1>1 DEF IInv, Types, SignedOutMeansForgotten
  <1>5. ASSUME NEW u \in Users \cup {None}, AllOf(u)
        PROVE  AllOf(u)'
        BY <1>1, <1>5 DEF AllOf, IInv, Types
  <1> QED
      BY <1>1, <1>2, <1>3, <1>4, <1>5 DEF IInv, OneUser

LEMMA FollowIInv ==
    ASSUME IInv, NEW tab \in Tabs, NEW link, Follow(tab, link)
    PROVE  IInv'
  <1>1. /\ page' = [page EXCEPT ![tab] = Where(auth[tab], link)]
        /\ UNCHANGED <<world, server, stored, auth, loginVars, refreshing, calls, crossed>>
        BY DEF Follow
  <1>2. Types' /\ CallTypes' /\ SignedOutMeansForgotten'
        BY <1>1 DEF IInv, Types, CallTypes, SignedOutMeansForgotten, loginVars
  <1>3. Inside'
        BY <1>1, SignedOutIsOutside DEF IInv, Types, Inside, Door
  <1>4. OneUser'
        BY <1>1 DEF IInv, OneUser, AllOf, loginVars
  <1> QED
      BY <1>2, <1>3, <1>4 DEF IInv

\* Who signs in beside nobody else is the one user; beside the one user, the same.
LEMMA LoginIInv ==
    ASSUME IInv, NEW tab \in Tabs, NEW user \in Users, Login(tab, user)
    PROVE  IInv'
  <1>1. /\ authLoading' = [authLoading EXCEPT ![tab] = TRUE]
        /\ crossed' = (crossed \/ About \ {user} # {})
        /\ UNCHANGED <<world, server, stored, auth, page, refreshing, calls>>
        BY DEF Login
  <1>2. PICK n \in 1..world.logins :
          logging' = [logging EXCEPT ![tab] = @ \cup {[user |-> user, number |-> n]}]
        BY DEF Login
  <1>3. [user |-> user, number |-> n] \in Logins
        BY WorldAssumption DEF IInv, Types, Logins
  <1>4. Types' /\ CallTypes' /\ Inside' /\ SignedOutMeansForgotten'
        BY <1>1, <1>2, <1>3 DEF IInv, Types, CallTypes, Inside, SignedOutMeansForgotten
  <1>5. ASSUME ~crossed'
        PROVE  AllOf(user)'
    <2>1. ~crossed /\ About \subseteq {user}
          BY <1>1, <1>5
    <2>2. PICK u \in Users \cup {None} : AllOf(u)
          BY <2>1 DEF IInv, OneUser
    <2>3. /\ \A t \in Tabs : /\ auth[t] # None => auth[t].user = user
                             /\ \A l \in logging[t] : l.user = user
                             /\ refreshing[t] # None => refreshing[t] = user
          /\ \A c \in calls : c.asker.user = user /\ c.token.user = user
      <3> DEFINE shown == {auth[t].user : t \in {t \in Tabs : auth[t] # None}}
                 named == UNION {{l.user : l \in logging[t]} : t \in Tabs}
                 renewed == {refreshing[t] : t \in {t \in Tabs : refreshing[t] # None}}
                 called == UNION {{c.asker.user, c.token.user} : c \in calls}
      <3>1. About = shown \cup named \cup renewed \cup called
            BY DEF About
      <3>2. \A t \in Tabs : auth[t] # None => auth[t].user \in shown
            OBVIOUS
      <3>3. \A t \in Tabs : \A l \in logging[t] : l.user \in named
            OBVIOUS
      <3>4. \A t \in Tabs : refreshing[t] # None => refreshing[t] \in renewed
            OBVIOUS
      <3>5. \A c \in calls : c.asker.user \in called /\ c.token.user \in called
            OBVIOUS
      <3> HIDE DEF shown, named, renewed, called
      <3>6. \A x \in shown \cup named \cup renewed \cup called : x = user
            BY <2>1, <3>1
      <3>7. \A c \in calls : c.asker.user = user /\ c.token.user = user
            BY <3>6, <3>5
      <3> QED
          BY <3>6, <3>7, <3>2, <3>3, <3>4
    <2>4. ASSUME stored # None
          PROVE  stored.user = user
      <3>1. PICK t \in Tabs : auth[t] # None
            BY <2>4 DEF IInv, SignedOutMeansForgotten
      <3> QED
          BY <2>2, <2>3, <2>4, <3>1 DEF AllOf
    <2> QED
        BY <1>1, <1>2, <2>3, <2>4 DEF AllOf, IInv, Types
  <1> QED
      BY <1>4, <1>5 DEF IInv, OneUser

LEMMA LogoutIInv ==
    ASSUME IInv, NEW tab \in Tabs, Logout(tab)
    PROVE  IInv'
  <1>1. /\ auth' = [auth EXCEPT ![tab] = None]
        /\ stored' = None
        /\ page' = [page EXCEPT ![tab] = LoginPage]
        /\ authLoading' = [authLoading EXCEPT ![tab] = FALSE]
        /\ UNCHANGED <<world, server, logging, refreshing, calls, crossed>>
        BY DEF Logout, Persist
  <1>2. Types' /\ CallTypes' /\ SignedOutMeansForgotten'
        BY <1>1 DEF IInv, Types, CallTypes, SignedOutMeansForgotten
  <1>3. Inside'
        BY <1>1 DEF IInv, Types, Inside, Door
  <1>4. OneUser'
        BY <1>1 DEF IInv, Types, OneUser, AllOf
  <1> QED
      BY <1>2, <1>3, <1>4 DEF IInv

LEMMA AskIInv ==
    ASSUME IInv, NEW tab \in Tabs, NEW call \in CallsIn(tab), Ask(tab, call)
    PROVE  IInv'
  <1> DEFINE token == IF stored # None THEN stored ELSE auth[tab]
             new == [tab |-> tab, page |-> page[tab], call |-> call, asker |-> auth[tab],
                     token |-> token, tries |-> 1, waits |-> FALSE]
  <1>1. /\ calls' = calls \cup {new}
        /\ UNCHANGED <<world, server, stored, auth, page, logging, authLoading, refreshing, crossed>>
        BY DEF Ask, loginVars
  <1>2. auth[tab] # None
        BY DEF CallsIn, IInv, Inside
  <1>3. auth[tab] \in Sessions /\ token \in Sessions
        BY <1>2 DEF IInv, Types
  <1>4. /\ DOMAIN new = CallFields
        /\ new.tab = tab /\ new.asker = auth[tab] /\ new.token = token
        BY DEF CallFields
  <1>5. Types' /\ Inside' /\ SignedOutMeansForgotten'
        BY <1>1 DEF IInv, Types, Inside, SignedOutMeansForgotten
  <1>6. CallTypes'
        BY <1>1, <1>3, <1>4 DEF IInv, CallTypes
  <1>7. ASSUME NEW u \in Users \cup {None}, AllOf(u)
        PROVE  AllOf(u)'
    <2>1. new.asker.user = u /\ new.token.user = u
          BY <1>2, <1>4, <1>7 DEF AllOf
    <2> HIDE DEF new
    <2> QED
        BY <1>1, <1>7, <2>1 DEF AllOf
  <1> QED
      BY <1>1, <1>5, <1>6, <1>7 DEF IInv, OneUser

LEMMA ChangeRightsIInv ==
    ASSUME IInv, NEW user \in Users, NEW rights \in world.alternatives, ChangeRights(user, rights)
    PROVE  IInv'
  <1>1. /\ server' = [server EXCEPT ![user] = rights]
        /\ UNCHANGED <<world, stored, auth, page, logging, authLoading, refreshing, calls, crossed>>
        BY DEF ChangeRights, loginVars
  <1>2. rights \in RightsAbout \cup {None}
        BY DEF IInv, Types, RightsAbout
  <1>3. Types'
        BY <1>1, <1>2 DEF IInv, Types
  <1>4. CallTypes' /\ Inside' /\ SignedOutMeansForgotten' /\ OneUser'
        BY <1>1 DEF IInv, CallTypes, Inside, SignedOutMeansForgotten, OneUser, AllOf
  <1> QED
      BY <1>3, <1>4 DEF IInv

-----------------------------------------------------------------------------
(* Answers, and the timer.                                                 *)

LEMMA LoginOkIInv ==
    ASSUME IInv, NEW tab \in Tabs, NEW login \in logging[tab], LoginOk(tab, login)
    PROVE  IInv'
  <1> DEFINE session == [user |-> login.user, rights |-> server[login.user]]
  <1>1. /\ server[login.user] # None
        /\ auth' = [auth EXCEPT ![tab] = session]
        /\ stored' = session
        /\ page' = [page EXCEPT ![tab] = HomePath]
        /\ logging' = [logging EXCEPT ![tab] = @ \ {login}]
        /\ authLoading' = [authLoading EXCEPT ![tab] = FALSE]
        /\ UNCHANGED <<world, server, refreshing, calls, crossed>>
        BY DEF LoginOk, LoginSettles, Persist
  <1>2. session \in Sessions /\ session.user = login.user
        BY <1>1 DEF IInv, Types, Sessions, Logins
  <1> HIDE DEF session
  <1>3. session # None
        BY <1>2, SessionIsSomething
  <1>4. Types' /\ CallTypes'
        BY <1>1, <1>2 DEF IInv, Types, CallTypes
  <1>5. Inside' /\ SignedOutMeansForgotten'
        BY <1>1, <1>3 DEF IInv, Types, Inside, SignedOutMeansForgotten
  <1>6. ASSUME NEW u \in Users \cup {None}, AllOf(u)
        PROVE  AllOf(u)'
        BY <1>1, <1>2, <1>6 DEF AllOf, IInv, Types
  <1> QED
      BY <1>1, <1>4, <1>5, <1>6 DEF IInv, OneUser

LEMMA LoginFailsIInv ==
    ASSUME IInv, NEW tab \in Tabs, NEW login \in logging[tab], LoginFails(tab, login)
    PROVE  IInv'
  <1>1. /\ auth' = [auth EXCEPT ![tab] = None]
        /\ stored' = None
        /\ page' = [page EXCEPT ![tab] = Where(None, page[tab])]
        /\ logging' = [logging EXCEPT ![tab] = @ \ {login}]
        /\ authLoading' = [authLoading EXCEPT ![tab] = FALSE]
        /\ UNCHANGED <<world, server, refreshing, calls, crossed>>
        BY DEF LoginFails, LoginSettles, Persist
  <1>2. Types' /\ CallTypes' /\ SignedOutMeansForgotten'
        BY <1>1 DEF IInv, Types, CallTypes, SignedOutMeansForgotten
  <1>3. Inside'
        BY <1>1, SignedOutIsOutside DEF IInv, Types, Inside, Door
  <1>4. OneUser'
        BY <1>1 DEF IInv, Types, OneUser, AllOf
  <1> QED
      BY <1>2, <1>3, <1>4 DEF IInv

\* A saved profile stores the session of a tab of the one user.
LEMMA SucceedsIInv ==
    ASSUME IInv, NEW call \in calls, Succeeds(call)
    PROVE  IInv'
  <1>1. /\ calls' = calls \ {call}
        /\ \/ auth[call.tab] # None /\ stored' = auth[call.tab]
           \/ stored' = stored
        /\ UNCHANGED <<world, server, auth, page, logging, authLoading, refreshing, crossed>>
        BY DEF Succeeds, Persist, loginVars
  <1>2. call.tab \in Tabs
        BY DEF IInv, CallTypes
  <1>3. Types' /\ CallTypes' /\ Inside' /\ SignedOutMeansForgotten'
        BY <1>1, <1>2 DEF IInv, Types, CallTypes, Inside, SignedOutMeansForgotten
  <1>4. OneUser'
        BY <1>1, <1>2 DEF IInv, OneUser, AllOf
  <1> QED
      BY <1>3, <1>4 DEF IInv

LEMMA CallGoneIInv ==
    ASSUME IInv, NEW call \in calls, Fails(call) \/ ExpiresAgain(call)
    PROVE  IInv'
  <1>1. /\ calls' = calls \ {call}
        /\ UNCHANGED <<world, server, stored, auth, page, logging, authLoading, refreshing, crossed>>
        BY DEF Fails, ExpiresAgain, loginVars
  <1> QED
      BY <1>1 DEF IInv, Types, CallTypes, Inside, SignedOutMeansForgotten, OneUser, AllOf

SameOwner(c, d) ==
    DOMAIN c = DOMAIN d /\ c.tab = d.tab /\ c.asker = d.asker /\ c.token = d.token

\* A refresh that starts is for the user whose session is stored.
LEMMA RefreshStartsIInv ==
    ASSUME IInv,
           refreshing' = [t \in Tabs |-> refreshing'[t]],
           \A t \in Tabs : \/ refreshing'[t] = refreshing[t]
                           \/ stored # None /\ refreshing'[t] = stored.user,
           \A c \in calls' : \E d \in calls : SameOwner(c, d),
           UNCHANGED <<world, server, stored, auth, page, logging, authLoading, crossed>>
    PROVE  IInv'
  <1>1. stored # None => stored.user \in Users
        BY SessionIsSomething DEF IInv, Types
  <1>2. Types'
        BY <1>1 DEF IInv, Types
  <1>3. CallTypes' /\ Inside' /\ SignedOutMeansForgotten'
        BY DEF SameOwner, IInv, CallTypes, Inside, SignedOutMeansForgotten
  <1>4. ASSUME NEW u \in Users \cup {None}, AllOf(u)
        PROVE  AllOf(u)'
        BY <1>4 DEF SameOwner, AllOf, IInv, Types
  <1> QED
      BY <1>2, <1>3, <1>4 DEF IInv, OneUser

LEMMA ExpiresIInv ==
    ASSUME IInv, NEW call \in calls, Expires(call)
    PROVE  IInv'
  <1>1. call.tab \in Tabs /\ DOMAIN call = CallFields
        BY DEF IInv, CallTypes
  <1>2. CASE /\ refreshing[call.tab] # None \/ stored # None
             /\ refreshing' = [refreshing EXCEPT
                    ![call.tab] = IF @ # None THEN @ ELSE stored.user]
             /\ calls' = (calls \ {call}) \cup {Retried(call)}
             /\ UNCHANGED <<world, server, stored, auth, page, logging, authLoading, crossed>>
    <2>1. /\ DOMAIN Retried(call) = DOMAIN call
          /\ Retried(call).tab = call.tab
          /\ Retried(call).asker = call.asker /\ Retried(call).token = call.token
          BY <1>1 DEF Retried, CallFields
    <2>2. /\ refreshing' = [t \in Tabs |-> refreshing'[t]]
          /\ \A t \in Tabs : \/ refreshing'[t] = refreshing[t]
                             \/ stored # None /\ refreshing'[t] = stored.user
          BY <1>1, <1>2 DEF IInv, Types
    <2>3. \A c \in calls' : \E d \in calls : SameOwner(c, d)
          BY <1>2, <2>1 DEF SameOwner
    <2>4. UNCHANGED <<world, server, stored, auth, page, logging, authLoading, crossed>>
          BY <1>2
    <2> QED
        BY <2>2, <2>3, <2>4, RefreshStartsIInv
  <1>3. CASE EndSession(call.tab, {call}) /\ UNCHANGED <<world, server, crossed>>
        BY <1>1, <1>3, EndSessionIInv
  <1> QED
      BY <1>2, <1>3 DEF Expires, loginVars

LEMMA TickIInv ==
    ASSUME IInv, NEW tab \in Tabs, Tick(tab)
    PROVE  IInv'
  <1>1. CASE /\ stored # None
             /\ refreshing' = [refreshing EXCEPT ![tab] = stored.user]
             /\ UNCHANGED <<world, server, stored, auth, page, logging, authLoading, calls, crossed>>
    <2>1. \A c \in calls' : \E d \in calls : SameOwner(c, d)
          BY <1>1 DEF SameOwner
    <2>2. /\ refreshing' = [t \in Tabs |-> refreshing'[t]]
          /\ \A t \in Tabs : \/ refreshing'[t] = refreshing[t]
                             \/ stored # None /\ refreshing'[t] = stored.user
          BY <1>1 DEF IInv, Types
    <2> QED
        BY <1>1, <2>1, <2>2, RefreshStartsIInv
  <1>2. CASE EndSession(tab, {}) /\ UNCHANGED <<world, server, crossed>>
        BY <1>2, EndSessionIInv
  <1> QED
      BY <1>1, <1>2 DEF Tick, loginVars

LEMMA RefreshOkIInv ==
    ASSUME IInv, NEW tab \in Tabs, RefreshOk(tab)
    PROVE  IInv'
  <1> DEFINE session == [user |-> refreshing[tab], rights |-> server[refreshing[tab]]]
  <1>1. /\ refreshing[tab] # None /\ server[refreshing[tab]] # None
        /\ auth' = [auth EXCEPT ![tab] = session]
        /\ stored' = session
        /\ page' = [page EXCEPT ![tab] = Rerouted(tab, session)]
        /\ calls' = (calls \ WaitingIn(tab)) \cup Resent(tab, session)
        /\ refreshing' = [refreshing EXCEPT ![tab] = None]
        /\ UNCHANGED <<world, server, logging, authLoading, crossed>>
        BY DEF RefreshOk, Persist, loginVars
  <1>2. session \in Sessions /\ session.user = refreshing[tab]
        BY <1>1 DEF IInv, Types, Sessions
  <1> HIDE DEF session
  <1>3. session # None
        BY <1>2, SessionIsSomething
  <1>4. \A c \in Resent(tab, session) :
            /\ DOMAIN c = CallFields /\ c.token = session
            /\ \E d \in calls : c.tab = d.tab /\ c.asker = d.asker
    <2>1. ASSUME NEW d \in calls
          PROVE  LET c == [d EXCEPT !.token = session, !.waits = FALSE]
                 IN  /\ DOMAIN c = CallFields /\ c.token = session
                     /\ c.tab = d.tab /\ c.asker = d.asker
          BY DEF IInv, CallTypes, CallFields
    <2> TAKE c \in Resent(tab, session)
    <2>2. PICK d \in calls : c = [d EXCEPT !.token = session, !.waits = FALSE]
          BY DEF Resent, WaitingIn
    <2> QED
        BY <2>1, <2>2
  <1>5. Types' /\ CallTypes'
        BY <1>1, <1>2, <1>4 DEF IInv, Types, CallTypes
  <1>6. Inside' /\ SignedOutMeansForgotten'
        BY <1>1, <1>3 DEF IInv, Types, Inside, SignedOutMeansForgotten
  <1>7. ASSUME NEW u \in Users \cup {None}, AllOf(u)
        PROVE  AllOf(u)'
        BY <1>1, <1>2, <1>4, <1>7 DEF AllOf, IInv, Types
  <1> QED
      BY <1>1, <1>5, <1>6, <1>7 DEF IInv, OneUser

LEMMA RefreshFailsIInv ==
    ASSUME IInv, NEW tab \in Tabs, RefreshFails(tab)
    PROVE  IInv'
  BY EndSessionIInv DEF RefreshFails

-----------------------------------------------------------------------------
LEMMA NextIInv ==
    ASSUME IInv, [Next]_vars
    PROVE  IInv'
  <1>1. world.tabs \subseteq Tabs /\ world.users \subseteq Users
        BY WorldAssumption DEF IInv, Types
  <1>2. ASSUME NEW tab \in world.tabs, Runs(tab)
        PROVE  IInv'
    <2>1. tab \in Tabs
          BY <1>1
    <2>2. CASE LoginEnds(tab)
          BY <2>1, <2>2, LoginOkIInv, LoginFailsIInv DEF LoginEnds
    <2>3. CASE RefreshEnds(tab)
          BY <2>1, <2>3, RefreshOkIInv, RefreshFailsIInv DEF RefreshEnds
    <2>4. CASE Answer(tab)
      <3>1. PICK c \in calls : Succeeds(c) \/ Fails(c) \/ Expires(c) \/ ExpiresAgain(c)
            BY <2>4 DEF Answer, CallsOf
      <3> QED
          BY <3>1, SucceedsIInv, CallGoneIInv, ExpiresIInv
    <2>5. CASE Tick(tab)
          BY <2>1, <2>5, TickIInv
    <2> QED
        BY <1>2, <2>2, <2>3, <2>4, <2>5 DEF Runs
  <1>3. ASSUME NEW tab \in world.tabs, Acts(tab)
        PROVE  IInv'
    <2>1. tab \in Tabs
          BY <1>1
    <2>2. CASE \E address \in world.addresses : Open(tab, address)
          BY <2>1, <2>2, OpenIInv
    <2>3. CASE \E link \in OfferedIn(tab) : Follow(tab, link)
          BY <2>1, <2>3, FollowIInv
    <2>4. CASE \E user \in world.users : Login(tab, user)
          BY <1>1, <2>1, <2>4, LoginIInv
    <2>5. CASE Logout(tab)
          BY <2>1, <2>5, LogoutIInv
    <2>6. CASE \E call \in CallsIn(tab) \cap world.calls : Ask(tab, call)
          BY <2>1, <2>6, AskIInv
    <2> QED
        BY <1>3, <2>2, <2>3, <2>4, <2>5, <2>6 DEF Acts
  <1>4. ASSUME NEW user \in world.users, NEW rights \in world.alternatives,
               ChangeRights(user, rights)
        PROVE  IInv'
        BY <1>1, <1>4, ChangeRightsIInv
  <1>5. CASE UNCHANGED vars
        BY <1>5 DEF vars, IInv, Types, CallTypes, Inside, SignedOutMeansForgotten, OneUser, AllOf
  <1> QED
      BY <1>2, <1>3, <1>4, <1>5 DEF Next

LEMMA SpecIInv == Spec => []IInv
  <1>1. IInv /\ [Next]_vars => IInv'
        BY NextIInv
  <1> QED
      BY InitIInv, <1>1, PTL DEF Spec

(* For any users and any number of tabs, whenever no tab is signed in      *)
(* localStorage holds no session: persistAuth goes with every way a tab    *)
(* gives a session up (user_slice.ts).                                     *)
THEOREM Forgotten == Spec => []SignedOutMeansForgotten
  <1>1. IInv => SignedOutMeansForgotten
        BY DEF IInv
  <1> QED
      BY SpecIInv, <1>1, PTL

(* For any users and any number of tabs, as long as nobody has signed in   *)
(* beside another user, calls are sent in their own user's name, and what  *)
(* a tab shows and what is stored are one user's.                          *)
THEOREM NameKept == Spec => []OwnName
  <1>1. ASSUME IInv
        PROVE  OwnName
    <2>1. SUFFICES ASSUME ~crossed
                   PROVE  /\ \A c \in calls : c.token.user = c.asker.user
                          /\ \A t \in Tabs : auth[t] # None /\ stored # None
                                                => auth[t].user = stored.user
          BY DEF OwnName
    <2>2. PICK u \in Users \cup {None} : AllOf(u)
          BY <1>1, <2>1 DEF IInv, OneUser
    <2> QED
        BY <2>2 DEF AllOf
  <1> QED
      BY SpecIInv, <1>1, PTL
-----------------------------------------------------------------------------
(* The tables: where an address ends, and whom a page admits.              *)

LEMMA SmallestIsOne ==
    ASSUME NEW S \in SUBSET (1..4), S # {}
    PROVE  (CHOOSE i \in S : \A j \in S : i <= j) \in S
  <1>1. \E i \in S : \A j \in S : i <= j
    <2>1. S \subseteq {1, 2, 3, 4}
          OBVIOUS
    <2>2. CASE 1 \in S
          BY <2>1, <2>2
    <2>3. CASE 1 \notin S /\ 2 \in S
          BY <2>1, <2>3
    <2>4. CASE 1 \notin S /\ 2 \notin S /\ 3 \in S
          BY <2>1, <2>4
    <2>5. CASE 1 \notin S /\ 2 \notin S /\ 3 \notin S /\ 4 \in S
          BY <2>1, <2>5
    <2> QED
        BY <2>1, <2>2, <2>3, <2>4, <2>5
  <1> QED
      BY <1>1

\* What a hub asks for is what its tabs ask for.
LEMMA HubFacts ==
    ASSUME NEW h \in Hubs
    PROVE  /\ 1 \in DOMAIN HubTabs[h] /\ DOMAIN HubTabs[h] \subseteq 1..4
           /\ \A x \in HubNeeds[h] : \E i \in DOMAIN HubTabs[h] : x \in HubTabs[h][i].needs
  <1>1. Schemes = <<"eth", "visa", "visacbs", "mastercard">>
        BY DEF Schemes
  <1>2. ToSet(Schemes) = {Schemes[i] : i \in 1..4}
        BY <1>1 DEF ToSet
  <1>3. CASE h = "/clearing/uncleared"
    <2>1. HubTabs[h] = UnclearedTabs
          BY <1>3 DEF HubTabs
    <2>2. HubNeeds[h] = {ClearingRight("uncleared", s) : s \in ToSet(Schemes)}
          BY <1>3 DEF HubNeeds
    <2>3. DOMAIN UnclearedTabs = 1..4
          BY DEF UnclearedTabs
    <2>4. \A i \in 1..4 : UnclearedTabs[i].needs = {ClearingRight("uncleared", Schemes[i])}
          BY DEF UnclearedTabs, Offer
    <2> QED
        BY <1>2, <2>1, <2>2, <2>3, <2>4
  <1>4. CASE h = "/clearing/cleared"
    <2>1. HubTabs[h] = ClearedTabs
          BY <1>4 DEF HubTabs, Hubs
    <2>2. HubNeeds[h] = {ClearingRight("cleared", s) : s \in ToSet(Schemes)}
                        \cup {ClearingRight("uncleared", "visacbs")}
          BY <1>4 DEF HubNeeds, Hubs
    <2>3. DOMAIN ClearedTabs = 1..4
          BY DEF ClearedTabs
    <2>4. \A i \in 1..4 : ClearedTabs[i].needs =
            {ClearingRight("cleared", Schemes[i])} \cup
            (IF Schemes[i] = "visacbs" THEN {ClearingRight("uncleared", "visacbs")} ELSE {})
          BY DEF ClearedTabs, Offer
    <2>5. Schemes[3] = "visacbs"
          BY <1>1
    <2> QED
        BY <1>2, <2>1, <2>2, <2>3, <2>4, <2>5
  <1>5. CASE h = "/settlement/unsettled"
    <2>1. HubTabs[h] = UnsettledTabs
          BY <1>5 DEF HubTabs, Hubs
    <2>2. HubNeeds[h] = {SettlementRight("unsettled", s) : s \in ToSet(Schemes)}
          BY <1>5 DEF HubNeeds, Hubs
    <2>3. DOMAIN UnsettledTabs = 1..4
          BY DEF UnsettledTabs
    <2>4. \A i \in 1..4 : UnsettledTabs[i].needs = {SettlementRight("unsettled", Schemes[i])}
          BY DEF UnsettledTabs, Offer
    <2> QED
        BY <1>2, <2>1, <2>2, <2>3, <2>4
  <1>6. CASE h = "/settlement/settled"
    <2> DEFINE schemes == <<"eth", "visa", "mastercard">>
    <2>1. HubTabs[h] = SettledTabs
          BY <1>6 DEF HubTabs, Hubs
    <2>2. HubNeeds[h] = {SettlementRight("settled", s) : s \in {"eth", "visa", "mastercard"}}
          BY <1>6 DEF HubNeeds, Hubs
    <2>3. DOMAIN SettledTabs = 1..3
          BY DEF SettledTabs
    <2>4. \A i \in 1..3 : SettledTabs[i].needs = {SettlementRight("settled", schemes[i])}
          BY DEF SettledTabs, Offer
    <2>5. schemes[1] = "eth" /\ schemes[2] = "visa" /\ schemes[3] = "mastercard"
          OBVIOUS
    <2> QED
        BY <2>1, <2>2, <2>3, <2>4, <2>5
  <1> QED
      BY <1>3, <1>4, <1>5, <1>6 DEF Hubs

\* A hub that lets somebody in shows a tab that they may see, the one asked for if it is one.
LEMMA HubShowsATab ==
    ASSUME NEW h \in Hubs, NEW a, NEW rights, Admits(HubNeeds[h], rights)
    PROVE  \E i \in DOMAIN HubTabs[h] :
              /\ Admits(HubTabs[h][i].needs, rights) /\ HubShows(h, a, rights) = HubTabs[h][i].to
              /\ (\E j \in DOMAIN HubTabs[h] :
                    HubTabs[h][j].to = a /\ Admits(HubTabs[h][j].needs, rights))
                 => HubTabs[h][i].to = a
  <1> DEFINE tabs == HubTabs[h]
             allowed == {i \in DOMAIN tabs : Admits(tabs[i].needs, rights)}
             first == CHOOSE i \in allowed : \A j \in allowed : i <= j
  <1>1. allowed # {}
    <2>1. HubNeeds[h] # {}
          BY HubFacts, RouteAssumption DEF Anyone
    <2>2. PICK x \in HubNeeds[h] : x \in rights
          BY <2>1 DEF Admits, Anyone
    <2>3. PICK i \in DOMAIN tabs : x \in tabs[i].needs
          BY <2>2, HubFacts
    <2> QED
        BY <2>2, <2>3 DEF Admits
  <1>2. first \in allowed
        BY <1>1, HubFacts, SmallestIsOne
  <1>3. HubShows(h, a, rights) = IF \E i \in allowed : tabs[i].to = a THEN a ELSE tabs[first].to
        BY <1>1 DEF HubShows
  <1> HIDE DEF first
  <1> QED
      BY <1>2, <1>3

\* Whom a page admits by name, by tab and by hub.
LEMMA NeedsFacts ==
    ASSUME NEW rights
    PROVE  /\ \A p \in DOMAIN PageNeeds : NeedsOf(p) = PageNeeds[p]
           /\ \A h \in Hubs : NeedsOf(h) = HubNeeds[h]
           /\ \A h \in Hubs : \A p \in TabPages(h) :
                Admits(NeedsOf(p), rights) <=>
                    \E i \in DOMAIN HubTabs[h] :
                        HubTabs[h][i].to = p /\ Admits(HubTabs[h][i].needs, rights)
  <1>1. \A p \in DOMAIN PageNeeds : NeedsOf(p) = PageNeeds[p]
        BY DEF NeedsOf
  <1>2. \A h \in Hubs : NeedsOf(h) = HubNeeds[h]
        BY RouteAssumption DEF NeedsOf
  <1>3. ASSUME NEW h \in Hubs, NEW p \in TabPages(h)
        PROVE  Admits(NeedsOf(p), rights) <=>
                    \E i \in DOMAIN HubTabs[h] :
                        HubTabs[h][i].to = p /\ Admits(HubTabs[h][i].needs, rights)
    <2>1. p \in TabbedPages
          BY DEF TabbedPages
    <2>2. p \notin DOMAIN PageNeeds /\ p \notin Hubs
          BY <2>1, RouteAssumption
    <2>3. NeedsOf(p) =
            UNION {tab.needs : tab \in {t \in UNION {ToSet(HubTabs[g]) : g \in Hubs} : t.to = p}}
          BY <2>2 DEF NeedsOf
    <2>4. \A x : x \in NeedsOf(p) <=>
            \E g \in Hubs : \E i \in DOMAIN HubTabs[g] :
                HubTabs[g][i].to = p /\ x \in HubTabs[g][i].needs
          BY <2>3 DEF ToSet
    <2>5. \A g \in Hubs : \A i \in DOMAIN HubTabs[g] : HubTabs[g][i].to = p => g = h
          BY RouteAssumption DEF TabPages
    <2>6. \A x : x \in NeedsOf(p) <=>
            \E i \in DOMAIN HubTabs[h] : HubTabs[h][i].to = p /\ x \in HubTabs[h][i].needs
          BY <2>4, <2>5
    <2>7. \A i \in DOMAIN HubTabs[h] : HubTabs[h][i].needs # {}
          BY RouteAssumption DEF Anyone
    <2>8. PICK i \in DOMAIN HubTabs[h] : HubTabs[h][i].to = p
          BY DEF TabPages
    <2>9. NeedsOf(p) # {}
          BY <2>6, <2>7, <2>8
    <2> HIDE DEF NeedsOf
    <2> QED
        BY <2>6, <2>7, <2>9 DEF Admits, Anyone
  <1> QED
      BY <1>1, <1>2, <1>3

\* Lands, kind by kind.
LEMMA LandsFacts ==
    ASSUME NEW rights
    PROVE  /\ \A a \in Pages \cup Hubs : Redirected(a) = a
           /\ \A a : Redirected(a) = LoginPage => Lands(a, rights) = LoginPage
           /\ \A a : Redirected(a) = RequestPage => Lands(a, rights) = HomePath
           /\ \A a : Redirected(a) \in DOMAIN PageNeeds =>
                Lands(a, rights) = Guarded(PageNeeds[Redirected(a)], rights, Redirected(a))
           /\ \A a : \A h \in Hubs : Redirected(a) \in {h} \cup TabPages(h) =>
                Lands(a, rights) = Guarded(HubNeeds[h], rights, HubShows(h, Redirected(a), rights))
           /\ \A a : \/ Redirected(a) \in {LoginPage, RequestPage} \cup DOMAIN PageNeeds
                     \/ \E h \in Hubs : Redirected(a) \in {h} \cup TabPages(h)
                     \/ Lands(a, rights) = NotFound
           /\ Lands(NotFound, rights) = NotFound
  <1>1. \A a \in Pages \cup Hubs : Redirected(a) = a
        BY RouteAssumption DEF OldAddresses, Redirected
  <1>2. LoginPage # RequestPage /\ NotFound # LoginPage /\ NotFound # RequestPage
        BY DEF LoginPage, RequestPage, NotFound
  <1>3. \A a : Redirected(a) \in DOMAIN PageNeeds =>
            /\ Redirected(a) # LoginPage /\ Redirected(a) # RequestPage
            /\ HubOf(Redirected(a)) = {}
        BY RouteAssumption DEF HubOf, TabbedPages
  <1>4. \A a : \A h \in Hubs : Redirected(a) \in {h} \cup TabPages(h) =>
            /\ Redirected(a) \notin {LoginPage, RequestPage, NotFound} \cup DOMAIN PageNeeds
            /\ HubOf(Redirected(a)) = {h}
        BY RouteAssumption DEF HubOf, TabbedPages
  <1>5. \A a : HubOf(Redirected(a)) # {} => \E h \in Hubs : Redirected(a) \in {h} \cup TabPages(h)
        BY DEF HubOf
  <1>6. \A a : Redirected(a) = LoginPage => Lands(a, rights) = LoginPage
        BY <1>2, <1>3, <1>4, <1>5, RouteAssumption DEF Lands
  <1>7. \A a : Redirected(a) = RequestPage => Lands(a, rights) = HomePath
        BY <1>2, <1>3, <1>4, <1>5, RouteAssumption DEF Lands
  <1>8. \A a : Redirected(a) \in DOMAIN PageNeeds =>
            Lands(a, rights) = Guarded(PageNeeds[Redirected(a)], rights, Redirected(a))
        BY <1>3 DEF Lands
  <1>9. ASSUME NEW a, NEW h \in Hubs, Redirected(a) \in {h} \cup TabPages(h)
        PROVE  Lands(a, rights) = Guarded(HubNeeds[h], rights, HubShows(h, Redirected(a), rights))
    <2>1. HubOf(Redirected(a)) = {h}
          BY <1>4, <1>9
    <2>2. (CHOOSE g \in Hubs : g \in HubOf(Redirected(a))) = h
          BY <2>1
    <2> QED
        BY <1>4, <1>9, <2>1, <2>2 DEF Lands
  <1>10. \A a : \/ Redirected(a) \in {LoginPage, RequestPage} \cup DOMAIN PageNeeds
                \/ \E h \in Hubs : Redirected(a) \in {h} \cup TabPages(h)
                \/ Lands(a, rights) = NotFound
        BY <1>5 DEF Lands
  <1>11. Lands(NotFound, rights) = NotFound
    <2>1. Redirected(NotFound) = NotFound
          BY <1>1 DEF Pages
    <2> QED
        BY <1>2, <1>10, <2>1, RouteAssumption DEF TabbedPages
  <1> QED
      BY <1>1, <1>6, <1>7, <1>8, <1>9, <1>10, <1>11

\* The page that an address ends at admits those who are shown it.
LEMMA LandsOnce ==
    ASSUME NEW a, NEW rights
    PROVE  LET p == Lands(a, rights)
           IN  p \in Pages /\ (p \notin Door => Lands(p, rights) = p)
  <1>1. HomePath \in Pages /\ Lands(HomePath, rights) = HomePath
    <2>1. HomePath \in Pages /\ Admits(PageNeeds[HomePath], rights)
          BY RouteAssumption DEF Pages, Admits
    <2> QED
        BY <2>1, LandsFacts, RouteAssumption DEF Guarded
  <1>2. CASE Redirected(a) \in {LoginPage, RequestPage}
        BY <1>1, <1>2, LandsFacts DEF Door, Pages
  <1>3. CASE Redirected(a) \in DOMAIN PageNeeds
    <2>1. Redirected(a) \in Pages
          BY <1>3 DEF Pages
    <2> QED
        BY <1>1, <1>3, <2>1, LandsFacts DEF Guarded
  <1>4. ASSUME NEW h \in Hubs, Redirected(a) \in {h} \cup TabPages(h), Admits(HubNeeds[h], rights)
        PROVE  Lands(a, rights) \in Pages /\ Lands(Lands(a, rights), rights) = Lands(a, rights)
    <2>1. PICK i \in DOMAIN HubTabs[h] :
            Admits(HubTabs[h][i].needs, rights) /\ Lands(a, rights) = HubTabs[h][i].to
          BY <1>4, HubShowsATab, LandsFacts DEF Guarded
    <2> DEFINE p == HubTabs[h][i].to
    <2>2. p \in TabPages(h) /\ p \in Pages
          BY DEF TabPages, Pages, TabbedPages
    <2>3. HubShows(h, p, rights) = p
          BY <1>4, <2>1, HubShowsATab
    <2>4. Lands(p, rights) = p
          BY <1>4, <2>2, <2>3, LandsFacts DEF Guarded
    <2> QED
        BY <2>1, <2>2, <2>4
  <1>5. ASSUME NEW h \in Hubs, Redirected(a) \in {h} \cup TabPages(h), ~Admits(HubNeeds[h], rights)
        PROVE  Lands(a, rights) = HomePath
        BY <1>5, LandsFacts DEF Guarded
  <1>6. NotFound \in Pages /\ Lands(NotFound, rights) = NotFound
        BY LandsFacts DEF Pages
  <1> QED
      BY <1>1, <1>2, <1>3, <1>4, <1>5, <1>6, LandsFacts

\* A page is shown to those whom it admits.
LEMMA AdmittedIsShown ==
    ASSUME NEW p \in (Pages \cup Hubs) \ (Door \cup {NotFound}), NEW rights,
           Admits(NeedsOf(p), rights)
    PROVE  Lands(p, rights) \in Destinations(p)
  <1>1. Redirected(p) = p
        BY LandsFacts
  <1>2. Destinations(p) = IF p \in Hubs THEN TabPages(p) ELSE {p}
        BY <1>1 DEF Destinations
  <1>3. CASE p \in DOMAIN PageNeeds
    <2>1. p \notin Hubs
          BY <1>3, RouteAssumption
    <2> QED
        BY <1>1, <1>2, <1>3, <2>1, LandsFacts, NeedsFacts DEF Guarded
  <1>4. CASE p \in Hubs
    <2>1. Admits(HubNeeds[p], rights)
          BY <1>4, NeedsFacts
    <2>2. Lands(p, rights) = HubShows(p, p, rights)
          BY <1>1, <1>4, <2>1, LandsFacts DEF Guarded
    <2>3. HubShows(p, p, rights) \in TabPages(p)
          BY <1>4, <2>1, HubShowsATab DEF TabPages
    <2> QED
        BY <1>2, <1>4, <2>2, <2>3
  <1>5. ASSUME NEW h \in Hubs, p \in TabPages(h)
        PROVE  Lands(p, rights) \in Destinations(p)
    <2>1. PICK i \in DOMAIN HubTabs[h] :
            HubTabs[h][i].to = p /\ Admits(HubTabs[h][i].needs, rights)
          BY <1>5, NeedsFacts
    <2>2. Admits(HubNeeds[h], rights)
          BY <2>1, RouteAssumption DEF Admits, Anyone
    <2>3. HubShows(h, p, rights) = p
          BY <2>1, <2>2, HubShowsATab
    <2>4. Lands(p, rights) = p
          BY <1>1, <1>5, <2>2, <2>3, LandsFacts DEF Guarded
    <2>5. p \notin Hubs
          BY <1>5, RouteAssumption DEF TabbedPages
    <2> QED
        BY <1>2, <2>4, <2>5
  <1> QED
      BY <1>3, <1>4, <1>5 DEF Pages, TabbedPages, Door

\* A page is shown to nobody else.
LEMMA ShownIsAdmitted ==
    ASSUME NEW p \in Pages \ Door, NEW rights, Lands(p, rights) = p
    PROVE  Admits(NeedsOf(p), rights)
  <1>1. Redirected(p) = p
        BY LandsFacts
  <1>2. CASE p \in DOMAIN PageNeeds
    <2>1. CASE Admits(PageNeeds[p], rights)
          BY <1>2, <2>1, NeedsFacts
    <2>2. CASE ~Admits(PageNeeds[p], rights)
      <3>1. p = HomePath
            BY <1>1, <1>2, <2>2, LandsFacts DEF Guarded
      <3> QED
          BY <2>2, <3>1, RouteAssumption DEF Admits
    <2> QED
        BY <2>1, <2>2
  <1>3. ASSUME NEW h \in Hubs, p \in TabPages(h)
        PROVE  Admits(NeedsOf(p), rights)
    <2>1. p # HomePath
          BY <1>3, RouteAssumption DEF TabbedPages
    <2>2. Admits(HubNeeds[h], rights) /\ HubShows(h, p, rights) = p
          BY <1>1, <1>3, <2>1, LandsFacts DEF Guarded
    <2>3. \E i \in DOMAIN HubTabs[h] :
            HubTabs[h][i].to = p /\ Admits(HubTabs[h][i].needs, rights)
          BY <2>2, HubShowsATab
    <2> QED
        BY <1>3, <2>3, NeedsFacts
  <1>4. CASE p = NotFound
    <2>1. p \notin DOMAIN PageNeeds /\ p \notin Hubs
          BY <1>4, RouteAssumption
    <2>2. \A h \in Hubs : \A i \in DOMAIN HubTabs[h] : HubTabs[h][i].to # p
          BY <1>4, RouteAssumption DEF TabbedPages, TabPages
    <2>3. NeedsOf(p) = {}
          BY <2>1, <2>2 DEF NeedsOf, ToSet
    <2> QED
        BY <2>3 DEF Admits, Anyone
  <1> QED
      BY <1>2, <1>3, <1>4 DEF Pages, TabbedPages, Door

-----------------------------------------------------------------------------
(* What a page offers, and what it asks for.                               *)

LEMMA LinksAreOffers ==
    ASSUME NEW p, NEW rights, NEW link \in LinksOn(p, rights)
    PROVE  \E o \in OffersOn(p) : o.to = link /\ Admits(o.needs, rights)
  <1>1. \A S, o : o \in S => \A l : l = o.to /\ Admits(o.needs, rights) => l \in Shown(S, rights)
        BY DEF Shown
  <1>2. \A S : \A l \in Shown(S, rights) : \E o \in S : o.to = l /\ Admits(o.needs, rights)
        BY DEF Shown
  <1>3. ASSUME NEW kinds \in SUBSET {"atm-acquiring", "atm-overall"},
               NEW l \in OtherRates(kinds, rights)
        PROVE  \E o \in RateOffers : o.to = l /\ Admits(o.needs, rights)
    <2>1. PICK k \in kinds : l = RatePath(k) /\ RateRight(k) \in rights
          BY <1>3 DEF OtherRates
    <2> DEFINE o == Offer(RatePath(k), {RateRight(k)})
    <2>2. o \in RateOffers /\ o.to = l /\ o.needs = {RateRight(k)}
          BY <2>1 DEF RateOffers, Offer
    <2> QED
        BY <2>1, <2>2 DEF Admits
  <1>4. ASSUME NEW l \in HomeLinks(rights)
        PROVE  \E o \in HomeOffers : o.to = l /\ Admits(o.needs, rights)
    <2>1. \/ l \in Shown(AtmOffers \cup PosOffers, rights) \/ l \in Shown(ReconOffers, rights)
          \/ l \in Shown(CardOffers, rights) \/ l \in Shown(QuickOffers, rights)
          \/ l \in Shown(WholeOffers, rights) \/ l \in Shown(SearchAndExport, rights)
          \/ l \in OtherRates({"atm-acquiring", "atm-overall"}, rights)
          \/ l \in OtherRates({"atm-acquiring"}, rights)
          BY DEF HomeLinks, TerminalLinks, QuickLinks
    <2>2. \E o \in AtmOffers \cup PosOffers \cup ReconOffers \cup CardOffers \cup QuickOffers
                   \cup WholeOffers \cup SearchAndExport \cup RateOffers :
            o.to = l /\ Admits(o.needs, rights)
      <3>1. CASE \E kinds \in SUBSET {"atm-acquiring", "atm-overall"} : l \in OtherRates(kinds, rights)
            BY <1>3, <3>1
      <3>2. CASE \E S \in {AtmOffers \cup PosOffers, ReconOffers, CardOffers, QuickOffers,
                           WholeOffers, SearchAndExport} : l \in Shown(S, rights)
            BY <1>2, <3>2
      <3> QED
          BY <2>1, <3>1, <3>2
    <2> QED
        BY <2>2 DEF HomeOffers
  <1>5. \/ link \in Shown(Sidebar, rights)
        \/ link \in Shown({x[2] : x \in {x \in PageLinks : x[1] = p}}, rights)
        \/ p = HomePath /\ link \in HomeLinks(rights)
        BY DEF LinksOn
  <1> QED
      BY <1>2, <1>4, <1>5 DEF OffersOn

LEMMA CallsAreOffers ==
    ASSUME NEW p, NEW rights, NEW call \in CallsOn(p, rights)
    PROVE  \E o \in CallOffersOn(p) : o.to = call /\ Admits(o.needs, rights)
  <1>1. \A S : \A l \in Shown(S, rights) : \E o \in S : o.to = l /\ Admits(o.needs, rights)
        BY DEF Shown
  <1>2. ASSUME call \in HomeRateCalls(rights)
        PROVE  \E o \in HomeRateOffers : o.to = call /\ Admits(o.needs, rights)
    <2>1. PICK k \in ToSet(HomeRates) : call = RateCall(k) /\ RateRight(k) \in rights
          BY <1>2 DEF HomeRateCalls, IsHomeRate
    <2> DEFINE o == Offer(RateCall(k), {RateRight(k)})
    <2>2. o \in HomeRateOffers /\ o.to = call /\ o.needs = {RateRight(k)}
          BY <2>1 DEF HomeRateOffers, Offer
    <2> QED
        BY <2>1, <2>2 DEF Admits
  <1>3. \/ call \in Shown({x[2] : x \in {x \in PageCalls : x[1] = p}}, rights)
        \/ p = HomePath /\ call \in HomeRateCalls(rights) \cup Shown(HomeSectionOffers, rights)
        BY DEF CallsOn
  <1> QED
      BY <1>1, <1>2, <1>3 DEF CallOffersOn

LEMMA SufficesFact ==
    ASSUME NEW needs, NEW target, NEW rights, Suffices(needs, target), Admits(needs, rights)
    PROVE  Admits(target, rights)
  BY DEF Suffices, Admits, Anyone

LEMMA WhereFacts ==
    ASSUME NEW session \in Sessions \cup {None}, NEW a \in Places
    PROVE  LET p == Where(session, a)
           IN  /\ p \in Pages
               /\ p \notin Door => session # None /\ p \in Places /\ Where(session, p) = p
  <1>1. CASE session = None
        BY <1>1 DEF Where, LandsSignedOut, Pages, Door
  <1>2. CASE session # None
    <2>1. session.rights \in RightsAbout
          BY <1>2 DEF Sessions
    <2>2. \A b \in Places : Where(session, b) = Lands(b, session.rights)
          BY <1>2, <2>1 DEF Where, Landing
    <2>3. Pages \subseteq Places
          BY DEF Places, Addresses, Pages
    <2> QED
        BY <1>2, <2>2, <2>3, LandsOnce
  <1> QED
      BY <1>1, <1>2

-----------------------------------------------------------------------------
(* Pages and calls go with the rights of the session they are shown to.    *)

PagesOK == page \in [Tabs -> Pages] /\ OnlyAdmitted

\* A call comes from a page that admits its asker and makes it for the asker's rights.
CallOK(c) ==
    /\ c \in [tab : Tabs, page : Pages, call : Calls, asker : Sessions, token : Sessions,
              tries : 1..2, waits : BOOLEAN]
    /\ c.page \notin Door /\ Where(c.asker, c.page) = c.page
    /\ c.call \in CallsOn(c.page, c.asker.rights)

PageInv == changes \in Nat /\ PagesOK /\ \A c \in calls : CallOK(c)

\* One tab goes to a page that admits its session, the others stay.
LEMMA OneTabMoves ==
    ASSUME PagesOK, NEW tab \in Tabs, NEW p \in Pages,
           page' = [page EXCEPT ![tab] = p],
           \A t \in Tabs \ {tab} : auth'[t] = auth[t],
           p \notin Door => Where(auth'[tab], p) = p
    PROVE  PagesOK'
  <1>1. \A t \in Tabs : page'[t] = IF t = tab THEN p ELSE page[t]
        BY DEF PagesOK
  <1>2. page' \in [Tabs -> Pages]
        BY DEF PagesOK
  <1>3. ASSUME NEW t \in Tabs, page'[t] \notin Door
        PROVE  Where(auth'[t], page'[t]) = page'[t]
    <2>1. CASE t = tab
          BY <1>1, <1>3, <2>1
    <2>2. CASE t # tab
      <3>1. page'[t] = page[t] /\ auth'[t] = auth[t]
            BY <1>1, <2>2
      <3>2. Where(auth[t], page[t]) = page[t]
            BY <1>3, <3>1 DEF PagesOK, OnlyAdmitted
      <3> QED
          BY <3>1, <3>2
    <2> QED
        BY <2>1, <2>2
  <1> QED
      BY <1>2, <1>3 DEF PagesOK, OnlyAdmitted

\* One tab is routed by its session, the others stay.
LEMMA OneTabRouted ==
    ASSUME PagesOK, NEW tab \in Tabs, NEW session \in Sessions \cup {None}, NEW a \in Places,
           page' = [page EXCEPT ![tab] = Where(session, a)],
           auth'[tab] = session,
           \A t \in Tabs \ {tab} : auth'[t] = auth[t]
    PROVE  PagesOK'
  <1> DEFINE p == Where(session, a)
  <1>1. p \in Pages /\ (p \notin Door => Where(session, p) = p)
        BY WhereFacts
  <1>2. page' = [page EXCEPT ![tab] = p]
        OBVIOUS
  <1> HIDE DEF p
  <1> QED
      BY <1>1, <1>2, OneTabMoves

LEMMA SameCallsOK ==
    ASSUME \A c \in calls : CallOK(c), calls' \subseteq calls
    PROVE  \A c \in calls' : CallOK(c)
  OBVIOUS

LEMMA DoorPages == LoginPage \in Pages /\ LoginPage \in Door /\ LoginPage \in Places
  BY DEF Pages, Door, Places, Addresses

LEMMA LoadedPages ==
    ASSUME IInv, PageInv, NEW tab \in Tabs, NEW session \in Sessions \cup {None},
           NEW a \in Places, Loaded(tab, session, a), changes' = changes
    PROVE  PageInv'
  <1>1. /\ auth' = [auth EXCEPT ![tab] = session]
        /\ page' = [page EXCEPT ![tab] = Where(session, a)]
        /\ calls' \subseteq calls
        BY DEF Loaded
  <1>2. auth'[tab] = session /\ \A t \in Tabs \ {tab} : auth'[t] = auth[t]
        BY <1>1 DEF IInv, Types
  <1>3. PagesOK'
        BY <1>1, <1>2, OneTabRouted DEF PageInv
  <1> QED
      BY <1>1, <1>3, SameCallsOK DEF PageInv

LEMMA EndSessionPages ==
    ASSUME IInv, PageInv, NEW tab \in Tabs, NEW rejected, EndSession(tab, rejected),
           changes' = changes
    PROVE  PageInv'
  <1>1. CASE Loaded(tab, None, LoginPage)
        BY <1>1, LoadedPages, DoorPages
  <1>2. CASE /\ page[tab] = LoginPage
             /\ auth' = [auth EXCEPT ![tab] = None]
             /\ calls' = calls \ rejected
             /\ page' = page
    <2>1. page' = [page EXCEPT ![tab] = LoginPage]
          BY <1>2 DEF PageInv, PagesOK
    <2>2. \A t \in Tabs \ {tab} : auth'[t] = auth[t]
          BY <1>2 DEF IInv, Types
    <2>3. PagesOK'
          BY <2>1, <2>2, DoorPages, OneTabMoves DEF PageInv
    <2> QED
        BY <1>2, <2>3, SameCallsOK DEF PageInv
  <1> QED
      BY <1>1, <1>2 DEF EndSession

LEMMA FollowPages ==
    ASSUME IInv, PageInv, NEW tab \in Tabs, NEW link \in OfferedIn(tab), Follow(tab, link)
    PROVE  PageInv'
  <1>1. /\ page' = [page EXCEPT ![tab] = Where(auth[tab], link)]
        /\ UNCHANGED <<changes, auth, calls>>
        BY DEF Follow
  <1>2. link \in Places
    <2>1. CASE page[tab] \in Door
      <3>1. link \in {LoginPage, RequestPage}
            BY <2>1 DEF OfferedIn, DoorLinks, Door
      <3> QED
          BY <3>1 DEF Places, Addresses
    <2>2. CASE page[tab] \notin Door
      <3>1. page[tab] \in Pages \ Door
            BY <2>2 DEF PageInv, PagesOK
      <3>2. link \in LinksOn(page[tab], auth[tab].rights)
            BY <2>2 DEF OfferedIn
      <3>3. PICK o \in OffersOn(page[tab]) : o.to = link
            BY <3>2, LinksAreOffers
      <3> QED
          BY <3>1, <3>3, LinkAssumption
    <2> QED
        BY <2>1, <2>2
  <1>3. auth[tab] \in Sessions \cup {None}
        BY DEF IInv, Types
  <1>4. PagesOK'
        BY <1>1, <1>2, <1>3, OneTabRouted DEF PageInv
  <1> QED
      BY <1>1, <1>4, SameCallsOK DEF PageInv

LEMMA AskPages ==
    ASSUME IInv, PageInv, NEW tab \in Tabs, NEW call \in CallsIn(tab), Ask(tab, call)
    PROVE  PageInv'
  <1> DEFINE token == IF stored # None THEN stored ELSE auth[tab]
             new == [tab |-> tab, page |-> page[tab], call |-> call, asker |-> auth[tab],
                     token |-> token, tries |-> 1, waits |-> FALSE]
  <1>1. calls' = calls \cup {new} /\ UNCHANGED <<changes, auth, page>>
        BY DEF Ask
  <1>2. page[tab] \notin Door /\ call \in CallsOn(page[tab], auth[tab].rights)
        BY DEF CallsIn
  <1>3. auth[tab] \in Sessions /\ token \in Sessions
        BY <1>2 DEF IInv, Types, Inside
  <1>4. page[tab] \in Pages /\ Where(auth[tab], page[tab]) = page[tab]
        BY <1>2 DEF PageInv, PagesOK, OnlyAdmitted
  <1>5. call \in Calls
    <2>1. PICK o \in CallOffersOn(page[tab]) : o.to = call
          BY <1>2, CallsAreOffers
    <2> QED
        BY <1>2, <1>4, <2>1, CallAssumption
  <1> HIDE DEF token
  <1>6. CallOK(new)
        BY <1>2, <1>3, <1>4, <1>5 DEF CallOK
  <1> HIDE DEF new
  <1> QED
      BY <1>1, <1>6 DEF PageInv, PagesOK, OnlyAdmitted

LEMMA LoginOkPages ==
    ASSUME IInv, PageInv, NEW tab \in Tabs, NEW login \in logging[tab], LoginOk(tab, login)
    PROVE  PageInv'
  <1> DEFINE session == [user |-> login.user, rights |-> server[login.user]]
  <1>1. /\ server[login.user] # None
        /\ auth' = [auth EXCEPT ![tab] = session]
        /\ page' = [page EXCEPT ![tab] = HomePath]
        /\ UNCHANGED <<changes, calls>>
        BY DEF LoginOk
  <1>2. session \in Sessions
        BY <1>1 DEF IInv, Types, Sessions, Logins
  <1> HIDE DEF session
  <1>3. session # None /\ session.rights \in RightsAbout
        BY <1>2, SessionIsSomething DEF Sessions
  <1>4. HomePath \in Pages /\ HomePath \in Places /\ Lands(HomePath, session.rights) = HomePath
        BY LandsFacts, RouteAssumption DEF Pages, Places, Addresses, Guarded
  <1>5. Where(session, HomePath) = HomePath
        BY <1>3, <1>4 DEF Where, Landing
  <1>6. auth'[tab] = session /\ \A t \in Tabs \ {tab} : auth'[t] = auth[t]
        BY <1>1 DEF IInv, Types
  <1>7. PagesOK'
        BY <1>1, <1>4, <1>5, <1>6, OneTabMoves DEF PageInv
  <1> QED
      BY <1>1, <1>7 DEF PageInv

LEMMA LoginFailsPages ==
    ASSUME IInv, PageInv, NEW tab \in Tabs, NEW login \in logging[tab], LoginFails(tab, login)
    PROVE  PageInv'
  <1> DEFINE p == Where(None, page[tab])
  <1>1. /\ auth' = [auth EXCEPT ![tab] = None]
        /\ page' = [page EXCEPT ![tab] = p]
        /\ UNCHANGED <<changes, calls>>
        BY DEF LoginFails
  <1>2. p \in Pages /\ p \in Door
        BY SignedOutIsOutside DEF Pages, Door
  <1>3. \A t \in Tabs \ {tab} : auth'[t] = auth[t]
        BY <1>1 DEF IInv, Types
  <1> HIDE DEF p
  <1>4. PagesOK'
        BY <1>1, <1>2, <1>3, OneTabMoves DEF PageInv
  <1> QED
      BY <1>1, <1>4 DEF PageInv

LEMMA LogoutPages ==
    ASSUME IInv, PageInv, NEW tab \in Tabs, Logout(tab)
    PROVE  PageInv'
  <1>1. /\ auth' = [auth EXCEPT ![tab] = None]
        /\ page' = [page EXCEPT ![tab] = LoginPage]
        /\ UNCHANGED <<changes, calls>>
        BY DEF Logout
  <1>2. \A t \in Tabs \ {tab} : auth'[t] = auth[t]
        BY <1>1 DEF IInv, Types
  <1>3. PagesOK'
        BY <1>1, <1>2, DoorPages, OneTabMoves DEF PageInv
  <1> QED
      BY <1>1, <1>3 DEF PageInv

\* A call that waits for the refresh, and one that is sent again.
LEMMA SameFields ==
    ASSUME NEW T, NEW P, NEW C, NEW S, NEW N, NEW B,
           NEW session \in S, NEW n \in N, NEW yes \in B, NEW no \in B,
           NEW c \in [tab : T, page : P, call : C, asker : S, token : S,
                      tries : N, waits : B],
           NEW d, NEW e,
           d = [c EXCEPT !.tries = n, !.waits = yes],
           e = [c EXCEPT !.token = session, !.waits = no]
    PROVE  \A r \in {d, e} :
             /\ r \in [tab : T, page : P, call : C, asker : S, token : S, tries : N, waits : B]
             /\ r.page = c.page /\ r.asker = c.asker /\ r.call = c.call
  <1>1. /\ d \in [tab : T, page : P, call : C, asker : S, token : S, tries : N, waits : B]
        /\ d.page = c.page /\ d.asker = c.asker /\ d.call = c.call
        OBVIOUS
  <1>2. /\ e \in [tab : T, page : P, call : C, asker : S, token : S, tries : N, waits : B]
        /\ e.page = c.page /\ e.asker = c.asker /\ e.call = c.call
        OBVIOUS
  <1> QED
      BY <1>1, <1>2

LEMMA SameCall ==
    ASSUME NEW c, CallOK(c), NEW session \in Sessions
    PROVE  CallOK(Retried(c)) /\ CallOK([c EXCEPT !.token = session, !.waits = FALSE])
  <1> DEFINE T == [tab : Tabs, page : Pages, call : Calls, asker : Sessions, token : Sessions,
                   tries : 1..2, waits : BOOLEAN]
             d == [c EXCEPT !.tries = 2, !.waits = TRUE]
             e == [c EXCEPT !.token = session, !.waits = FALSE]
  <1>0. c \in T /\ 2 \in 1..2 /\ TRUE \in BOOLEAN /\ FALSE \in BOOLEAN
        BY DEF CallOK
  <1>1. /\ d \in T /\ d.page = c.page /\ d.asker = c.asker /\ d.call = c.call
        /\ e \in T /\ e.page = c.page /\ e.asker = c.asker /\ e.call = c.call
        BY <1>0, SameFields
  <1>2. Retried(c) = d
        BY DEF Retried
  <1> HIDE DEF d, e
  <1>3. CallOK(d) /\ CallOK(e)
        BY <1>1 DEF CallOK
  <1> QED
      BY <1>2, <1>3 DEF e

LEMMA ExpiresPages ==
    ASSUME IInv, PageInv, NEW call \in calls, Expires(call)
    PROVE  PageInv'
  <1>1. call.tab \in Tabs /\ CallOK(call) /\ call.asker \in Sessions /\ changes' = changes
        BY DEF PageInv, CallOK, Expires
  <1>2. CASE calls' = (calls \ {call}) \cup {Retried(call)} /\ UNCHANGED <<auth, page>>
    <2>1. CallOK(Retried(call))
          BY <1>1, SameCall
    <2> QED
        BY <1>1, <1>2, <2>1 DEF PageInv, PagesOK, OnlyAdmitted
  <1>3. CASE EndSession(call.tab, {call})
        BY <1>1, <1>3, EndSessionPages
  <1> QED
      BY <1>2, <1>3 DEF Expires

LEMMA RefreshOkPages ==
    ASSUME IInv, PageInv, NEW tab \in Tabs, RefreshOk(tab)
    PROVE  PageInv'
  <1> DEFINE session == [user |-> refreshing[tab], rights |-> server[refreshing[tab]]]
  <1>1. /\ refreshing[tab] # None /\ server[refreshing[tab]] # None
        /\ auth' = [auth EXCEPT ![tab] = session]
        /\ page' = [page EXCEPT ![tab] = Where(session, page[tab])]
        /\ calls' = (calls \ WaitingIn(tab)) \cup Resent(tab, session)
        /\ changes' = changes
        BY DEF RefreshOk, Rerouted
  <1>2. session \in Sessions
        BY <1>1 DEF IInv, Types, Sessions
  <1> HIDE DEF session
  <1>3. auth'[tab] = session /\ \A t \in Tabs \ {tab} : auth'[t] = auth[t]
        BY <1>1 DEF IInv, Types
  <1>4. page[tab] \in Places
        BY DEF PageInv, PagesOK, Places, Addresses, Pages
  <1>5. PagesOK'
        BY <1>1, <1>2, <1>3, <1>4, OneTabRouted DEF PageInv
  <1>6. \A c \in Resent(tab, session) : CallOK(c)
        BY <1>2, SameCall DEF Resent, WaitingIn, PageInv
  <1> QED
      BY <1>1, <1>5, <1>6 DEF PageInv

LEMMA StillPages ==
    ASSUME PageInv, UNCHANGED <<auth, page>>, changes' \in Nat, calls' \subseteq calls
    PROVE  PageInv'
  BY DEF PageInv, PagesOK, OnlyAdmitted

LEMMA NextPageInv ==
    ASSUME IInv, PageInv, [Next]_vars
    PROVE  PageInv'
  <1>1. /\ world.tabs \subseteq Tabs /\ world.addresses \subseteq Places
        /\ stored \in Sessions \cup {None} /\ changes \in Nat
        /\ \A c \in calls : c.tab \in Tabs
        BY WorldAssumption DEF IInv, Types, CallTypes, PageInv, Places
  <1>2. ASSUME NEW tab \in Tabs, Runs(tab)
        PROVE  PageInv'
    <2>1. CASE LoginEnds(tab)
          BY <2>1, LoginOkPages, LoginFailsPages DEF LoginEnds
    <2>2. CASE RefreshOk(tab)
          BY <2>2, RefreshOkPages
    <2>3. CASE RefreshFails(tab)
          BY <2>3, EndSessionPages DEF RefreshFails
    <2>4. CASE Answer(tab)
      <3>1. PICK c \in calls : Succeeds(c) \/ Fails(c) \/ Expires(c) \/ ExpiresAgain(c)
            BY <2>4 DEF Answer, CallsOf
      <3>2. CASE Succeeds(c) \/ Fails(c) \/ ExpiresAgain(c)
            BY <1>1, <3>2, StillPages DEF Succeeds, Fails, ExpiresAgain
      <3> QED
          BY <3>1, <3>2, ExpiresPages
    <2>5. CASE Tick(tab)
      <3>1. changes' = changes
            BY <2>5 DEF Tick
      <3>2. CASE UNCHANGED <<auth, page, calls>>
            BY <1>1, <3>1, <3>2, StillPages
      <3>3. CASE EndSession(tab, {})
            BY <3>1, <3>3, EndSessionPages
      <3> QED
          BY <2>5, <3>2, <3>3 DEF Tick
    <2> QED
        BY <1>2, <2>1, <2>2, <2>3, <2>4, <2>5 DEF Runs, RefreshEnds
  <1>3. ASSUME NEW tab \in Tabs, Acts(tab)
        PROVE  PageInv'
    <2>1. ASSUME NEW address \in world.addresses, Open(tab, address)
          PROVE  PageInv'
          BY <1>1, <2>1, LoadedPages DEF Open
    <2>2. CASE \E link \in OfferedIn(tab) : Follow(tab, link)
          BY <2>2, FollowPages
    <2>3. CASE \E user \in world.users : Login(tab, user)
          BY <1>1, <2>3, StillPages DEF Login
    <2>4. CASE Logout(tab)
          BY <2>4, LogoutPages
    <2>5. CASE \E call \in CallsIn(tab) \cap world.calls : Ask(tab, call)
          BY <2>5, AskPages
    <2> QED
        BY <1>3, <2>1, <2>2, <2>3, <2>4, <2>5 DEF Acts
  <1>4. CASE \E user \in world.users, rights \in world.alternatives : ChangeRights(user, rights)
    <2>1. changes' = changes + 1 /\ UNCHANGED <<auth, page, calls>>
          BY <1>4 DEF ChangeRights
    <2>2. changes' \in Nat
          BY <1>1, <2>1
    <2> QED
        BY <2>1, <2>2, StillPages
  <1>5. CASE UNCHANGED vars
        BY <1>1, <1>5, StillPages DEF vars
  <1> QED
      BY <1>1, <1>2, <1>3, <1>4, <1>5 DEF Next

LEMMA SpecPageInv == Spec => []PageInv
  <1>1. Init => PageInv
        BY DoorPages DEF Init, PageInv, PagesOK, OnlyAdmitted
  <1>2. IInv /\ PageInv /\ [Next]_vars => PageInv'
        BY NextPageInv
  <1> QED
      BY <1>1, <1>2, SpecIInv, PTL DEF Spec

-----------------------------------------------------------------------------
(* Every variable of the session keeps its type: no tab shows anything but *)
(* a page of the route table (App.tsx), a hub's bare address included.     *)
THEOREM TypeCorrect == Spec => []TypeOK
  <1>1. IInv /\ PageInv => TypeOK
        BY DEF IInv, Types, PageInv, PagesOK, CallOK, TypeOK
  <1> QED
      BY <1>1, SpecIInv, SpecPageInv, PTL

(* For any rights, and however they change under a tab, the tab shows no   *)
(* page that the rights it holds do not admit (require-permission.tsx).    *)
THEOREM PagesAreAdmitted == Spec => []OnlyAdmitted
  <1>1. PageInv => OnlyAdmitted
        BY DEF PageInv, PagesOK
  <1> QED
      BY <1>1, SpecPageInv, PTL

(* For any rights a link that is offered leads where it says, but for the  *)
(* dead ones: the three tables of permissions agree entry by entry, and a  *)
(* page is shown only to those it admits.                                  *)
THEOREM LinksLeadWhereTheySay == Spec => []LinksLand
  <1>1. ASSUME IInv, PageInv
        PROVE  LinksLand
    <2> SUFFICES ASSUME NEW tab \in world.tabs, page[tab] \notin Door,
                        NEW link \in OfferedIn(tab), <<page[tab], link>> \notin DeadLinks
                 PROVE  Where(auth[tab], link) \in Destinations(link)
        BY DEF LinksLand
    <2> DEFINE p == page[tab]
               rights == auth[tab].rights
    <2>1. tab \in Tabs
          BY <1>1, WorldAssumption DEF IInv, Types
    <2>2. /\ p \in Pages \ Door /\ auth[tab] \in Sessions /\ auth[tab] # None
          /\ Where(auth[tab], p) = p /\ link \in LinksOn(p, rights)
          BY <1>1, <2>1 DEF IInv, Types, Inside, PageInv, PagesOK, OnlyAdmitted, OfferedIn
    <2>3. rights \in RightsAbout /\ \A a \in Places : Where(auth[tab], a) = Lands(a, rights)
          BY <2>2 DEF Sessions, Where, Landing
    <2>4. p \in Places
          BY <2>2 DEF Places, Addresses, Pages
    <2> HIDE DEF p, rights
    <2>5. Admits(NeedsOf(p), rights)
          BY <2>2, <2>3, <2>4, ShownIsAdmitted
    <2>6. PICK o \in OffersOn(p) : o.to = link /\ Admits(o.needs, rights)
          BY <2>2, LinksAreOffers
    <2>7. /\ link \in Places /\ link \in (Pages \cup Hubs) \ (Door \cup {NotFound})
          /\ Suffices(o.needs, NeedsOf(link)) \/ Suffices(NeedsOf(p), NeedsOf(link))
          BY <2>2, <2>6, LinkAssumption DEF p
    <2>8. Admits(NeedsOf(link), rights)
          BY <2>5, <2>6, <2>7, SufficesFact
    <2> QED
        BY <2>3, <2>7, <2>8, AdmittedIsShown
  <1> QED
      BY <1>1, SpecIInv, SpecPageInv, PTL

(* For any rights a call that a page makes for them is one the back end    *)
(* allows for them, but for the half open ones, also when the call is sent *)
(* again after a refresh.                                                  *)
THEOREM CallsAreWelcome == Spec => []Welcomed
  <1>1. ASSUME PageInv
        PROVE  Welcomed
    <2> SUFFICES ASSUME NEW c \in calls, c.token.rights = c.asker.rights,
                        <<c.page, c.call>> \notin HalfOpen
                 PROVE  Accepts(c.call, c.token.rights)
        BY DEF Welcomed
    <2> DEFINE rights == c.asker.rights
    <2>1. /\ c.page \in Pages \ Door /\ c.asker \in Sessions
          /\ Where(c.asker, c.page) = c.page /\ c.call \in CallsOn(c.page, rights)
          BY <1>1 DEF PageInv, CallOK
    <2>2. c.asker # None /\ rights \in RightsAbout
          BY <2>1, SessionIsSomething DEF Sessions
    <2>3. Lands(c.page, rights) = c.page
          BY <2>1, <2>2 DEF Where, Landing, Places, Addresses, Pages
    <2> HIDE DEF rights
    <2>4. Admits(NeedsOf(c.page), rights)
          BY <2>1, <2>3, ShownIsAdmitted
    <2>5. PICK o \in CallOffersOn(c.page) : o.to = c.call /\ Admits(o.needs, rights)
          BY <2>1, CallsAreOffers
    <2>6. Suffices(o.needs, GateNeeds[c.call]) \/ Suffices(NeedsOf(c.page), GateNeeds[c.call])
          BY <2>1, <2>5, CallAssumption
    <2> QED
        BY <2>4, <2>5, <2>6, SufficesFact DEF Accepts, rights
  <1> QED
      BY <1>1, SpecPageInv, PTL
-----------------------------------------------------------------------------
(* The calls that wait for a refresh.                                      *)

\* A call that goes on, or waits, on its own: the refresh of its tab is left alone.
LEMMA StillWoken ==
    ASSUME WaitersAreWoken, calls' \subseteq calls, UNCHANGED refreshing
    PROVE  WaitersAreWoken'
  BY DEF WaitersAreWoken

\* A tab that is loaded has no calls left.
LEMMA LoadedWoken ==
    ASSUME IInv, WaitersAreWoken, NEW tab \in Tabs, NEW session, NEW address,
           Loaded(tab, session, address)
    PROVE  WaitersAreWoken'
  BY DEF WaitersAreWoken, IInv, Types, CallTypes, Loaded, CallsOf

\* A session that ends on the login page gives up the calls that waited.
LEMMA EndSessionWoken ==
    ASSUME IInv, WaitersAreWoken, NEW tab \in Tabs, NEW rejected, EndSession(tab, rejected),
           refreshing[tab] = None \/ WaitingIn(tab) \subseteq rejected
    PROVE  WaitersAreWoken'
  <1>1. CASE Loaded(tab, None, LoginPage)
        BY <1>1, LoadedWoken
  <1>2. CASE /\ refreshing' = [refreshing EXCEPT ![tab] = None]
             /\ calls' = calls \ rejected
    <2>1. \A c \in calls' : c \in calls /\ c.tab \in Tabs /\ (c.tab = tab => ~c.waits)
          BY <1>2 DEF WaitersAreWoken, WaitingIn, IInv, CallTypes
    <2> QED
        BY <1>2, <2>1 DEF WaitersAreWoken, IInv, Types
  <1> QED
      BY <1>1, <1>2 DEF EndSession

\* A new call waits for nothing.
LEMMA AskWoken ==
    ASSUME WaitersAreWoken, NEW tab \in Tabs, NEW call, Ask(tab, call)
    PROVE  WaitersAreWoken'
  <1> DEFINE token == IF stored # None THEN stored ELSE auth[tab]
             new == [tab |-> tab, page |-> page[tab], call |-> call, asker |-> auth[tab],
                     token |-> token, tries |-> 1, waits |-> FALSE]
  <1>1. calls' = calls \cup {new} /\ UNCHANGED refreshing
        BY DEF Ask
  <1>2. ~new.waits
        OBVIOUS
  <1> HIDE DEF new
  <1> QED
      BY <1>1, <1>2 DEF WaitersAreWoken

\* A call that expires waits for the refresh that is under way, or starts one.
LEMMA ExpiresWoken ==
    ASSUME IInv, WaitersAreWoken, NEW call \in calls, Expires(call)
    PROVE  WaitersAreWoken'
  <1>1. call.tab \in Tabs /\ DOMAIN call = CallFields
        BY DEF IInv, CallTypes
  <1>2. CASE /\ refreshing[call.tab] # None \/ stored # None
             /\ refreshing' = [refreshing EXCEPT
                    ![call.tab] = IF @ # None THEN @ ELSE stored.user]
             /\ calls' = (calls \ {call}) \cup {Retried(call)}
    <2>1. stored # None => stored.user # None
          BY SessionIsSomething, NoneAssumption DEF IInv, Types
    <2>2. \A t \in Tabs : refreshing[t] # None \/ t = call.tab => refreshing'[t] # None
          BY <1>1, <1>2, <2>1 DEF IInv, Types
    <2>3. Retried(call).tab = call.tab /\ Retried(call).tries = 2
          BY <1>1 DEF Retried, CallFields
    <2> QED
        BY <1>1, <1>2, <2>2, <2>3 DEF WaitersAreWoken, IInv, CallTypes
  <1>3. CASE refreshing[call.tab] = None /\ EndSession(call.tab, {call})
        BY <1>1, <1>3, EndSessionWoken
  <1> QED
      BY <1>2, <1>3 DEF Expires

\* A refresh that succeeds sends all that waited for it again.
LEMMA RefreshOkWoken ==
    ASSUME IInv, WaitersAreWoken, NEW tab \in Tabs, RefreshOk(tab)
    PROVE  WaitersAreWoken'
  <1>1. PICK session : calls' = (calls \ WaitingIn(tab)) \cup Resent(tab, session)
        BY DEF RefreshOk
  <1>2. refreshing' = [refreshing EXCEPT ![tab] = None]
        BY DEF RefreshOk
  <1>3. \A c \in Resent(tab, session) : c.waits = FALSE
    <2>1. \A d \in calls : [d EXCEPT !.token = session, !.waits = FALSE].waits = FALSE
          BY DEF IInv, CallTypes, CallFields
    <2> QED
        BY <2>1 DEF Resent, WaitingIn
  <1>4. \A c \in calls \ WaitingIn(tab) : c.tab \in Tabs /\ (c.tab = tab => ~c.waits)
        BY DEF WaitingIn, IInv, CallTypes
  <1> QED
      BY <1>1, <1>2, <1>3, <1>4 DEF WaitersAreWoken, IInv, Types

LEMMA NextWoken ==
    ASSUME IInv, WaitersAreWoken, [Next]_vars
    PROVE  WaitersAreWoken'
  <1>1. world.tabs \subseteq Tabs
        BY WorldAssumption DEF IInv, Types
  <1>2. ASSUME NEW tab \in Tabs, Runs(tab)
        PROVE  WaitersAreWoken'
    <2>1. CASE LoginEnds(tab)
          BY <2>1, StillWoken DEF LoginEnds, LoginOk, LoginFails
    <2>2. CASE RefreshEnds(tab)
          BY <2>2, RefreshOkWoken, EndSessionWoken DEF RefreshEnds, RefreshFails
    <2>3. CASE Answer(tab)
      <3>1. PICK c \in calls : Succeeds(c) \/ Fails(c) \/ Expires(c) \/ ExpiresAgain(c)
            BY <2>3 DEF Answer, CallsOf
      <3>2. CASE Succeeds(c) \/ Fails(c) \/ ExpiresAgain(c)
            BY <3>2, StillWoken DEF Succeeds, Fails, ExpiresAgain
      <3> QED
          BY <3>1, <3>2, ExpiresWoken
    <2>4. CASE Tick(tab)
      <3>1. CASE stored # None
        <4>1. /\ refreshing' = [refreshing EXCEPT ![tab] = stored.user] /\ refreshing[tab] = None
              /\ calls' = calls
              BY <2>4, <3>1 DEF Tick
        <4>2. stored.user # None
              BY <3>1, SessionIsSomething, NoneAssumption DEF IInv, Types
        <4> QED
            BY <4>1, <4>2 DEF WaitersAreWoken, IInv, Types, CallTypes
      <3>2. CASE EndSession(tab, {}) /\ refreshing[tab] = None
            BY <3>2, EndSessionWoken
      <3> QED
          BY <2>4, <3>1, <3>2 DEF Tick
    <2> QED
        BY <1>2, <2>1, <2>2, <2>3, <2>4 DEF Runs
  <1>3. ASSUME NEW tab \in Tabs, Acts(tab)
        PROVE  WaitersAreWoken'
    <2>1. CASE \E address \in world.addresses : Open(tab, address)
          BY <2>1, LoadedWoken DEF Open
    <2>2. CASE \/ \E link \in OfferedIn(tab) : Follow(tab, link)
               \/ \E user \in world.users : Login(tab, user)
               \/ Logout(tab)
          BY <2>2, StillWoken DEF Follow, Login, Logout
    <2>3. CASE \E call \in CallsIn(tab) \cap world.calls : Ask(tab, call)
          BY <2>3, AskWoken
    <2> QED
        BY <1>3, <2>1, <2>2, <2>3 DEF Acts
  <1>4. CASE \E user \in world.users, rights \in world.alternatives : ChangeRights(user, rights)
        BY <1>4, StillWoken DEF ChangeRights
  <1>5. CASE UNCHANGED vars
        BY <1>5, StillWoken DEF vars
  <1> QED
      BY <1>1, <1>2, <1>3, <1>4, <1>5 DEF Next

(* However calls, refreshes, timers and sign-outs of a tab interleave, a   *)
(* call in the queue of the response interceptor (api.ts) has a refresh    *)
(* under way that takes it out, and is not queued a second time.           *)
THEOREM NobodyWaitsForNothing == Spec => []WaitersAreWoken
  <1>1. Init => WaitersAreWoken
        BY DEF Init, WaitersAreWoken
  <1>2. IInv /\ WaitersAreWoken /\ [Next]_vars => WaitersAreWoken'
        BY NextWoken
  <1> QED
      BY <1>1, <1>2, SpecIInv, PTL DEF Spec
=============================================================================
