------------------------------ MODULE SSHClient ------------------------------
(***************************************************************************)
(* The shared SSH connection of a switch collector (sshswitch.Client).     *)
(* Every Tail and every Follow opens a session on the one cached           *)
(* connection, and any of them that fails closes whatever connection is    *)
(* cached at that moment, with all the sessions on it.                     *)
(***************************************************************************)
CONSTANT Users      \* the goroutines that use the connection

VARIABLES
    client,     \* the cached connection: "none", "up" or "broken"
    session     \* each user's session: "none", "alive" or "dead"

sshVars == <<client, session>>

Clients == {"none", "up", "broken"}
Sessions == {"none", "alive", "dead"}

SSHTypeOK == client \in Clients /\ session \in [Users -> Sessions]

SSHInit == client = "none" /\ session = [u \in Users |-> "none"]

Killed == [u \in Users |-> IF session[u] = "alive" THEN "dead" ELSE session[u]]

\* Mutant: reset closes the connection and keeps it cached.
Reset_Kept(u) ==
    /\ client' = IF client = "none" THEN "none" ELSE "broken"
    /\ session' = [Killed EXCEPT ![u] = "none"]

\* u fails: its own session is closed and the cached connection with it.
Reset(u) ==
    /\ client' = "none"
    /\ session' = [Killed EXCEPT ![u] = "none"]

\* dial, then NewSession on the connection dialled now or before.
Open(u) ==
    /\ client # "broken"
    /\ client' = "up"
    /\ session' = [session EXCEPT ![u] = "alive"]

\* A dial that fails leaves nothing to reset; a session that fails resets.
\* Only the refusal of a broken connection comes without a new fault.
NoDial == client = "none" /\ UNCHANGED sshVars
NoSession(u) == client # "none" /\ Reset(u)

CloseSession(u) == session' = [session EXCEPT ![u] = "none"] /\ UNCHANGED client

\* The network or the switch drops the connection.
Break ==
    /\ client = "up"
    /\ client' = "broken"
    /\ session' = Killed
=============================================================================
