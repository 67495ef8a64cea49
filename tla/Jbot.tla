-------------------------------- MODULE Jbot --------------------------------
(***************************************************************************)
(* How a node finds out which of its friends' XMPP sessions are greynet    *)
(* nodes: jbot.cpp, handleRosterPresence and the disco callbacks.  Each    *)
(* newly found session is reported once to greynet::jabber_new_peer, which *)
(* is where module Handshake starts.                                       *)
(*                                                                         *)
(* gloox calls every handler on the jbot's thread.  The stanzas of one     *)
(* session reach us in the order in which it caused them (XMPP keeps the   *)
(* order between two parties).  A change of presence that is not a login   *)
(* or a logout stands for Away, Chat and the like; Error and Invalid are   *)
(* handled as a logout is.                                                 *)
(***************************************************************************)
EXTENDS Naturals, Sequences

CONSTANTS
    Peer,        \* full jids of the sessions of our friends
    Playdar,     \* those that have the disco feature playdar:resolver
    Google,      \* those whose resource contains "playdar"
    MaxLogins,   \* bound: logins of a session
    MaxChanges   \* bound: changes of status of a session

ASSUME ConstAssumption ==
    /\ Playdar \subseteq Peer /\ Google \subseteq Peer
    /\ MaxLogins \in Nat /\ MaxChanges \in Nat

VARIABLES
    online,          \* sessions that are logged in
    stream,          \* stanzas caused by a session, not yet handled by us
    asked,           \* our disco requests a session has not yet answered
    m_playdarpeers,
    reported,        \* calls of m_new_peer_cb for a session
    logins,          \* logins of a session so far
    changes          \* changes of status of a session so far

peerVars == <<online, logins, changes>>
vars == <<online, stream, asked, m_playdarpeers, reported, logins, changes>>

Stanza == {"available", "unavailable", "feature", "nofeature", "error"}

\* The jid of p without its resource.
BareJid(p) == <<"bare", p>>

\* A session has a resource.
ASSUME BareJidAssumption == \A p \in Peer : BareJid(p) \notin Peer

Received(p, stanza) == stream' = [stream EXCEPT ![p] = Append(@, stanza)]
Handled(p) == stream' = [stream EXCEPT ![p] = Tail(@)]

-----------------------------------------------------------------------------
\* Our own login makes the server tell us who is online.
Init ==
    /\ online \in SUBSET Peer
    /\ stream = [p \in Peer |-> IF p \in online THEN <<"available">> ELSE <<>>]
    /\ asked = [p \in Peer |-> 0]
    /\ m_playdarpeers = {}
    /\ reported = [p \in Peer |-> 0]
    /\ logins = [p \in Peer |-> IF p \in online THEN 1 ELSE 0]
    /\ changes = [p \in Peer |-> 0]

-----------------------------------------------------------------------------
(* The sessions of our friends.                                            *)

Login(p) ==
    /\ p \notin online
    /\ logins[p] < MaxLogins
    /\ online' = online \cup {p}
    /\ logins' = [logins EXCEPT ![p] = @ + 1]
    /\ Received(p, "available")
    /\ UNCHANGED <<asked, m_playdarpeers, reported, changes>>

Logout(p) ==
    /\ p \in online
    /\ online' = online \ {p}
    /\ Received(p, "unavailable")
    /\ UNCHANGED <<asked, m_playdarpeers, reported, logins, changes>>

ChangeStatus(p) ==
    /\ p \in online
    /\ changes[p] < MaxChanges
    /\ changes' = [changes EXCEPT ![p] = @ + 1]
    /\ Received(p, "available")
    /\ UNCHANGED <<online, asked, m_playdarpeers, reported, logins>>

\* A disco request reaches the session, or the server on its behalf.
AnswerDisco(p) ==
    /\ asked[p] > 0
    /\ asked' = [asked EXCEPT ![p] = @ - 1]
    /\ Received(p, IF p \notin online THEN "error"
                   ELSE IF p \in Playdar THEN "feature" ELSE "nofeature")
    /\ UNCHANGED <<peerVars, m_playdarpeers, reported>>

-----------------------------------------------------------------------------
(* The handlers of jbot.                                                   *)

AlreadyListed_Never(p) == FALSE

AlreadyListed(p) == p \in m_playdarpeers

AddPeer_BareJid(p) ==
    /\ m_playdarpeers' = m_playdarpeers \cup {BareJid(p)}
    /\ reported' = IF AlreadyListed(p) THEN reported
                   ELSE [reported EXCEPT ![p] = @ + 1]

\* Listed, and reported to greynet, unless it is in the list.
AddPeer(p) ==
    /\ m_playdarpeers' = m_playdarpeers \cup {p}
    /\ reported' = IF AlreadyListed(p) THEN reported
                   ELSE [reported EXCEPT ![p] = @ + 1]

Unlisted_Keeps(p) == m_playdarpeers

Unlisted(p) == m_playdarpeers \ {p}

PresenceOffline(p) ==
    /\ stream[p] # <<>> /\ Head(stream[p]) = "unavailable"
    /\ Handled(p)
    /\ m_playdarpeers' = Unlisted(p)
    /\ UNCHANGED <<peerVars, asked, reported>>

\* "already online and in our list": but item.jid() is the bare jid.
BareJidListed(p) == BareJid(p) \in m_playdarpeers

AsksDisco_GoogleOnly(p) == p \in Google

\* Whatever the resource is called, the session is asked for its features.
AsksDisco(p) == TRUE

PresenceOnline(p) ==
    /\ stream[p] # <<>> /\ Head(stream[p]) = "available"
    /\ Handled(p)
    /\ \/ p \in Google /\ ~BareJidListed(p) /\ AddPeer(p)
       \/ ~(p \in Google /\ ~BareJidListed(p)) /\ UNCHANGED <<m_playdarpeers, reported>>
    /\ asked' = IF BareJidListed(p) \/ ~AsksDisco(p) THEN asked
                ELSE [asked EXCEPT ![p] = @ + 1]
    /\ UNCHANGED peerVars

handleDiscoInfo(p) ==
    /\ stream[p] # <<>> /\ Head(stream[p]) \in {"feature", "nofeature"}
    /\ Handled(p)
    /\ \/ Head(stream[p]) = "feature" /\ AddPeer(p)
       \/ Head(stream[p]) = "nofeature" /\ UNCHANGED <<m_playdarpeers, reported>>
    /\ UNCHANGED <<peerVars, asked>>

handleDiscoError(p) ==
    /\ stream[p] # <<>> /\ Head(stream[p]) = "error"
    /\ Handled(p)
    /\ UNCHANGED <<peerVars, asked, m_playdarpeers, reported>>

-----------------------------------------------------------------------------
Handler(p) ==
    PresenceOffline(p) \/ PresenceOnline(p) \/ handleDiscoInfo(p) \/ handleDiscoError(p)

Next == \E p \in Peer :
    Login(p) \/ Logout(p) \/ ChangeStatus(p) \/ AnswerDisco(p) \/ Handler(p)

Spec == Init /\ [][Next]_vars

\* The jbot's thread handles what arrives, and requests are answered.
FairSpec == Spec /\ \A p \in Peer : WF_vars(Handler(p)) /\ WF_vars(AnswerDisco(p))

-----------------------------------------------------------------------------
(* Properties.                                                             *)

\* Every variable keeps its type.
TypeOK ==
    /\ online \subseteq Peer
    /\ stream \in [Peer -> Seq(Stanza)]
    /\ asked \in [Peer -> Nat]
    /\ m_playdarpeers \subseteq Peer
    /\ reported \in [Peer -> Nat]
    /\ logins \in [Peer -> Nat]
    /\ changes \in [Peer -> Nat]

\* m_playdarpeers is "who is online with playdar capabilities": when
\* nothing is under way it is exactly that, whatever logins, logouts and
\* disco answers overlapped before.
ListIsCurrent ==
    \A p \in Peer : (stream[p] = <<>> /\ asked[p] = 0) =>
        (p \in m_playdarpeers <=> p \in online /\ p \in Playdar \cup Google)

\* A session is reported at most once each time it logs in, though its
\* presence, its resource name and several disco answers can all show that
\* it is a greynet node: each report makes another advertisement.
ReportedOncePerLogin == \A p \in Peer : reported[p] <= logins[p]

\* A session that can do playdar and stays online gets into the list.
CapablePeersListed ==
    \A p \in Playdar \cup Google :
        p \in online ~> (p \notin online \/ p \in m_playdarpeers)

=============================================================================
