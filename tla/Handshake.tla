------------------------------ MODULE Handshake ------------------------------
(***************************************************************************)
(* How two greynet nodes become neighbours: a node with a public address   *)
(* advertises it over XMPP with a cookie, the other one connects, and both *)
(* ends exchange IDENT messages before the connection carries anything     *)
(* else.  greynet.cpp: jabber_new_peer, jabber_msg_received, the connection *)
(* callbacks, expect_ident, send_ident and the watchdog.                   *)
(*                                                                         *)
(* A connection has two ends, <<c, "out">> at the node that dialled and     *)
(* <<c, "in">> at the one that accepted; each node handles its ends on one *)
(* io_service thread, and the two XMPP callbacks on the thread of its jbot. *)
(* XMPP delivers an advertisement at most once, TCP delivers in order.     *)
(***************************************************************************)
EXTENDS Naturals, Sequences

CONSTANTS
    Node,         \* greynet nodes; a node is also its jid and its name
    Public,       \* nodes that know a public ip of theirs
    Friends,      \* [Node -> SUBSET Node]: the roster
    Conn,         \* bound: the connections ever made
    Cookie,       \* bound: the cookies ever drawn
    MaxReports,   \* bound: reports of a peer that was reported before
    MaxManual,    \* bound: connections made from the settings page
    MaxBreaks,    \* bound: connections that fail
    MaxRestarts,  \* bound: restarts of a node
    MaxPings,     \* bound: uses of "pingall"
    Prompt,       \* the exchange always ends within the two seconds
    None          \* no jid, no cookie, no name

ASSUME ConstAssumption ==
    /\ Public \subseteq Node
    /\ Friends \in [Node -> SUBSET Node]
    /\ {MaxReports, MaxManual, MaxBreaks, MaxRestarts, MaxPings} \subseteq Nat
    /\ Prompt \in BOOLEAN
    /\ None \notin Node /\ None \notin Cookie
    /\ None \notin [from : Node, to : Node, cookie : Cookie \cup {None}]

VARIABLES
    reports,        \* <<n, p>>: the jbot of n is about to report p
    m_peer_cookies, \* cookie -> jid, None where there is no entry
    drawn,          \* cookies that gen_uuid has returned
    adverts,        \* advertisements XMPP has yet to deliver
    link,           \* who dialled whom with which cookie, or None
    state,          \* of an end: "none", "new", "expect", "ready", "closed"
    name,           \* Connection::name() of an end
    inbox,          \* written to an end, not yet read
    watch,          \* ends whose watchdog timer is running
    budget          \* what is left of each bound

xmppVars == <<reports, m_peer_cookies, drawn, adverts>>
endVars  == <<state, name, inbox>>
vars == <<reports, m_peer_cookies, drawn, adverts, link, state, name, inbox,
          watch, budget>>

-----------------------------------------------------------------------------
Side == {"out", "in"}
End == Conn \X Side

Link == [from : Node, to : Node, cookie : Cookie \cup {None}]
Advert == [from : Node, to : Node, cookie : Cookie]
Message == [type : {"IDENT", "PING", "PONG"}, name : Node \cup {None},
            cookie : Cookie \cup {None}]

IdentMessage(n, k) == [type |-> "IDENT", name |-> n, cookie |-> k]
PingMessage == [type |-> "PING", name |-> None, cookie |-> None]
PongMessage == [type |-> "PONG", name |-> None, cookie |-> None]

Fresh(S) == CHOOSE x \in S : TRUE
NewConns == {c \in Conn : link[c] = None}
Spend(what) == budget[what] > 0 /\ budget' = [budget EXCEPT ![what] = @ - 1]

Other(e) == <<e[1], IF e[2] = "out" THEN "in" ELSE "out">>
NodeOf(e) == IF e[2] = "out" THEN link[e[1]].from ELSE link[e[1]].to
EndsOf(n) == {e \in End : link[e[1]] # None /\ NodeOf(e) = n}
Live(e) == state[e] \notin {"none", "closed"}

\* Router::get_connection_by_name.
get_connection_by_name(n, p) ==
    {e \in EndsOf(n) : state[e] = "ready" /\ name[e] = p}

\* Messages written to an end that is closed already are lost.
Written(ib, e, m) ==
    IF Live(Other(e)) THEN [ib EXCEPT ![Other(e)] = Append(@, m)] ELSE ib

Popped(e) == [inbox EXCEPT ![e] = Tail(@)]

\* Connection::fin, or the loss of the connection, at the ends es.
Close(es) ==
    /\ state' = [e \in End |-> IF e \in es THEN "closed" ELSE state[e]]
    /\ name' = [e \in End |-> IF e \in es THEN None ELSE name[e]]
    /\ inbox' = [e \in End |-> IF e \in es THEN <<>> ELSE inbox[e]]

-----------------------------------------------------------------------------
Init ==
    /\ reports = {r \in Node \X Node : r[2] \in Friends[r[1]]}
    /\ m_peer_cookies = [n \in Node |-> [k \in Cookie |-> None]]
    /\ drawn = {}
    /\ adverts = {}
    /\ link = [c \in Conn |-> None]
    /\ state = [e \in End |-> "none"]
    /\ name = [e \in End |-> None]
    /\ inbox = [e \in End |-> <<>>]
    /\ watch = {}
    /\ budget = [reports |-> MaxReports, manual |-> MaxManual, breaks |-> MaxBreaks,
                 restarts |-> MaxRestarts, pings |-> MaxPings]

-----------------------------------------------------------------------------
(* XMPP.                                                                   *)

\* The XMPP session of p goes down and up again, as n sees it.
PeerReturns(n, p) ==
    /\ p \in Friends[n]
    /\ Spend("reports")
    /\ reports' = reports \cup {<<n, p>>}
    /\ UNCHANGED <<m_peer_cookies, drawn, adverts, link, endVars, watch>>

\* Nothing to say to ourselves, to a peer that is connected, or without a
\* public address.
Advertises(n, p) ==
    /\ p # n
    /\ n \in Public
    /\ get_connection_by_name(n, p) = {}

jabber_new_peer(n, p) ==
    /\ <<n, p>> \in reports
    /\ reports' = reports \ {<<n, p>>}
    /\ \/ /\ Advertises(n, p)
          /\ Cookie \ drawn # {}
          /\ LET k == Fresh(Cookie \ drawn) IN
             /\ drawn' = drawn \cup {k}
             /\ m_peer_cookies' = [m_peer_cookies EXCEPT ![n][k] = p]
             /\ adverts' = adverts \cup {[from |-> n, to |-> p, cookie |-> k]}
       \/ /\ ~Advertises(n, p)
          /\ UNCHANGED <<m_peer_cookies, drawn, adverts>>
    /\ UNCHANGED <<link, endVars, watch, budget>>

\* Router::connect_to_remote(ep, props).
connect_to_peer(n, p, cookie) ==
    /\ NewConns # {}
    /\ LET c == Fresh(NewConns) IN
       /\ link' = [link EXCEPT ![c] = [from |-> n, to |-> p, cookie |-> cookie]]
       /\ state' = [e \in End |-> IF e[1] = c THEN "new" ELSE state[e]]
    /\ UNCHANGED <<name, inbox, watch>>

\* An advertisement is answered whether or not the peer is connected.
jabber_msg_received(a) ==
    /\ a \in adverts
    /\ adverts' = adverts \ {a}
    /\ connect_to_peer(a.to, a.from, a.cookie)
    /\ UNCHANGED <<reports, m_peer_cookies, drawn, budget>>

\* anon_http_handler with an address: a connection without a cookie.
ManualConnect(n, p) ==
    /\ n # p /\ p \in Public
    /\ Spend("manual")
    /\ connect_to_peer(n, p, None)
    /\ UNCHANGED xmppVars

-----------------------------------------------------------------------------
(* The connection callbacks.                                               *)

StartsWatchdog_OutgoingOnly(e) == e[2] = "out"

\* new_connection_watchdog is called for both kinds of connection.
StartsWatchdog(e) == TRUE

send_ident_Swapped(ib, e) ==
    Written(ib, e, IdentMessage(IF e[2] = "out" THEN link[e[1]].cookie ELSE None,
                                NodeOf(e)))

\* The IDENT of the node at e, with the cookie property of the connection:
\* only the end that dialled has one.
send_ident(ib, e) ==
    Written(ib, e, IdentMessage(NodeOf(e),
                                IF e[2] = "out" THEN link[e[1]].cookie ELSE None))

new_connection(e) ==
    /\ state[e] = "new"
    /\ state' = [state EXCEPT ![e] = "expect"]
    /\ watch' = IF StartsWatchdog(e) THEN watch \cup {e} ELSE watch
    /\ UNCHANGED <<xmppVars, link, name, budget>>

new_incoming_connection_Greets(c) ==
    /\ new_connection(<<c, "in">>)
    /\ inbox' = send_ident(inbox, <<c, "in">>)

\* The accepting end waits for the IDENT of the other one.
new_incoming_connection(c) ==
    /\ new_connection(<<c, "in">>)
    /\ UNCHANGED inbox

new_outgoing_connection(c) ==
    /\ new_connection(<<c, "out">>)
    /\ inbox' = send_ident(inbox, <<c, "out">>)

\* Two seconds later.  When exchanges are prompt, an end that still waits
\* then has nothing under way that could make it ready.
new_connection_timeout(e) ==
    /\ e \in watch
    /\ Prompt /\ state[e] = "expect" =>
          \A f \in {e, Other(e)} : state[f] # "new" /\ inbox[f] = <<>>
    /\ watch' = watch \ {e}
    /\ \/ state[e] = "expect" /\ Close({e})
       \/ state[e] # "expect" /\ UNCHANGED endVars
    /\ UNCHANGED <<xmppVars, link, budget>>

AlreadyConnected_Never(e, p) == FALSE

\* A node keeps one connection per name.
AlreadyConnected(e, p) == get_connection_by_name(NodeOf(e), p) # {}

CookieVerified_NotEmpty(e, k) == k # None

\* A cookie this process has made; for whom it made it is not compared.
CookieVerified(e, k) == k # None /\ m_peer_cookies[NodeOf(e)][k] # None

IdentAccepted(e, m) ==
    /\ m.type = "IDENT"
    /\ ~AlreadyConnected(e, m.name)
    /\ e[2] = "in" => CookieVerified(e, m.cookie)

Answered_BothEnds(e, ib) == send_ident(ib, e)

Answered_Never(e, ib) == ib

\* The accepting end answers with its own IDENT, the other one does not.
Answered(e, ib) == IF e[2] = "in" THEN send_ident(ib, e) ELSE ib

expect_ident(e) ==
    /\ state[e] = "expect"
    /\ inbox[e] # <<>>
    /\ LET m == Head(inbox[e]) IN
       \/ /\ IdentAccepted(e, m)
          /\ inbox' = Answered(e, Popped(e))
          /\ state' = [state EXCEPT ![e] = "ready"]
          /\ name' = [name EXCEPT ![e] = m.name]
       \/ /\ ~IdentAccepted(e, m)
          /\ Close({e})
    /\ UNCHANGED <<xmppVars, link, watch, budget>>

\* message_received of a connection that is ready: a PING is answered.
\* Modules QueryRouting and Streaming have the other types.
message_received(e) ==
    /\ state[e] = "ready"
    /\ inbox[e] # <<>>
    /\ inbox' = IF Head(inbox[e]).type = "PING"
                THEN Written(Popped(e), e, PongMessage)
                ELSE Popped(e)
    /\ UNCHANGED <<xmppVars, link, state, name, watch, budget>>

\* anon_http_handler with "pingall": Router::send_all.
pingall(n) ==
    LET ready == {e \in EndsOf(n) : state[e] = "ready"} IN
    /\ Spend("pings")
    /\ inbox' = [e \in End |-> IF Other(e) \in ready /\ Live(e)
                               THEN Append(inbox[e], PingMessage) ELSE inbox[e]]
    /\ UNCHANGED <<xmppVars, link, state, name, watch>>

-----------------------------------------------------------------------------
(* Failures.                                                               *)

\* One end of a connection is lost.
Break(e) ==
    /\ Live(e)
    /\ Spend("breaks")
    /\ Close({e})
    /\ UNCHANGED <<xmppVars, link, watch>>

\* An end learns that the other one is closed.
peer_closed(e) ==
    /\ Live(e)
    /\ state[Other(e)] = "closed"
    /\ Close({e})
    /\ UNCHANGED <<xmppVars, link, watch, budget>>

\* The process at n dies and comes back: its tables are empty, its friends
\* see its XMPP session anew and it sees theirs.
Restart(n) ==
    /\ Spend("restarts")
    /\ Close(EndsOf(n))
    /\ m_peer_cookies' = [m_peer_cookies EXCEPT ![n] = [k \in Cookie |-> None]]
    /\ watch' = watch \ EndsOf(n)
    /\ reports' = reports \cup
          {r \in Node \X Node : n \in {r[1], r[2]} /\ r[2] \in Friends[r[1]]}
    /\ UNCHANGED <<drawn, adverts, link>>

-----------------------------------------------------------------------------
Next ==
    \/ \E n, p \in Node : PeerReturns(n, p) \/ jabber_new_peer(n, p) \/ ManualConnect(n, p)
    \/ \E a \in adverts : jabber_msg_received(a)
    \/ \E c \in Conn : new_incoming_connection(c) \/ new_outgoing_connection(c)
    \/ \E e \in End :
          \/ new_connection_timeout(e) \/ expect_ident(e) \/ message_received(e)
          \/ Break(e) \/ peer_closed(e)
    \/ \E n \in Node : pingall(n) \/ Restart(n)

Spec == Init /\ [][Next]_vars

\* The jbot and io_service threads keep running and TCP delivers what was
\* written; that the other end is closed may go unnoticed for ever.
JbotThread(n) ==
    \/ \E p \in Node : jabber_new_peer(n, p)
    \/ \E a \in adverts : a.to = n /\ jabber_msg_received(a)

FairSpec ==
    /\ Spec
    /\ \A n \in Node : WF_vars(JbotThread(n))
    /\ \A c \in Conn : WF_vars(new_incoming_connection(c)) /\ WF_vars(new_outgoing_connection(c))
    /\ \A e \in End : /\ WF_vars(new_connection_timeout(e))
                      /\ WF_vars(expect_ident(e)) /\ WF_vars(message_received(e))

\* A network on which every closed connection is noticed in the end.
FairNetSpec == FairSpec /\ \A e \in End : WF_vars(peer_closed(e))

-----------------------------------------------------------------------------
(* Properties.                                                             *)

\* Every variable keeps its type.
TypeOK ==
    /\ reports \subseteq Node \X Node
    /\ m_peer_cookies \in [Node -> [Cookie -> Node \cup {None}]]
    /\ drawn \subseteq Cookie
    /\ adverts \subseteq Advert
    /\ link \in [Conn -> Link \cup {None}]
    /\ state \in [End -> {"none", "new", "expect", "ready", "closed"}]
    /\ name \in [End -> Node \cup {None}]
    /\ inbox \in [End -> Seq(Message)]
    /\ watch \subseteq End
    /\ budget \in [{"reports", "manual", "breaks", "restarts", "pings"} -> Nat]

\* A node never has two ready connections with one peer, however
\* advertisements cross and repeat: m_conn2sid, foreach_conns and
\* get_connection_by_name take a name for a connection.
OneConnPerPeer ==
    \A e, f \in End :
        (state[e] = "ready" /\ state[f] = "ready" /\ NodeOf(e) = NodeOf(f)
         /\ name[e] = name[f]) => e = f

\* A node accepts only whom this run of it has invited: the cookie of a
\* ready incoming connection is in m_peer_cookies under the name it bears,
\* although expect_ident does not compare the two and a restart empties the
\* table.
ReadyPeerWasInvited ==
    \A c \in Conn : state[<<c, "in">>] = "ready" =>
        /\ link[c].cookie # None
        /\ m_peer_cookies[link[c].to][link[c].cookie] = name[<<c, "in">>]

\* A connection never breaks because of "Expected ident from peer, but
\* didn't get it": what an end in expect_ident reads is an IDENT, and no
\* IDENT reaches message_received, whatever both ends send once ready.
IdentComesFirst ==
    \A e \in End : inbox[e] # <<>> =>
        (state[e] # "ready" <=> Head(inbox[e]).type = "IDENT")

\* The dialling end takes a connection for ready only after the accepting
\* end has: nothing is sent on a connection whose cookie nobody verified.
VerifiedFirst ==
    \A c \in Conn :
        state[<<c, "out">>] = "ready" => state[<<c, "in">>] \in {"ready", "closed"}

\* No connection waits for ever for an IDENT, even one whose other end died
\* unnoticed (new_connection_watchdog).
AuthOrDrop ==
    \A e \in End : state[e] = "expect" ~> state[e] \in {"ready", "closed"}

Neighbours(n, p) ==
    \E c \in Conn : /\ link[c] # None
                    /\ {link[c].from, link[c].to} = {n, p}
                    /\ \A s \in Side : state[<<c, s>>] = "ready"

\* Friends, one of whom can be reached, become and stay neighbours: "it
\* then makes a direct connection to all of them".
MeshFormed ==
    \A n \in Public : \A p \in Friends[n] \ {n} : <>[]Neighbours(n, p)

=============================================================================
