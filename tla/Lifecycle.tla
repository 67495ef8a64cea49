------------------------------ MODULE Lifecycle ------------------------------
(***************************************************************************)
(* The life of a node: greynet::init, its destructor, and the threads in   *)
(* between.  The main thread of the Playdar core loads and unloads the     *)
(* plugin; the io thread is started before the external address is known;  *)
(* the jbot's thread makes the gloox client j, runs its XMPP session       *)
(* (module Jbot) and deletes j at the end; threads of the web server ask   *)
(* for the roster.                                                         *)
(*                                                                         *)
(* m_playdarpeers_mut is held across steps only while the jbot reports a   *)
(* new peer; the router's lock is never held while another one is waited   *)
(* for.  j has no lock: a step of another thread that uses it may be fatal *)
(* or go unnoticed, and it is fatal before j is set.                       *)
(***************************************************************************)
EXTENDS Naturals, Sequences

CONSTANTS
    Peer, Playdar, Google, MaxLogins, MaxChanges,   \* see Jbot
    MaxRequests,    \* bound: requests to the web pages
    MaxResources    \* bound: sessions that gloox's roster lists

ASSUME RequestAssumption == MaxRequests \in Nat /\ MaxResources \in Nat

VARIABLES
    online, stream, asked, m_playdarpeers, reported, logins, changes,
    main,           \* where the core's main thread is
    io,             \* the io thread: "none", "running", "stopping", "stopped"
    m_pf,           \* there is a Portfwd object
    forwarded,      \* the NAT router forwards our port
    m_publicip,     \* an external address is known
    m_jbot,         \* the pointer is set
    jbot,           \* "none", "starting", "connecting", "up", "reporting", "over"
    j,              \* the client: "unset", "live", "deleted"
    disconnected,   \* j->disconnect(): "no", "done", "missed"
    web,            \* a request for the roster: "idle", "capable", "connected"
    left,           \* resources of the roster it has yet to look at
    requests,       \* requests that may still come
    crashed         \* the process died of undefined behaviour

J == INSTANCE Jbot

peerVars   == <<online, stream, asked, m_playdarpeers, reported, logins, changes>>
addressVars == <<m_pf, forwarded, m_publicip>>
clientVars == <<m_jbot, jbot, j, disconnected>>
webVars    == <<web, left, requests>>
vars == <<peerVars, main, io, addressVars, clientVars, webVars, crashed>>

SessionUp == jbot \in {"up", "reporting"}

\* m_playdarpeers_mut is held.
Locked == jbot = "reporting"

\* stop has removed the handlers of the jbot from the client.
Deaf == main \in {"disconnecting", "joining_jbot"}

\* A use of *j by another thread goes well, or is the end: j may be unset or
\* deleted, and while it is live its own thread works on it.
Use(done) ==
    \/ j # "unset" /\ done /\ UNCHANGED crashed
    \/ crashed' = TRUE /\ UNCHANGED <<main, clientVars, webVars>>

-----------------------------------------------------------------------------
Init ==
    /\ J!Init
    /\ main = "loading" /\ io = "none"
    /\ m_pf = FALSE /\ forwarded = FALSE /\ m_publicip = FALSE
    /\ m_jbot = FALSE /\ jbot = "none" /\ j = "unset" /\ disconnected = "no"
    /\ web = "idle" /\ left = 0 /\ requests = MaxRequests
    /\ crashed = FALSE

-----------------------------------------------------------------------------
(* The main thread: init.                                                  *)

\* The router listens from here on.
init ==
    /\ main = "loading" /\ ~crashed
    /\ main' = "detecting" /\ io' = "running"
    /\ UNCHANGED <<peerVars, addressVars, clientVars, webVars, crashed>>

detect_ip_Hasty ==
    /\ m_pf' = TRUE
    /\ m_publicip' = TRUE
    /\ forwarded' \in BOOLEAN

\* Behind a NAT router the address counts only with a port forward.
detect_ip ==
    \/ /\ m_pf' = TRUE
       /\ forwarded' \in BOOLEAN
       /\ m_publicip' = forwarded'
    \/ /\ m_publicip' \in BOOLEAN
       /\ UNCHANGED <<m_pf, forwarded>>

find_address ==
    /\ main = "detecting" /\ ~crashed
    /\ main' = "jabbering"
    /\ detect_ip
    /\ UNCHANGED <<peerVars, io, clientVars, webVars, crashed>>

\* Without a jid and a password there is no jbot.
jabber_start ==
    /\ main = "jabbering" /\ ~crashed
    /\ main' = "running"
    /\ \/ m_jbot' = TRUE /\ jbot' = "starting"
       \/ UNCHANGED <<m_jbot, jbot>>
    /\ UNCHANGED <<peerVars, io, addressVars, j, disconnected, webVars, crashed>>

-----------------------------------------------------------------------------
(* The main thread: the destructor.                                        *)

\* The core unloads a plugin that is not in the middle of a request.
unload ==
    /\ main = "running" /\ web = "idle" /\ ~crashed
    /\ main' = "joining_io" /\ io' = "stopping"
    /\ UNCHANGED <<peerVars, addressVars, clientVars, webVars, crashed>>

join_all ==
    /\ main = "joining_io" /\ io = "stopped" /\ ~crashed
    /\ main' = IF m_jbot THEN "stopping_jbot" ELSE "removing"
    /\ UNCHANGED <<peerVars, io, addressVars, clientVars, webVars, crashed>>

\* jbot::stop says goodbye ...
stop ==
    /\ main = "stopping_jbot" /\ ~crashed
    /\ Use(main' = "disconnecting" /\ UNCHANGED <<clientVars, webVars>>)
    /\ UNCHANGED <<peerVars, io, addressVars>>

disconnect_Missing == UNCHANGED <<disconnected, j>>

\* ... and ends the session; j is left to its own thread.  A client that has
\* not begun to connect has nothing to end, and connects afterwards.
disconnect ==
    /\ disconnected' \in IF jbot = "connecting" THEN {"done", "missed"} ELSE {"done"}
    /\ UNCHANGED j

stop_disconnect ==
    /\ main = "disconnecting" /\ ~crashed
    /\ Use(main' = "joining_jbot" /\ disconnect /\ UNCHANGED <<m_jbot, jbot, webVars>>)
    /\ UNCHANGED <<peerVars, io, addressVars>>

Joined_Unchecked == TRUE

\* m_jbot_thread->join() returns.
Joined == jbot = "over"

join_jbot ==
    /\ main = "joining_jbot" /\ Joined /\ ~crashed
    /\ main' = "removing"
    /\ UNCHANGED <<peerVars, io, addressVars, clientVars, webVars, crashed>>

remove_portfwd ==
    /\ main = "removing" /\ ~crashed
    /\ main' = "gone"
    /\ forwarded' = (forwarded /\ ~m_pf)
    /\ UNCHANGED <<peerVars, io, m_pf, m_publicip, clientVars, webVars, crashed>>

MainThread ==
    \/ init \/ find_address \/ jabber_start
    \/ join_all \/ stop \/ stop_disconnect \/ join_jbot \/ remove_portfwd

\* io_service::run returns.
io_stops ==
    /\ io = "stopping" /\ ~crashed
    /\ io' = "stopped"
    /\ UNCHANGED <<peerVars, main, addressVars, clientVars, webVars, crashed>>

-----------------------------------------------------------------------------
(* The jbot's thread.                                                      *)

start ==
    /\ jbot = "starting" /\ ~crashed
    /\ jbot' = "connecting" /\ j' = "live"
    /\ UNCHANGED <<peerVars, main, io, addressVars, m_jbot, disconnected, webVars, crashed>>

\* The thread is done with its client, and what the server had yet to
\* deliver to it is lost.  The list of peers stays.
SessionEnds ==
    /\ jbot' = "over" /\ j' = "deleted"
    /\ stream' = [p \in Peer |-> <<>>]
    /\ asked' = [p \in Peer |-> 0]
    /\ UNCHANGED <<online, m_playdarpeers, reported, logins, changes>>

connect ==
    /\ jbot = "connecting" /\ ~crashed
    /\ \/ disconnected # "done" /\ jbot' = "up" /\ UNCHANGED <<peerVars, j>>
       \/ SessionEnds
    /\ UNCHANGED <<main, io, addressVars, m_jbot, disconnected, webVars, crashed>>

\* recv handles a stanza, as long as nobody has disconnected the client.  The
\* lock that a new peer is listed under is kept while it is reported.
recv(p) ==
    /\ jbot = "up" /\ disconnected # "done" /\ ~Deaf /\ ~crashed
    /\ J!Handler(p)
    /\ jbot' = IF reported' = reported THEN "up" ELSE "reporting"
    /\ UNCHANGED <<main, io, addressVars, m_jbot, j, disconnected, webVars, crashed>>

\* Without handlers a stanza is only read.
recv_deaf(p) ==
    /\ jbot = "up" /\ disconnected # "done" /\ Deaf /\ ~crashed
    /\ stream[p] # <<>> /\ J!Handled(p)
    /\ UNCHANGED <<online, asked, m_playdarpeers, reported, logins, changes>>
    /\ UNCHANGED <<main, io, addressVars, clientVars, webVars, crashed>>

jabber_new_peer_Broadcasts ==
    /\ jbot = "reporting" /\ ~Locked /\ ~crashed
    /\ jbot' = "up"
    /\ UNCHANGED <<peerVars, main, io, addressVars, m_jbot, j, disconnected, webVars, crashed>>

\* The callback asks the router for a connection and sends to one jid
\* (module Handshake); then the lock is released.
jabber_new_peer ==
    /\ jbot = "reporting" /\ ~crashed
    /\ jbot' = "up"
    /\ UNCHANGED <<peerVars, main, io, addressVars, m_jbot, j, disconnected, webVars, crashed>>

\* "quit" from our own account: jbot::stop on the jbot's own thread.
handleMessage_quit ==
    /\ jbot = "up" /\ disconnected # "done" /\ ~Deaf /\ ~crashed
    /\ disconnect
    /\ UNCHANGED <<peerVars, main, io, addressVars, m_jbot, jbot, webVars, crashed>>

recv_fails ==
    /\ jbot = "up" /\ ~crashed
    /\ SessionEnds
    /\ UNCHANGED <<main, io, addressVars, m_jbot, disconnected, webVars, crashed>>

JbotThread ==
    \/ start \/ connect \/ jabber_new_peer
    \/ \E p \in Peer : recv(p) \/ recv_deaf(p)
    \/ disconnected = "done" /\ recv_fails

\* The sessions of our friends, as far as ours tells us about them.
Friend(p) ==
    /\ SessionUp /\ ~crashed
    /\ J!Login(p) \/ J!Logout(p) \/ J!ChangeStatus(p) \/ J!AnswerDisco(p)
    /\ UNCHANGED <<main, io, addressVars, clientVars, webVars, crashed>>

-----------------------------------------------------------------------------
(* Requests to the web pages, which come while the plugin is loaded.       *)

\* The walk is over, or goes on with the next resource.
Walk(n) == left' = n /\ web' = IF n = 0 THEN "idle" ELSE "capable"

\* get_roster without a jbot is fatal; with one it goes through j's roster ...
authed_http_handler ==
    /\ main = "running" /\ web = "idle" /\ requests > 0 /\ ~crashed
    /\ \/ /\ ~m_jbot
          /\ crashed' = TRUE
          /\ UNCHANGED webVars
       \/ /\ m_jbot
          /\ Use(\E n \in 0..MaxResources : Walk(n) /\ requests' = requests - 1)
    /\ UNCHANGED <<peerVars, main, io, addressVars, clientVars>>

\* ... and takes one lock at a time for each resource: that of the peers, ...
get_roster ==
    /\ web = "capable" /\ ~Locked /\ ~crashed
    /\ web' = "connected"
    /\ UNCHANGED <<peerVars, main, io, addressVars, clientVars, left, requests, crashed>>

\* ... then the router's.  What it looks at next belongs to j again.
get_connection_by_name ==
    /\ web = "connected" /\ ~crashed
    /\ Use(Walk(left - 1) /\ UNCHANGED requests)
    /\ UNCHANGED <<peerVars, main, io, addressVars, clientVars>>

\* A connection made from the settings page: new_outgoing_connection sends
\* our jid, which m_jbot has, if the connection gets that far.
anon_http_handler ==
    /\ main = "running" /\ io = "running" /\ requests > 0 /\ ~crashed
    /\ requests' = requests - 1
    /\ crashed' \in {FALSE, ~m_jbot}
    /\ UNCHANGED <<peerVars, main, io, addressVars, clientVars, web, left>>

WebThread == get_roster \/ get_connection_by_name

-----------------------------------------------------------------------------
Next ==
    \/ MainThread \/ unload \/ io_stops
    \/ JbotThread \/ handleMessage_quit \/ recv_fails
    \/ \E p \in Peer : Friend(p)
    \/ authed_http_handler \/ anon_http_handler \/ WebThread

Spec == Init /\ [][Next]_vars

\* All threads run; friends, the XMPP server, users and the core's decision
\* to unload the plugin owe nothing.
FairSpec ==
    /\ Spec
    /\ WF_vars(MainThread) /\ WF_vars(io_stops)
    /\ WF_vars(JbotThread) /\ WF_vars(WebThread)
-----------------------------------------------------------------------------
(* Properties.                                                             *)

\* Every variable keeps its type.
TypeOK ==
    /\ J!TypeOK
    /\ main \in {"loading", "detecting", "jabbering", "running", "joining_io",
                  "stopping_jbot", "disconnecting", "joining_jbot", "removing", "gone"}
    /\ io \in {"none", "running", "stopping", "stopped"}
    /\ {m_pf, forwarded, m_publicip, m_jbot, crashed} \subseteq BOOLEAN
    /\ jbot \in {"none", "starting", "connecting", "up", "reporting", "over"}
    /\ j \in {"unset", "live", "deleted"}
    /\ disconnected \in {"no", "done", "missed"}
    /\ web \in {"idle", "capable", "connected"}
    /\ {left, requests} \subseteq Nat /\ (left = 0 <=> web = "idle")

\* The address behind a NAT router that the jbot advertises has its port
\* forwarded at that moment: detect_ip, which may fail half way, keeps an
\* address only with its forward, and the destructor, running meanwhile,
\* removes the forward only when the jbot is over.
AdvertisedPortIsForwarded == (jbot = "reporting" /\ m_publicip /\ m_pf) => forwarded

\* "Greynet has shutdown." is true: no thread of the plugin runs any more
\* that would use it, and the NAT router forwards nothing to it.
NothingOutlives ==
    main = "gone" => /\ io = "stopped"
                     /\ jbot \in {"none", "over"}
                     /\ ~forwarded

\* A destructor that survives its uses of j comes to its end, whether a new
\* peer is just being reported or the session was ended before, by "quit" or
\* by the server - except when a disconnect came too early to have an effect.
ShutdownEnds ==
    main = "joining_io" ~> (main = "gone" \/ crashed \/ disconnected = "missed")

\* A request for the roster is answered whatever the jbot is doing: the
\* callback that runs with m_playdarpeers_mut held waits for nothing that a
\* waiting get_roster holds, nor for that lock itself.
RosterAnswered == web # "idle" ~> (web = "idle" \/ crashed)

=============================================================================
