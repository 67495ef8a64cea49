--------------------------- MODULE LifecycleProofs ---------------------------
(* The threads of a node, from init to the end of the destructor: for every *)
(* number of friends, stanzas and requests, and every moment at which the   *)
(* plugin is unloaded.                                                      *)
EXTENDS Lifecycle, TLAPS

-----------------------------------------------------------------------------
(* Where the threads can be relative to each other.                        *)

\* The client is made and deleted by the jbot's thread alone, which exists
\* once m_jbot is set.
ClientOfJbot ==
    /\ m_jbot <=> jbot # "none"
    /\ j = "live" <=> jbot \in {"connecting", "up", "reporting"}
    /\ j = "deleted" <=> jbot = "over"

\* The main thread starts the jbot last and joins it first.
MainAndJbot ==
    /\ main \in {"loading", "detecting", "jabbering"} => jbot = "none"
    /\ main \in {"removing", "gone"} => jbot \in {"none", "over"}

MainAndIo ==
    /\ main = "loading" => io = "none"
    /\ main \in {"stopping_jbot", "disconnecting", "joining_jbot", "removing", "gone"}
           => io = "stopped"

\* Between detect_ip and the end of the destructor, what is forwarded is what
\* the address was found with.
Forwarding ==
    /\ main \in {"loading", "detecting"} => ~m_pf /\ ~m_publicip
    /\ forwarded => m_pf
    /\ main # "gone" /\ m_pf /\ m_publicip => forwarded
    /\ main = "gone" => ~forwarded

Inv ==
    /\ TypeOK
    /\ ClientOfJbot /\ MainAndJbot /\ MainAndIo /\ Forwarding

\* All of Inv that is not about the variables of Jbot.
ThreadInv ==
    /\ main \in {"loading", "detecting", "jabbering", "running", "joining_io",
                  "stopping_jbot", "disconnecting", "joining_jbot", "removing", "gone"}
    /\ io \in {"none", "running", "stopping", "stopped"}
    /\ m_pf \in BOOLEAN /\ forwarded \in BOOLEAN /\ m_publicip \in BOOLEAN
    /\ m_jbot \in BOOLEAN /\ crashed \in BOOLEAN
    /\ disconnected \in {"no", "done", "missed"}
    /\ jbot \in {"none", "starting", "connecting", "up", "reporting", "over"}
    /\ j \in {"unset", "live", "deleted"}
    /\ web \in {"idle", "capable", "connected"}
    /\ left \in Nat /\ requests \in Nat /\ (left = 0 <=> web = "idle")
    /\ ClientOfJbot /\ MainAndJbot /\ MainAndIo /\ Forwarding

LEMMA InvParts == Inv <=> J!TypeOK /\ ThreadInv
BY DEF Inv, TypeOK, ThreadInv

-----------------------------------------------------------------------------
(* The sessions of the friends.                                            *)

LEMMA ReceivedType ==
    ASSUME J!TypeOK, NEW p \in Peer, NEW x \in J!Stanza, J!Received(p, x)
    PROVE  stream' \in [Peer -> Seq(J!Stanza)]
BY DEF J!TypeOK, J!Received

LEMMA HandledType ==
    ASSUME J!TypeOK, NEW p \in Peer, stream[p] # <<>>, J!Handled(p)
    PROVE  stream' \in [Peer -> Seq(J!Stanza)]
<1>1. stream[p] \in Seq(J!Stanza)
  BY DEF J!TypeOK
<1>2. Tail(stream[p]) \in Seq(J!Stanza)
  BY <1>1
<1> QED
  BY <1>2 DEF J!TypeOK, J!Handled

LEMMA FriendTypes ==
    ASSUME J!TypeOK, NEW p \in Peer,
           J!Login(p) \/ J!Logout(p) \/ J!ChangeStatus(p) \/ J!AnswerDisco(p)
    PROVE  J!TypeOK'
<1> USE DEF J!peerVars
<1>1. CASE J!Login(p)
  <2>1. stream' \in [Peer -> Seq(J!Stanza)]
    BY <1>1, ReceivedType DEF J!Login, J!Stanza
  <2>2. logins' \in [Peer -> Nat]
    BY <1>1 DEF J!Login, J!TypeOK
  <2> QED
    BY <1>1, <2>1, <2>2 DEF J!Login, J!TypeOK
<1>2. CASE J!Logout(p)
  <2>1. stream' \in [Peer -> Seq(J!Stanza)]
    BY <1>2, ReceivedType DEF J!Logout, J!Stanza
  <2> QED
    BY <1>2, <2>1 DEF J!Logout, J!TypeOK
<1>3. CASE J!ChangeStatus(p)
  <2>1. stream' \in [Peer -> Seq(J!Stanza)]
    BY <1>3, ReceivedType DEF J!ChangeStatus, J!Stanza
  <2>2. changes' \in [Peer -> Nat]
    BY <1>3 DEF J!ChangeStatus, J!TypeOK
  <2> QED
    BY <1>3, <2>1, <2>2 DEF J!ChangeStatus, J!TypeOK
<1>4. CASE J!AnswerDisco(p)
  <2>1. stream' \in [Peer -> Seq(J!Stanza)]
    BY <1>4, ReceivedType DEF J!AnswerDisco, J!Stanza
  <2>2. asked' \in [Peer -> Nat]
    BY <1>4 DEF J!AnswerDisco, J!TypeOK
  <2> QED
    BY <1>4, <2>1, <2>2 DEF J!AnswerDisco, J!TypeOK
<1> QED
  BY <1>1, <1>2, <1>3, <1>4

LEMMA HandlerTypes ==
    ASSUME J!TypeOK, NEW p \in Peer, J!Handler(p)
    PROVE  J!TypeOK'
<1> USE DEF J!peerVars
<1>1. stream' \in [Peer -> Seq(J!Stanza)]
  BY HandledType DEF J!Handler, J!PresenceOffline, J!PresenceOnline, J!handleDiscoInfo,
                     J!handleDiscoError
<1>2. UNCHANGED <<online, logins, changes>>
  BY DEF J!Handler, J!PresenceOffline, J!PresenceOnline, J!handleDiscoInfo,
         J!handleDiscoError
<1>3. m_playdarpeers' \subseteq Peer
  BY DEF J!TypeOK, J!Handler, J!PresenceOffline, J!PresenceOnline, J!handleDiscoInfo,
         J!handleDiscoError, J!AddPeer, J!Unlisted
<1>4. reported' \in [Peer -> Nat]
  BY SMTT(20) DEF J!TypeOK, J!Handler, J!PresenceOffline, J!PresenceOnline, J!handleDiscoInfo,
         J!handleDiscoError, J!AddPeer
<1>5. asked' \in [Peer -> Nat]
  BY SMTT(20) DEF J!TypeOK, J!Handler, J!PresenceOffline, J!PresenceOnline, J!handleDiscoInfo,
         J!handleDiscoError
<1> QED
  BY <1>1, <1>2, <1>3, <1>4, <1>5 DEF J!TypeOK

LEMMA SessionEndsTypes ==
    ASSUME J!TypeOK, SessionEnds
    PROVE  J!TypeOK'
BY DEF SessionEnds, J!TypeOK

LEMMA PeersKeptTypes ==
    ASSUME J!TypeOK, UNCHANGED peerVars
    PROVE  J!TypeOK'
BY DEF J!TypeOK, peerVars

-----------------------------------------------------------------------------
(* The threads, one lemma per thread and one step per action.              *)

LEMMA MainThreadInv ==
    ASSUME ThreadInv, MainThread
    PROVE  ThreadInv' /\ UNCHANGED peerVars
<1> USE DEF ThreadInv, ClientOfJbot, MainAndJbot, MainAndIo, Forwarding,
            addressVars, clientVars, webVars
<1>1. CASE init
  BY <1>1 DEF init
<1>2. CASE find_address
  <2>1. /\ main = "detecting" /\ main' = "jabbering" /\ ~crashed
        /\ UNCHANGED <<io, m_jbot, jbot, j, disconnected, web, left, requests, crashed>>
        /\ UNCHANGED peerVars
    BY <1>2 DEF find_address
  <2>2. /\ m_pf' \in BOOLEAN /\ forwarded' \in BOOLEAN /\ m_publicip' \in BOOLEAN
    BY <1>2 DEF find_address, detect_ip
  <2>3. Forwarding'
    BY <1>2 DEF find_address, detect_ip
  <2> QED
    BY <2>1, <2>2, <2>3
<1>3. CASE jabber_start
  <2>1. /\ main = "jabbering" /\ main' = "running"
        /\ UNCHANGED <<io, m_pf, forwarded, m_publicip, j, disconnected, web, left, requests, crashed>>
        /\ UNCHANGED peerVars
    BY <1>3 DEF jabber_start
  <2>2. CASE m_jbot' = TRUE /\ jbot' = "starting"
    BY <2>1, <2>2
  <2>3. CASE UNCHANGED <<m_jbot, jbot>>
    BY <2>1, <2>3
  <2> QED
    BY <1>3, <2>2, <2>3 DEF jabber_start
<1>4. CASE join_all
  BY <1>4 DEF join_all
<1>5. CASE stop
  <2>1. main = "stopping_jbot" /\ ~crashed /\ UNCHANGED <<io, m_pf, forwarded, m_publicip>>
        /\ UNCHANGED peerVars
    BY <1>5 DEF stop
  <2>2. UNCHANGED <<m_jbot, jbot, j, disconnected, web, left, requests>>
    BY <1>5 DEF stop, Use
  <2>3. CASE main' = "disconnecting" /\ UNCHANGED crashed
    BY <2>1, <2>2, <2>3
  <2>4. CASE crashed' = TRUE /\ UNCHANGED main
    BY <2>1, <2>2, <2>4
  <2> QED
    BY <1>5, <2>3, <2>4 DEF stop, Use
<1>6. CASE stop_disconnect
  <2>1. main = "disconnecting" /\ ~crashed /\ UNCHANGED <<io, m_pf, forwarded, m_publicip>>
        /\ UNCHANGED peerVars
    BY <1>6 DEF stop_disconnect
  <2>2. UNCHANGED <<m_jbot, jbot, j, web, left, requests>>
    BY <1>6 DEF stop_disconnect, disconnect, Use
  <2>3. CASE /\ main' = "joining_jbot" /\ UNCHANGED crashed
             /\ disconnected' \in {"done", "missed"}
    BY <2>1, <2>2, <2>3
  <2>4. CASE crashed' = TRUE /\ UNCHANGED <<main, disconnected>>
    BY <2>1, <2>2, <2>4
  <2> QED
    BY <1>6, <2>3, <2>4 DEF stop_disconnect, Use, disconnect
<1>7. CASE join_jbot
  BY <1>7 DEF join_jbot, Joined
<1>8. CASE remove_portfwd
  BY <1>8 DEF remove_portfwd
<1> QED
  BY <1>1, <1>2, <1>3, <1>4, <1>5, <1>6, <1>7, <1>8 DEF MainThread

LEMMA OutsideInv ==
    ASSUME ThreadInv, unload \/ io_stops \/ authed_http_handler \/ anon_http_handler \/ WebThread
    PROVE  ThreadInv' /\ UNCHANGED peerVars
<1> USE DEF ThreadInv, ClientOfJbot, MainAndJbot, MainAndIo, Forwarding,
            addressVars, clientVars, webVars
<1>1. CASE unload
  BY <1>1 DEF unload
<1>2. CASE io_stops
  BY <1>2 DEF io_stops
<1>3. CASE authed_http_handler
  <2>1. /\ requests > 0 /\ ~crashed
        /\ UNCHANGED <<main, io, m_pf, forwarded, m_publicip, m_jbot, jbot, j, disconnected>>
        /\ UNCHANGED peerVars
    BY <1>3 DEF authed_http_handler, Use
  <2>2. CASE crashed' = TRUE /\ UNCHANGED <<web, left, requests>>
    BY <2>1, <2>2
  <2>3. ASSUME NEW n \in 0..MaxResources, Walk(n), requests' = requests - 1,
               UNCHANGED crashed
        PROVE  ThreadInv'
    BY <2>1, <2>3, RequestAssumption DEF Walk
  <2>4. \/ crashed' = TRUE /\ UNCHANGED <<web, left, requests>>
        \/ /\ \E n \in 0..MaxResources : Walk(n) /\ requests' = requests - 1
           /\ UNCHANGED crashed
    BY <1>3 DEF authed_http_handler, Use
  <2>5. UNCHANGED peerVars
    BY <2>1
  <2> HIDE DEF ThreadInv
  <2> QED
    BY <2>2, <2>3, <2>4, <2>5
<1>4. CASE anon_http_handler
  <2>1. /\ requests > 0 /\ ~crashed /\ requests' = requests - 1
        /\ UNCHANGED <<main, io, m_pf, forwarded, m_publicip, m_jbot, jbot, j, disconnected>>
        /\ UNCHANGED <<web, left>>
        /\ UNCHANGED peerVars
    BY <1>4 DEF anon_http_handler
  <2>2. CASE crashed' \in BOOLEAN /\ ~crashed'
    BY <2>1, <2>2
  <2>3. CASE crashed' = TRUE /\ ~m_jbot
    BY <2>1, <2>3
  <2>4. m_jbot = TRUE \/ m_jbot = FALSE
    OBVIOUS
  <2> QED
    BY <1>4, <2>2, <2>3, <2>4 DEF anon_http_handler
<1>5. CASE get_roster
  BY <1>5 DEF get_roster
<1>6. CASE get_connection_by_name
  <2>1. /\ web = "connected" /\ ~crashed
        /\ UNCHANGED <<main, io, m_pf, forwarded, m_publicip, m_jbot, jbot, j, disconnected>>
        /\ UNCHANGED peerVars
    BY <1>6 DEF get_connection_by_name
  <2>2. CASE crashed' = TRUE /\ UNCHANGED <<web, left, requests>>
    BY <2>1, <2>2
  <2>3. CASE Walk(left - 1) /\ UNCHANGED <<requests, crashed>>
    BY <2>1, <2>3 DEF Walk
  <2> QED
    BY <1>6, <2>2, <2>3 DEF get_connection_by_name, Use
<1> QED
  BY <1>1, <1>2, <1>3, <1>4, <1>5, <1>6 DEF WebThread

LEMMA JbotThreadInv ==
    ASSUME J!TypeOK, ThreadInv, JbotThread \/ handleMessage_quit \/ recv_fails
    PROVE  ThreadInv' /\ J!TypeOK'
<1> USE DEF ThreadInv, ClientOfJbot, MainAndJbot, MainAndIo, Forwarding,
            addressVars, clientVars, webVars
<1>1. CASE start
  <2>1. J!TypeOK'
    BY <1>1, PeersKeptTypes DEF start
  <2>2. ThreadInv'
    BY <1>1 DEF start
  <2> QED
    BY <2>1, <2>2
<1>2. CASE connect
  <2>1. J!TypeOK'
    BY <1>2, PeersKeptTypes, SessionEndsTypes DEF connect
  <2>2. ThreadInv'
    BY <1>2 DEF connect, SessionEnds
  <2> QED
    BY <2>1, <2>2
<1>3. CASE jabber_new_peer
  <2>1. J!TypeOK'
    BY <1>3, PeersKeptTypes DEF jabber_new_peer
  <2>2. ThreadInv'
    BY <1>3 DEF jabber_new_peer
  <2> QED
    BY <2>1, <2>2
<1>4. CASE handleMessage_quit
  <2>1. J!TypeOK'
    BY <1>4, PeersKeptTypes DEF handleMessage_quit
  <2>2. ThreadInv'
    BY <1>4 DEF handleMessage_quit, disconnect
  <2> QED
    BY <2>1, <2>2
<1>5. CASE recv_fails
  <2>1. J!TypeOK'
    BY <1>5, SessionEndsTypes DEF recv_fails
  <2>2. ThreadInv'
    BY <1>5 DEF recv_fails, SessionEnds
  <2> QED
    BY <2>1, <2>2
<1>6. ASSUME NEW p \in Peer, recv(p) PROVE ThreadInv' /\ J!TypeOK'
  <2>1. J!TypeOK'
    BY <1>6, HandlerTypes DEF recv
  <2>2. ThreadInv'
    BY <1>6 DEF recv
  <2> QED
    BY <2>1, <2>2
<1>7. ASSUME NEW p \in Peer, recv_deaf(p) PROVE ThreadInv' /\ J!TypeOK'
  <2>1. J!TypeOK'
    BY <1>7, HandledType DEF recv_deaf, J!TypeOK
  <2>2. ThreadInv'
    BY <1>7 DEF recv_deaf
  <2> QED
    BY <2>1, <2>2
<1> QED
  BY <1>1, <1>2, <1>3, <1>4, <1>5, <1>6, <1>7 DEF JbotThread

LEMMA FriendInv ==
    ASSUME J!TypeOK, ThreadInv, NEW p \in Peer, Friend(p)
    PROVE  ThreadInv' /\ J!TypeOK'
<1>1. J!TypeOK'
  BY FriendTypes DEF Friend
<1>2. ThreadInv'
  BY DEF Friend, ThreadInv, ClientOfJbot, MainAndJbot, MainAndIo, Forwarding,
         addressVars, clientVars, webVars
<1> QED
  BY <1>1, <1>2

-----------------------------------------------------------------------------
LEMMA InitInv == Init => Inv
<1> SUFFICES ASSUME Init PROVE Inv
  OBVIOUS
<1>1. J!TypeOK
  <2>1. <<"available">> \in Seq(J!Stanza) /\ <<>> \in Seq(J!Stanza)
    BY DEF J!Stanza
  <2> QED
    BY <2>1 DEF Init, J!Init, J!TypeOK
<1>2. ThreadInv
  BY RequestAssumption DEF Init, ThreadInv, ClientOfJbot, MainAndJbot, MainAndIo, Forwarding
<1> QED
  BY <1>1, <1>2, InvParts

LEMMA NextInv == Inv /\ [Next]_vars => Inv'
<1> SUFFICES ASSUME J!TypeOK, ThreadInv, [Next]_vars PROVE J!TypeOK' /\ ThreadInv'
  BY DEF Inv, TypeOK, ThreadInv
<1>1. CASE MainThread
  BY <1>1, MainThreadInv, PeersKeptTypes
<1>2. CASE unload \/ io_stops \/ authed_http_handler \/ anon_http_handler \/ WebThread
  BY <1>2, OutsideInv, PeersKeptTypes
<1>3. CASE JbotThread \/ handleMessage_quit \/ recv_fails
  BY <1>3, JbotThreadInv
<1>4. CASE \E p \in Peer : Friend(p)
  BY <1>4, FriendInv
<1>5. CASE UNCHANGED vars
  <2>1. J!TypeOK'
    BY <1>5, PeersKeptTypes DEF vars
  <2>2. ThreadInv'
    BY <1>5 DEF vars, ThreadInv, ClientOfJbot, MainAndJbot, MainAndIo, Forwarding,
                addressVars, clientVars, webVars
  <2> QED
    BY <2>1, <2>2
<1> QED
  BY <1>1, <1>2, <1>3, <1>4, <1>5 DEF Next

\* The threads are always where Inv says, relative to each other.
THEOREM Invariance == Spec => []Inv
BY InitInv, NextInv, PTL DEF Spec

\* Every variable keeps its type.
THEOREM TypeCorrect == Spec => []TypeOK
<1>1. Inv => TypeOK
  BY DEF Inv
<1> QED
  BY <1>1, Invariance, PTL

\* When jabber_new_peer advertises our address, the port forward it was found
\* with is in place: the destructor removes it only after the jbot ended.
THEOREM AdvertisedForwarded == Spec => []AdvertisedPortIsForwarded
<1>1. Inv => AdvertisedPortIsForwarded
  BY DEF Inv, MainAndJbot, Forwarding, AdvertisedPortIsForwarded
<1> QED
  BY <1>1, Invariance, PTL

\* After the destructor no thread of the plugin runs and nothing is forwarded
\* to it (greynet::~greynet).
THEOREM NothingLeft == Spec => []NothingOutlives
<1>1. Inv => NothingOutlives
  BY DEF Inv, MainAndJbot, MainAndIo, Forwarding, NothingOutlives
<1> QED
  BY <1>1, Invariance, PTL

=============================================================================
