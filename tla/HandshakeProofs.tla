--------------------------- MODULE HandshakeProofs ---------------------------
(* For every number of nodes, connections, cookies, failures and restarts: *)
(* a node has one connection per peer; the two IDENTs of a connection come *)
(* first and in turn; and whoever is accepted was invited.                 *)
EXTENDS Handshake, SequenceTheorems, TLAPS

\* A connection that was never made has no state.
Linked == \A c \in Conn : \A s \in Side : link[c] = None => state[<<c, s>>] = "none"

Inv == TypeOK /\ Linked /\ OneConnPerPeer

-----------------------------------------------------------------------------
LEMMA FreshIn ==
    ASSUME NEW S, S # {}
    PROVE  Fresh(S) \in S
BY DEF Fresh

LEMMA EndParts ==
    ASSUME NEW e \in End
    PROVE  /\ e[1] \in Conn /\ e[2] \in Side /\ e = <<e[1], e[2]>>
           /\ Other(e) \in End
BY DEF End, Side, Other

LEMMA ConnEnds ==
    ASSUME NEW c \in Conn, NEW s \in Side
    PROVE  <<c, s>> \in End
BY DEF End

\* An end that is in any state belongs to a connection.
LEMMA LinkOf ==
    ASSUME TypeOK, Linked, NEW e \in End, state[e] # "none"
    PROVE  link[e[1]] \in Link /\ NodeOf(e) \in Node /\ link[e[1]] # None
<1>1. e[1] \in Conn /\ e[2] \in Side /\ e = <<e[1], e[2]>>
  BY EndParts
<1>2. link[e[1]] # None
  BY <1>1 DEF Linked
<1>3. link[e[1]] \in Link
  BY <1>1, <1>2 DEF TypeOK
<1> QED
  BY <1>2, <1>3 DEF NodeOf, Link

LEMMA WrittenType ==
    ASSUME NEW ib \in [End -> Seq(Message)], NEW e \in End, NEW m \in Message
    PROVE  Written(ib, e, m) \in [End -> Seq(Message)]
<1>1. Other(e) \in End
  BY EndParts
<1>2. Append(ib[Other(e)], m) \in Seq(Message)
  BY <1>1
<1> QED
  BY <1>1, <1>2 DEF Written

LEMMA PoppedType ==
    ASSUME TypeOK, NEW e \in End, inbox[e] # <<>>
    PROVE  /\ Popped(e) \in [End -> Seq(Message)]
           /\ Head(inbox[e]) \in Message
<1>1. inbox \in [End -> Seq(Message)]
  BY DEF TypeOK
<1>2. Tail(inbox[e]) \in Seq(Message) /\ Head(inbox[e]) \in Message
  BY <1>1
<1> QED
  BY <1>1, <1>2 DEF Popped

LEMMA IdentType ==
    ASSUME TypeOK, Linked, NEW ib \in [End -> Seq(Message)], NEW e \in End,
           state[e] # "none"
    PROVE  send_ident(ib, e) \in [End -> Seq(Message)]
<1>1. link[e[1]] \in Link /\ NodeOf(e) \in Node
  BY LinkOf
<1> DEFINE k == IF e[2] = "out" THEN link[e[1]].cookie ELSE None
<1>2. IdentMessage(NodeOf(e), k) \in Message
  BY <1>1 DEF IdentMessage, Message, Link
<1> QED
  BY <1>2, WrittenType DEF send_ident

LEMMA PingTypes == PingMessage \in Message /\ PongMessage \in Message
BY DEF PingMessage, PongMessage, Message

LEMMA SpendType ==
    ASSUME TypeOK,
           NEW what \in {"reports", "manual", "breaks", "restarts", "pings"},
           Spend(what)
    PROVE  budget' \in [{"reports", "manual", "breaks", "restarts", "pings"} -> Nat]
<1>1. budget[what] \in Nat /\ budget[what] > 0
  BY DEF TypeOK, Spend
<1>2. budget[what] - 1 \in Nat
  BY <1>1
<1> QED
  BY <1>2 DEF TypeOK, Spend

\* Closing ends keeps what Inv says of the ends that stay.
LEMMA CloseKeeps ==
    ASSUME Inv, NEW es \in SUBSET End, Close(es), link' = link,
           \A e \in es : state[e] # "none" \/ link[e[1]] # None
    PROVE  /\ state' \in [End -> {"none", "new", "expect", "ready", "closed"}]
           /\ name' \in [End -> Node \cup {None}]
           /\ inbox' \in [End -> Seq(Message)]
           /\ Linked' /\ OneConnPerPeer'
<1>1. /\ state' \in [End -> {"none", "new", "expect", "ready", "closed"}]
      /\ name' \in [End -> Node \cup {None}]
      /\ inbox' \in [End -> Seq(Message)]
  BY DEF Inv, TypeOK, Close
<1>2. Linked'
  <2> SUFFICES ASSUME NEW c \in Conn, NEW s \in Side, link[c] = None
               PROVE  state'[<<c, s>>] = "none"
    BY DEF Linked
  <2>1. <<c, s>> \in End /\ <<c, s>>[1] = c
    BY ConnEnds
  <2>2. state[<<c, s>>] = "none"
    BY DEF Inv, Linked
  <2>3. <<c, s>> \notin es
    BY <2>1, <2>2
  <2> QED
    BY <2>1, <2>2, <2>3 DEF Close
<1>3. OneConnPerPeer'
  <2> SUFFICES ASSUME NEW e \in End, NEW f \in End, state'[e] = "ready",
                      state'[f] = "ready", NodeOf(e)' = NodeOf(f)',
                      name'[e] = name'[f]
               PROVE  e = f
    BY DEF OneConnPerPeer
  <2>1. e \notin es /\ f \notin es
    BY DEF Close
  <2>2. /\ state[e] = "ready" /\ state[f] = "ready"
        /\ name[e] = name[f] /\ NodeOf(e) = NodeOf(f)
    BY <2>1 DEF Close, NodeOf
  <2> QED
    BY <2>2 DEF Inv, OneConnPerPeer
<1> QED
  BY <1>1, <1>2, <1>3

\* Steps that make no end ready and no connection.
LEMMA QuietKeeps ==
    ASSUME Inv, link' = link, name' = name,
           \A e \in End : state'[e] = "ready" => state[e] = "ready",
           \A e \in End : state[e] = "none" => state'[e] = "none"
    PROVE  Linked' /\ OneConnPerPeer'
<1>1. Linked'
  BY ConnEnds DEF Inv, Linked
<1>2. OneConnPerPeer'
  BY DEF Inv, OneConnPerPeer, NodeOf
<1> QED
  BY <1>1, <1>2

-----------------------------------------------------------------------------
LEMMA Initial == Init => Inv
<1> SUFFICES ASSUME Init PROVE Inv
  OBVIOUS
<1>1. TypeOK
  <2>1. budget \in [{"reports", "manual", "breaks", "restarts", "pings"} -> Nat]
    BY ConstAssumption DEF Init
  <2>2. inbox \in [End -> Seq(Message)]
    BY DEF Init
  <2> QED
    BY <2>1, <2>2 DEF Init, TypeOK
<1>2. Linked
  BY ConnEnds DEF Init, Linked
<1>3. OneConnPerPeer
  BY DEF Init, OneConnPerPeer
<1> QED
  BY <1>1, <1>2, <1>3 DEF Inv

LEMMA ConnectKeeps ==
    ASSUME Inv, NEW n \in Node, NEW p \in Node, NEW k \in Cookie \cup {None},
           connect_to_peer(n, p, k)
    PROVE  /\ link' \in [Conn -> Link \cup {None}]
           /\ state' \in [End -> {"none", "new", "expect", "ready", "closed"}]
           /\ Linked' /\ OneConnPerPeer'
<1> DEFINE c == Fresh(NewConns)
<1>1. c \in Conn /\ link[c] = None
  BY FreshIn DEF connect_to_peer, NewConns
<1>2. /\ link' = [link EXCEPT ![c] = [from |-> n, to |-> p, cookie |-> k]]
      /\ state' = [e \in End |-> IF e[1] = c THEN "new" ELSE state[e]]
      /\ name' = name
  BY DEF connect_to_peer
<1>3. [from |-> n, to |-> p, cookie |-> k] \in Link
  BY DEF Link
<1>4. link' \in [Conn -> Link \cup {None}]
  BY <1>1, <1>2, <1>3 DEF Inv, TypeOK
<1>5. state' \in [End -> {"none", "new", "expect", "ready", "closed"}]
  BY <1>2 DEF Inv, TypeOK
<1>6. Linked'
  <2> SUFFICES ASSUME NEW d \in Conn, NEW s \in Side, link'[d] = None
               PROVE  state'[<<d, s>>] = "none"
    BY DEF Linked
  <2>1. None \notin Link
    BY ConstAssumption DEF Link
  <2>2. d # c
    BY <1>1, <1>2, <1>3, <2>1 DEF Inv, TypeOK
  <2>3. link[d] = None
    BY <1>1, <1>2, <2>2 DEF Inv, TypeOK
  <2>4. state[<<d, s>>] = "none"
    BY <2>3 DEF Inv, Linked
  <2> QED
    BY <1>2, <2>2, <2>4, ConnEnds
<1>7. OneConnPerPeer'
  <2> SUFFICES ASSUME NEW e \in End, NEW f \in End, state'[e] = "ready",
                      state'[f] = "ready", NodeOf(e)' = NodeOf(f)',
                      name'[e] = name'[f]
               PROVE  e = f
    BY DEF OneConnPerPeer
  <2>1. e[1] # c /\ f[1] # c
    BY <1>2
  <2>2. state[e] = "ready" /\ state[f] = "ready" /\ name[e] = name[f]
    BY <1>2, <2>1
  <2>3. e[1] \in Conn /\ f[1] \in Conn
    BY EndParts
  <2>4. link'[e[1]] = link[e[1]] /\ link'[f[1]] = link[f[1]]
    BY <1>2, <2>1, <2>3 DEF Inv, TypeOK
  <2>5. NodeOf(e) = NodeOf(f)
    BY <2>4 DEF NodeOf
  <2> QED
    BY <2>2, <2>5 DEF Inv, OneConnPerPeer
<1> QED
  BY <1>4, <1>5, <1>6, <1>7

-----------------------------------------------------------------------------
\* The steps of the XMPP side.
LEMMA XmppStep ==
    ASSUME Inv, NEW n \in Node, NEW p \in Node,
           PeerReturns(n, p) \/ jabber_new_peer(n, p) \/ ManualConnect(n, p)
    PROVE  Inv'
<1>1. CASE PeerReturns(n, p)
  <2>1. Linked' /\ OneConnPerPeer'
    BY <1>1, QuietKeeps DEF PeerReturns, endVars
  <2>2. budget' \in [{"reports", "manual", "breaks", "restarts", "pings"} -> Nat]
    BY <1>1, SpendType DEF PeerReturns, Inv
  <2>3. TypeOK'
    BY <1>1, <2>2 DEF PeerReturns, endVars, Inv, TypeOK
  <2> QED
    BY <2>1, <2>3 DEF Inv
<1>2. CASE jabber_new_peer(n, p)
  <2>1. Linked' /\ OneConnPerPeer'
    BY <1>2, QuietKeeps DEF jabber_new_peer, endVars
  <2>2. /\ m_peer_cookies' \in [Node -> [Cookie -> Node \cup {None}]]
        /\ drawn' \subseteq Cookie
        /\ adverts' \subseteq Advert
    <3>1. CASE Advertises(n, p) /\ Cookie \ drawn # {}
      <4> DEFINE k == Fresh(Cookie \ drawn)
      <4>1. k \in Cookie
        BY <3>1, FreshIn
      <4>2. CASE ~Advertises(n, p)
        BY <3>1, <4>2
      <4>3. /\ drawn' = drawn \cup {k}
            /\ m_peer_cookies' = [m_peer_cookies EXCEPT ![n][k] = p]
            /\ adverts' = adverts \cup {[from |-> n, to |-> p, cookie |-> k]}
        BY <1>2, <3>1 DEF jabber_new_peer
      <4>4. [from |-> n, to |-> p, cookie |-> k] \in Advert
        BY <4>1 DEF Advert
      <4> HIDE DEF k
      <4> QED
        BY <4>1, <4>3, <4>4 DEF Inv, TypeOK
    <3>2. CASE ~(Advertises(n, p) /\ Cookie \ drawn # {})
      BY <1>2, <3>2 DEF jabber_new_peer, Inv, TypeOK
    <3> QED
      BY <3>1, <3>2
  <2>3. TypeOK'
    BY <1>2, <2>2 DEF jabber_new_peer, endVars, Inv, TypeOK
  <2> QED
    BY <2>1, <2>3 DEF Inv
<1>3. CASE ManualConnect(n, p)
  <2>1. connect_to_peer(n, p, None)
    BY <1>3 DEF ManualConnect
  <2>2. /\ link' \in [Conn -> Link \cup {None}]
        /\ state' \in [End -> {"none", "new", "expect", "ready", "closed"}]
        /\ Linked' /\ OneConnPerPeer'
    BY <2>1, ConnectKeeps
  <2>3. budget' \in [{"reports", "manual", "breaks", "restarts", "pings"} -> Nat]
    BY <1>3, SpendType DEF ManualConnect, Inv
  <2>4. UNCHANGED <<name, inbox, watch, reports, m_peer_cookies, drawn, adverts>>
    BY <1>3, <2>1 DEF ManualConnect, connect_to_peer, xmppVars
  <2>5. TypeOK'
    BY <2>2, <2>3, <2>4 DEF Inv, TypeOK
  <2> QED
    BY <2>2, <2>5 DEF Inv
<1> QED
  BY <1>1, <1>2, <1>3

LEMMA AdvertStep ==
    ASSUME Inv, NEW a \in adverts, jabber_msg_received(a)
    PROVE  Inv'
<1>1. a \in Advert
  BY DEF Inv, TypeOK
<1>2. connect_to_peer(a.to, a.from, a.cookie)
  BY DEF jabber_msg_received
<1>3. a.to \in Node /\ a.from \in Node /\ a.cookie \in Cookie \cup {None}
  BY <1>1 DEF Advert
<1>4. /\ link' \in [Conn -> Link \cup {None}]
      /\ state' \in [End -> {"none", "new", "expect", "ready", "closed"}]
      /\ Linked' /\ OneConnPerPeer'
  BY <1>2, <1>3, ConnectKeeps
<1>5. UNCHANGED <<name, inbox, watch, reports, m_peer_cookies, drawn, budget>>
      /\ adverts' \subseteq adverts
  BY <1>2 DEF jabber_msg_received, connect_to_peer
<1>6. TypeOK'
  BY <1>4, <1>5 DEF Inv, TypeOK
<1> QED
  BY <1>4, <1>6 DEF Inv

-----------------------------------------------------------------------------
\* The steps of a connection.
LEMMA NewStep ==
    ASSUME Inv, NEW c \in Conn,
           new_incoming_connection(c) \/ new_outgoing_connection(c)
    PROVE  Inv'
<1>1. PICK s \in Side : /\ new_connection(<<c, s>>)
                        /\ inbox' = inbox \/ inbox' = send_ident(inbox, <<c, s>>)
  BY DEF new_incoming_connection, new_outgoing_connection, Side
<1> DEFINE e == <<c, s>>
<1>2. e \in End
  BY ConnEnds
<1> HIDE DEF e
<1>3. /\ state[e] = "new" /\ state' = [state EXCEPT ![e] = "expect"]
      /\ watch' \subseteq watch \cup {e}
      /\ UNCHANGED <<reports, m_peer_cookies, drawn, adverts, link, name, budget>>
  BY <1>1 DEF new_connection, xmppVars, e
<1>4. inbox' \in [End -> Seq(Message)]
  <2>1. send_ident(inbox, e) \in [End -> Seq(Message)]
    BY <1>2, <1>3, IdentType DEF Inv, TypeOK
  <2> QED
    BY <1>1, <2>1 DEF e, Inv, TypeOK
<1>5. TypeOK'
  BY <1>2, <1>3, <1>4 DEF Inv, TypeOK
<1>6. Linked' /\ OneConnPerPeer'
  <2>1. \A f \in End : state'[f] = "ready" => state[f] = "ready"
    BY <1>2, <1>3 DEF Inv, TypeOK
  <2>2. \A f \in End : state[f] = "none" => state'[f] = "none"
    BY <1>2, <1>3 DEF Inv, TypeOK
  <2> QED
    BY <1>3, <2>1, <2>2, QuietKeeps
<1> QED
  BY <1>5, <1>6 DEF Inv

\* A step that only closes ends.
LEMMA CloseStep ==
    ASSUME Inv, NEW es \in SUBSET End, Close(es), link' = link,
           \A e \in es : state[e] # "none" \/ link[e[1]] # None,
           reports' \subseteq Node \X Node,
           m_peer_cookies' \in [Node -> [Cookie -> Node \cup {None}]],
           drawn' = drawn, adverts' = adverts, watch' \subseteq watch,
           budget' \in [{"reports", "manual", "breaks", "restarts", "pings"} -> Nat]
    PROVE  Inv'
<1>1. /\ state' \in [End -> {"none", "new", "expect", "ready", "closed"}]
      /\ name' \in [End -> Node \cup {None}]
      /\ inbox' \in [End -> Seq(Message)]
      /\ Linked' /\ OneConnPerPeer'
  BY CloseKeeps
<1> QED
  BY <1>1 DEF Inv, TypeOK

LEMMA TimeoutStep ==
    ASSUME Inv, NEW e \in End, new_connection_timeout(e)
    PROVE  Inv'
<1>1. CASE state[e] = "expect" /\ Close({e})
  BY <1>1, CloseStep DEF new_connection_timeout, xmppVars, Inv, TypeOK
<1>2. CASE UNCHANGED endVars
  <2>1. Linked' /\ OneConnPerPeer'
    BY <1>2, QuietKeeps DEF new_connection_timeout, endVars
  <2>2. TypeOK'
    BY <1>2 DEF new_connection_timeout, endVars, xmppVars, Inv, TypeOK
  <2> QED
    BY <2>1, <2>2 DEF Inv
<1> QED
  BY <1>1, <1>2 DEF new_connection_timeout

\* The only step that makes an end ready does so when no other ready end
\* of the node has the name.
LEMMA IdentStep ==
    ASSUME Inv, NEW e \in End, expect_ident(e)
    PROVE  Inv'
<1> DEFINE m == Head(inbox[e])
<1>1. /\ state[e] = "expect" /\ inbox[e] # <<>>
      /\ UNCHANGED <<reports, m_peer_cookies, drawn, adverts, link, watch, budget>>
  BY DEF expect_ident, xmppVars
<1>2. CASE ~IdentAccepted(e, m)
  <2>1. Close({e})
    BY <1>2 DEF expect_ident
  <2> QED
    BY <1>1, <2>1, CloseStep DEF Inv, TypeOK
<1>3. CASE IdentAccepted(e, m)
  <2>1. /\ inbox' = Answered(e, Popped(e))
        /\ state' = [state EXCEPT ![e] = "ready"]
        /\ name' = [name EXCEPT ![e] = m.name]
    BY <1>3 DEF expect_ident
  <2>2. Popped(e) \in [End -> Seq(Message)] /\ m \in Message
    BY <1>1, PoppedType DEF Inv
  <2>3. m.name \in Node \cup {None}
    BY <2>2 DEF Message
  <2>4. inbox' \in [End -> Seq(Message)]
    BY <1>1, <2>1, <2>2, IdentType DEF Answered, Inv
  <2>5. TypeOK'
    BY <1>1, <2>1, <2>3, <2>4 DEF Inv, TypeOK
  <2>6. Linked'
    <3> SUFFICES ASSUME NEW c \in Conn, NEW s \in Side, link[c] = None
                 PROVE  state'[<<c, s>>] = "none"
      BY <1>1 DEF Linked
    <3>1. state[<<c, s>>] = "none"
      BY DEF Inv, Linked
    <3> QED
      BY <1>1, <2>1, <3>1, ConnEnds DEF Inv, TypeOK
  <2>7. OneConnPerPeer'
    <3>1. \A f \in End : ~(state[f] = "ready" /\ NodeOf(f) = NodeOf(e)
                           /\ name[f] = m.name)
      <4> SUFFICES ASSUME NEW f \in End, state[f] = "ready",
                          NodeOf(f) = NodeOf(e), name[f] = m.name
                   PROVE  FALSE
        OBVIOUS
      <4>1. link[f[1]] # None
        BY LinkOf DEF Inv
      <4>2. f \in get_connection_by_name(NodeOf(e), m.name)
        BY <4>1 DEF get_connection_by_name, EndsOf
      <4> QED
        BY <1>3, <4>2 DEF IdentAccepted, AlreadyConnected
    <3> SUFFICES ASSUME NEW f \in End, NEW g \in End, state'[f] = "ready",
                        state'[g] = "ready", NodeOf(f) = NodeOf(g),
                        name'[f] = name'[g]
                 PROVE  f = g
      BY <1>1 DEF OneConnPerPeer, NodeOf
    <3>2. \A h \in End : h # e => state'[h] = state[h] /\ name'[h] = name[h]
      BY <2>1 DEF Inv, TypeOK
    <3>3. name'[e] = m.name
      BY <2>1 DEF Inv, TypeOK
    <3>4. CASE f # e /\ g # e
      BY <3>2, <3>4 DEF Inv, OneConnPerPeer
    <3>5. CASE f = e /\ g # e
      BY <3>1, <3>2, <3>3, <3>5
    <3>6. CASE f # e /\ g = e
      BY <3>1, <3>2, <3>3, <3>6
    <3> QED
      BY <3>4, <3>5, <3>6
  <2> QED
    BY <2>5, <2>6, <2>7 DEF Inv
<1> QED
  BY <1>2, <1>3

LEMMA MessageStep ==
    ASSUME Inv, NEW e \in End, message_received(e)
    PROVE  Inv'
<1>1. Popped(e) \in [End -> Seq(Message)]
  BY PoppedType DEF message_received, Inv
<1>2. Written(Popped(e), e, PongMessage) \in [End -> Seq(Message)]
  BY <1>1, WrittenType, PingTypes
<1>3. inbox' \in [End -> Seq(Message)]
  BY <1>1, <1>2 DEF message_received
<1>4. Linked' /\ OneConnPerPeer'
  BY QuietKeeps DEF message_received
<1>5. TypeOK'
  BY <1>3 DEF message_received, xmppVars, Inv, TypeOK
<1> QED
  BY <1>4, <1>5 DEF Inv

LEMMA PingStep ==
    ASSUME Inv, NEW n \in Node, pingall(n)
    PROVE  Inv'
<1>1. inbox' \in [End -> Seq(Message)]
  BY PingTypes DEF pingall, Inv, TypeOK
<1>2. budget' \in [{"reports", "manual", "breaks", "restarts", "pings"} -> Nat]
  BY SpendType DEF pingall, Inv
<1>3. Linked' /\ OneConnPerPeer'
  BY QuietKeeps DEF pingall
<1>4. TypeOK'
  BY <1>1, <1>2 DEF pingall, xmppVars, Inv, TypeOK
<1> QED
  BY <1>3, <1>4 DEF Inv

LEMMA FailureStep ==
    ASSUME Inv, NEW e \in End, Break(e) \/ peer_closed(e)
    PROVE  Inv'
<1>1. state[e] # "none" /\ Close({e})
  BY DEF Break, peer_closed, Live
<1>2. /\ UNCHANGED <<reports, m_peer_cookies, drawn, adverts, link, watch>>
      /\ Spend("breaks") \/ budget' = budget
  BY DEF Break, peer_closed, xmppVars
<1>3. budget' \in [{"reports", "manual", "breaks", "restarts", "pings"} -> Nat]
  BY <1>2, SpendType DEF Inv, TypeOK
<1> QED
  BY <1>1, <1>2, <1>3, CloseStep DEF Inv, TypeOK

LEMMA RestartStep ==
    ASSUME Inv, NEW n \in Node, Restart(n)
    PROVE  Inv'
<1>1. EndsOf(n) \in SUBSET End /\ \A e \in EndsOf(n) : link[e[1]] # None
  BY DEF EndsOf
<1>2. m_peer_cookies' \in [Node -> [Cookie -> Node \cup {None}]]
  BY DEF Restart, Inv, TypeOK
<1>3. budget' \in [{"reports", "manual", "breaks", "restarts", "pings"} -> Nat]
  BY SpendType DEF Restart, Inv
<1>4. reports' \subseteq Node \X Node
  BY DEF Restart, Inv, TypeOK
<1>5. /\ Close(EndsOf(n)) /\ UNCHANGED <<drawn, adverts, link>>
      /\ watch' \subseteq watch
  BY DEF Restart
<1> QED
  BY <1>1, <1>2, <1>3, <1>4, <1>5, CloseStep

-----------------------------------------------------------------------------
LEMMA Step == Inv /\ [Next]_vars => Inv'
<1> SUFFICES ASSUME Inv, [Next]_vars PROVE Inv'
  OBVIOUS
<1>1. CASE UNCHANGED vars
  <2>1. Linked' /\ OneConnPerPeer'
    BY <1>1, QuietKeeps DEF vars
  <2>2. TypeOK'
    BY <1>1 DEF vars, Inv, TypeOK
  <2> QED
    BY <2>1, <2>2 DEF Inv
<1>2. CASE Next
  BY <1>2, XmppStep, AdvertStep, NewStep, TimeoutStep, IdentStep, MessageStep,
     PingStep, FailureStep, RestartStep DEF Next
<1> QED
  BY <1>1, <1>2

\* The inductive invariant: types, no state before a connection exists, and
\* one ready connection per name.
THEOREM Invariance == Spec => []Inv
<1>1. Init => Inv
  BY Initial
<1>2. Inv /\ [Next]_vars => Inv'
  BY Step
<1> QED
  BY <1>1, <1>2, PTL DEF Spec

\* Every variable keeps its type.
THEOREM TypeCorrect == Spec => []TypeOK
<1>1. Inv => TypeOK
  BY DEF Inv
<1> QED
  BY <1>1, Invariance, PTL

\* Whatever advertisements cross, repeat or get stale, and whichever nodes
\* restart, no node is ready twice with the same peer: expect_ident looks
\* the name up in the same step in which it sets it.
THEOREM OnePerPeer == Spec => []OneConnPerPeer
<1>1. Inv => OneConnPerPeer
  BY DEF Inv
<1> QED
  BY <1>1, Invariance, PTL

-----------------------------------------------------------------------------
(* What is on its way between the two ends of a connection.                *)

Dialler(c) == <<c, "out">>
Acceptor(c) == <<c, "in">>

\* An end that is not ready has at most one IDENT, in front of the rest, to
\* read; a ready one has none.
Queue(e) ==
    /\ state[e] \in {"none", "closed"} => inbox[e] = <<>>
    /\ \A k \in 2..Len(inbox[e]) : inbox[e][k].type # "IDENT"
    /\ inbox[e] # <<>> => (state[e] = "ready" <=> inbox[e][1].type # "IDENT")

\* The dialling end speaks first, the accepting end is ready first.
Turns(c) ==
    /\ state[Dialler(c)] \in {"none", "new"} =>
           inbox[Acceptor(c)] = <<>> /\ state[Acceptor(c)] # "ready"
    /\ state[Acceptor(c)] \in {"none", "new", "expect"} =>
           inbox[Dialler(c)] = <<>> /\ state[Dialler(c)] # "ready"
    /\ state[Acceptor(c)] = "ready" =>
           \/ state[Dialler(c)] \in {"ready", "closed"}
           \/ state[Dialler(c)] = "expect" /\ inbox[Dialler(c)] # <<>>

\* The IDENT of the dialling end bears its name and the cookie it was sent.
Introduces(c) ==
    \A k \in 1..Len(inbox[Acceptor(c)]) : inbox[Acceptor(c)][k].type = "IDENT" =>
        /\ inbox[Acceptor(c)][k].name = link[c].from
        /\ inbox[Acceptor(c)][k].cookie = link[c].cookie

Exchange(c) == Queue(Dialler(c)) /\ Queue(Acceptor(c)) /\ Turns(c) /\ Introduces(c)

\* A cookie is drawn once, and for the node it is sent to; whoever made it
\* may have forgotten it since.
CookieOf(n, k, p) == k \in drawn /\ m_peer_cookies[n][k] \in {p, None}

CookiesDrawn == \A n \in Node, k \in Cookie : m_peer_cookies[n][k] # None => k \in drawn

CookiesFit ==
    /\ \A ad \in adverts : CookieOf(ad.from, ad.cookie, ad.to)
    /\ \A c \in Conn : (link[c] # None /\ link[c].cookie # None) =>
           CookieOf(link[c].to, link[c].cookie, link[c].from)

\* The name of a ready incoming connection is the one it was dialled from.
NamedRight ==
    \A c \in Conn : state[Acceptor(c)] = "ready" =>
        /\ name[Acceptor(c)] = link[c].from
        /\ link[c].cookie # None
        /\ m_peer_cookies[link[c].to][link[c].cookie] # None

CookieInv == CookiesDrawn /\ CookiesFit /\ NamedRight

ExchangeInv == (\A c \in Conn : Exchange(c)) /\ CookieInv

-----------------------------------------------------------------------------
LEMMA TwoEnds ==
    ASSUME NEW c \in Conn
    PROVE  /\ Dialler(c) \in End /\ Acceptor(c) \in End /\ Dialler(c) # Acceptor(c)
           /\ Other(Dialler(c)) = Acceptor(c) /\ Other(Acceptor(c)) = Dialler(c)
           /\ Dialler(c)[1] = c /\ Acceptor(c)[1] = c
           /\ Dialler(c)[2] = "out" /\ Acceptor(c)[2] = "in"
BY DEF Dialler, Acceptor, End, Side, Other

LEMMA EndIsOne ==
    ASSUME NEW e \in End
    PROVE  /\ e[1] \in Conn /\ e \in {Dialler(e[1]), Acceptor(e[1])}
           /\ Other(e) \in {Dialler(e[1]), Acceptor(e[1])}
BY DEF Dialler, Acceptor, End, Side, Other

LEMMA MessageAppended ==
    ASSUME NEW s \in Seq(Message), NEW m \in Message
    PROVE  /\ Append(s, m) \in Seq(Message) /\ Append(s, m) # <<>>
           /\ Len(Append(s, m)) = Len(s) + 1 /\ Len(s) \in Nat
           /\ \A k \in 1..Len(s) : Append(s, m)[k] = s[k]
           /\ Append(s, m)[Len(s) + 1] = m
           /\ s # <<>> => Len(s) >= 1
<1>1. /\ Append(s, m) \in Seq(Message) /\ Len(Append(s, m)) = Len(s) + 1 /\ Len(s) \in Nat
      /\ \A k \in 1..Len(s) : Append(s, m)[k] = s[k]
      /\ Append(s, m)[Len(s) + 1] = m
  OBVIOUS
<1>2. Append(s, m) # <<>> /\ (s # <<>> => Len(s) \in Nat \ {0})
  BY <1>1, EmptySeq
<1> QED
  BY <1>1, <1>2

LEMMA MessagePopped ==
    ASSUME NEW s \in Seq(Message), s # <<>>
    PROVE  /\ Tail(s) \in Seq(Message) /\ Head(s) \in Message /\ Head(s) = s[1]
           /\ Len(Tail(s)) = Len(s) - 1 /\ Len(s) \in Nat \ {0}
           /\ \A k \in 1..Len(s) - 1 : Tail(s)[k] = s[k+1]
           /\ Tail(s) # <<>> => Len(s) >= 2
<1>1. Tail(s) \in Seq(Message) /\ Len(Tail(s)) = Len(s) - 1 /\ Len(s) \in Nat \ {0}
  OBVIOUS
<1>2. Tail(s) # <<>> => Len(Tail(s)) \in Nat \ {0}
  BY <1>1, EmptySeq
<1> QED
  BY <1>1, <1>2

\* What is said of a connection depends on its own two ends.
LEMMA ExchangeKept ==
    ASSUME NEW c \in Conn, Exchange(c), link'[c] = link[c],
           state'[Dialler(c)] = state[Dialler(c)], state'[Acceptor(c)] = state[Acceptor(c)],
           inbox'[Dialler(c)] = inbox[Dialler(c)], inbox'[Acceptor(c)] = inbox[Acceptor(c)]
    PROVE  Exchange(c)'
<1>1. Queue(Dialler(c))' /\ Queue(Acceptor(c))'
  BY DEF Exchange, Queue, Dialler, Acceptor
<1>2. Turns(c)'
  BY DEF Exchange, Turns, Dialler, Acceptor
<1>3. Introduces(c)'
  BY DEF Exchange, Introduces, Dialler, Acceptor
<1> QED
  BY <1>1, <1>2, <1>3 DEF Exchange

LEMMA CloseExchange ==
    ASSUME TypeOK, NEW es \in SUBSET End, Close(es), link' = link,
           NEW c \in Conn, Exchange(c)
    PROVE  Exchange(c)'
<1> DEFINE o == Dialler(c)
           i == Acceptor(c)
<1>1. o \in End /\ i \in End
  BY TwoEnds
<1>2. ASSUME NEW e \in End, e \in es
      PROVE  state'[e] = "closed" /\ inbox'[e] = <<>>
  BY <1>2 DEF Close
<1>3. ASSUME NEW e \in End, e \notin es
      PROVE  state'[e] = state[e] /\ inbox'[e] = inbox[e]
  BY <1>3 DEF Close
<1>4. ASSUME NEW e \in End, Queue(e) PROVE Queue(e)'
  <2>1. CASE e \in es
    <3>1. state'[e] = "closed" /\ inbox'[e] = <<>>
      BY <1>2, <2>1
    <3> QED
      BY <3>1 DEF Queue
  <2>2. CASE e \notin es
    <3>1. state'[e] = state[e] /\ inbox'[e] = inbox[e]
      BY <1>3, <2>2
    <3> QED
      BY <1>4, <3>1 DEF Queue
  <2> QED
    BY <2>1, <2>2
<1>5. /\ \/ state'[o] = "closed" /\ inbox'[o] = <<>>
         \/ state'[o] = state[o] /\ inbox'[o] = inbox[o]
      /\ \/ state'[i] = "closed" /\ inbox'[i] = <<>>
         \/ state'[i] = state[i] /\ inbox'[i] = inbox[i]
  BY <1>1, <1>2, <1>3
<1>6. Turns(c)'
  <2> HIDE DEF o, i
  <2>2. CASE state'[o] = "closed"
    BY <1>5, <2>2 DEF Exchange, Turns, o, i
  <2>3. CASE state'[o] = state[o] /\ inbox'[o] = inbox[o]
    BY <1>5, <2>3 DEF Exchange, Turns, o, i
  <2> QED
    BY <1>5, <2>2, <2>3
<1>7. Introduces(c)'
  <2>1. inbox'[i] = <<>> \/ inbox'[i] = inbox[i]
    BY <1>5
  <2> HIDE DEF o, i
  <2> QED
    BY <2>1 DEF Exchange, Introduces, i
<1> QED
  BY <1>1, <1>4, <1>6, <1>7 DEF Exchange, Dialler, Acceptor

LEMMA QueueFirst ==
    ASSUME NEW e \in End, NEW m \in Message, m.type = "IDENT", inbox[e] = <<>>,
           inbox'[e] = Append(inbox[e], m), state'[e] \in {"new", "expect"}
    PROVE  Queue(e)'
<1>1. inbox'[e] = <<m>>
  OBVIOUS
<1> QED
  BY <1>1 DEF Queue

LEMMA QueueMore ==
    ASSUME TypeOK, NEW e \in End, Queue(e), NEW m \in Message, m.type # "IDENT",
           inbox'[e] = Append(inbox[e], m), state'[e] = state[e],
           state[e] = "ready" \/ inbox[e] # <<>>
    PROVE  Queue(e)'
<1> DEFINE n == Len(inbox[e])
<1>1. inbox[e] \in Seq(Message)
  BY DEF TypeOK
<1>2. /\ n \in Nat /\ Len(inbox'[e]) = n + 1 /\ inbox'[e][n + 1] = m
      /\ \A k \in 1..n : inbox'[e][k] = inbox[e][k]
      /\ inbox[e] # <<>> => n >= 1
  BY <1>1, MessageAppended
<1>3. state'[e] \notin {"none", "closed"}
  BY DEF Queue
<1>4. ASSUME NEW k \in 2..Len(inbox'[e]) PROVE inbox'[e][k].type # "IDENT"
  <2>1. CASE k = n + 1
    BY <1>2, <2>1
  <2>2. CASE k \in 2..n
    BY <1>2, <2>2 DEF Queue
  <2> QED
    BY <1>2, <2>1, <2>2
<1>5. state'[e] = "ready" <=> inbox'[e][1].type # "IDENT"
  <2>1. CASE inbox[e] = <<>>
    BY <1>2, <2>1
  <2>2. CASE inbox[e] # <<>>
    BY <1>2, <2>2 DEF Queue
  <2> QED
    BY <2>1, <2>2
<1> QED
  BY <1>3, <1>4, <1>5 DEF Queue

LEMMA QueueLess ==
    ASSUME TypeOK, NEW e \in End, Queue(e), inbox[e] # <<>>,
           inbox'[e] = Tail(inbox[e]), state'[e] = "ready"
    PROVE  Queue(e)'
<1> DEFINE n == Len(inbox[e])
<1>1. inbox[e] \in Seq(Message)
  BY DEF TypeOK
<1>2. /\ n \in Nat \ {0} /\ Len(inbox'[e]) = n - 1
      /\ \A k \in 1..n - 1 : inbox'[e][k] = inbox[e][k+1]
      /\ inbox'[e] # <<>> => n >= 2
  BY <1>1, MessagePopped
<1>3. ASSUME NEW k \in 1..n - 1 PROVE inbox'[e][k].type # "IDENT"
  <2>1. k + 1 \in 2..n
    BY <1>2
  <2> QED
    BY <1>2, <2>1 DEF Queue
<1>4. ASSUME inbox'[e] # <<>> PROVE inbox'[e][1].type # "IDENT"
  <2>1. 1 \in 1..n - 1
    BY <1>2, <1>4
  <2> QED
    BY <1>3, <2>1
<1> QED
  BY <1>2, <1>3, <1>4 DEF Queue

\* What is read or added and is no IDENT says nothing new of the dialler.
LEMMA IntroducesLess ==
    ASSUME TypeOK, NEW c \in Conn, Introduces(c), link'[c] = link[c],
           inbox[Acceptor(c)] # <<>>, inbox'[Acceptor(c)] = Tail(inbox[Acceptor(c)])
    PROVE  Introduces(c)'
<1> DEFINE e == Acceptor(c)
<1>1. e \in End /\ inbox[e] \in Seq(Message)
  BY TwoEnds DEF TypeOK
<1>2. Len(inbox'[e]) = Len(inbox[e]) - 1 /\ Len(inbox[e]) \in Nat \ {0}
      /\ \A k \in 1..Len(inbox[e]) - 1 : inbox'[e][k] = inbox[e][k+1]
  BY <1>1, MessagePopped
<1>3. ASSUME NEW k \in 1..Len(inbox'[e]), inbox'[e][k].type = "IDENT"
      PROVE  inbox'[e][k].name = link[c].from /\ inbox'[e][k].cookie = link[c].cookie
  <2>1. k + 1 \in 1..Len(inbox[e]) /\ inbox'[e][k] = inbox[e][k+1]
    BY <1>2
  <2> QED
    BY <1>3, <2>1 DEF Introduces
<1> QED
  BY <1>3 DEF Introduces, Acceptor

LEMMA IntroducesMore ==
    ASSUME TypeOK, NEW c \in Conn, Introduces(c), link'[c] = link[c], NEW m \in Message,
           m.type = "IDENT" => m.name = link[c].from /\ m.cookie = link[c].cookie,
           inbox'[Acceptor(c)] = Append(inbox[Acceptor(c)], m)
    PROVE  Introduces(c)'
<1> DEFINE e == Acceptor(c)
<1>1. e \in End /\ inbox[e] \in Seq(Message)
  BY TwoEnds DEF TypeOK
<1>2. /\ Len(inbox'[e]) = Len(inbox[e]) + 1 /\ Len(inbox[e]) \in Nat
      /\ inbox'[e][Len(inbox[e]) + 1] = m
      /\ \A k \in 1..Len(inbox[e]) : inbox'[e][k] = inbox[e][k]
  BY <1>1, MessageAppended
<1>3. ASSUME NEW k \in 1..Len(inbox'[e]), inbox'[e][k].type = "IDENT"
      PROVE  inbox'[e][k].name = link[c].from /\ inbox'[e][k].cookie = link[c].cookie
  <2>1. CASE k \in 1..Len(inbox[e])
    BY <1>2, <1>3, <2>1 DEF Introduces
  <2>2. CASE k = Len(inbox[e]) + 1
    BY <1>2, <1>3, <2>2
  <2> QED
    BY <1>2, <2>1, <2>2
<1> QED
  BY <1>3 DEF Introduces, Acceptor

\* A step of the end e of a connection leaves the others alone.
LEMMA OthersKept ==
    ASSUME NEW e \in End, NEW c \in Conn, c # e[1], Exchange(c), link'[c] = link[c],
           \A f \in End : f[1] # e[1] => state'[f] = state[f] /\ inbox'[f] = inbox[f]
    PROVE  Exchange(c)'
BY TwoEnds, ExchangeKept

LEMMA WrittenTo ==
    ASSUME NEW ib \in [End -> Seq(Message)], NEW e \in End, NEW f \in End, Other(e) = f,
           e # f, NEW m \in Message
    PROVE  /\ Written(ib, e, m)[f] = IF Live(f) THEN Append(ib[f], m) ELSE ib[f]
           /\ Written(ib, e, m)[e] = ib[e]
BY DEF Written

LEMMA PoppedOf ==
    ASSUME TypeOK, NEW e \in End
    PROVE  /\ Popped(e)[e] = Tail(inbox[e])
           /\ \A f \in End : f # e => Popped(e)[f] = inbox[f]
BY DEF TypeOK, Popped

-----------------------------------------------------------------------------
(* The steps of a connection.                                              *)

LEMMA IncomingExchange ==
    ASSUME Inv, NEW d \in Conn, Exchange(d), new_incoming_connection(d)
    PROVE  Exchange(d)'
<1> DEFINE o == Dialler(d)
           i == Acceptor(d)
<1>1. /\ o \in End /\ i \in End /\ o # i
      /\ state[i] = "new" /\ state' = [state EXCEPT ![i] = "expect"]
      /\ UNCHANGED <<inbox, link>>
  BY TwoEnds DEF new_incoming_connection, new_connection, Acceptor
<1>2. state'[i] = "expect" /\ state'[o] = state[o] /\ inbox' = inbox /\ link' = link
  BY <1>1 DEF Inv, TypeOK
<1>3. Queue(o)' /\ Queue(i)'
  BY <1>1, <1>2 DEF Exchange, Queue, Dialler, Acceptor
<1>4. Turns(d)'
  BY <1>1, <1>2 DEF Exchange, Turns, Dialler, Acceptor
<1>5. Introduces(d)'
  BY <1>2 DEF Exchange, Introduces, Dialler, Acceptor
<1> QED
  BY <1>3, <1>4, <1>5 DEF Exchange, Dialler, Acceptor

LEMMA OutgoingExchange ==
    ASSUME Inv, NEW d \in Conn, Exchange(d), new_outgoing_connection(d)
    PROVE  Exchange(d)'
<1> DEFINE o == Dialler(d)
           i == Acceptor(d)
           m == IdentMessage(NodeOf(o), link[o[1]].cookie)
<1>1. /\ o \in End /\ i \in End /\ o # i /\ Other(o) = i /\ o[1] = d /\ o[2] = "out"
      /\ state[o] = "new" /\ state' = [state EXCEPT ![o] = "expect"]
      /\ inbox' = send_ident(inbox, o) /\ UNCHANGED link
  BY TwoEnds DEF new_outgoing_connection, new_connection, Dialler
<1>2. state'[o] = "expect" /\ state'[i] = state[i] /\ link' = link
  BY <1>1 DEF Inv, TypeOK
<1>3. /\ m \in Message /\ m.type = "IDENT" /\ m.name = link[d].from /\ m.cookie = link[d].cookie
      /\ inbox' = Written(inbox, o, m)
  <2>1. link[d] \in Link /\ NodeOf(o) = link[d].from
    BY <1>1, LinkOf DEF Inv, NodeOf
  <2> QED
    BY <1>1, <2>1 DEF IdentMessage, Message, Link, send_ident
<1> HIDE DEF m
<1>4. /\ inbox'[o] = inbox[o]
      /\ inbox'[i] = IF Live(i) THEN Append(inbox[i], m) ELSE inbox[i]
  <2> HIDE DEF o, i
  <2>1. inbox \in [End -> Seq(Message)] /\ m \in Message
    BY <1>3 DEF Inv, TypeOK
  <2>2. /\ Written(inbox, o, m)[i] = IF Live(i) THEN Append(inbox[i], m) ELSE inbox[i]
        /\ Written(inbox, o, m)[o] = inbox[o]
    BY <1>1, <2>1, WrittenTo
  <2> QED
    BY <1>3, <2>2
<1>5. inbox[i] = <<>> /\ state[i] # "ready"
  BY <1>1 DEF Exchange, Turns, Dialler, Acceptor
<1>6. Queue(o)'
  BY <1>1, <1>2, <1>4 DEF Exchange, Queue, Dialler
<1>7. Turns(d)'
  BY <1>1, <1>2, <1>4, <1>5 DEF Exchange, Turns, Dialler, Acceptor
<1>8. Queue(i)' /\ Introduces(d)'
  <2>1. CASE Live(i)
    <3>1. state[i] \in {"new", "expect"}
      BY <1>1, <1>5, <2>1 DEF Live, Inv, TypeOK
    <3>2. Queue(i)'
      BY <1>1, <1>2, <1>3, <1>4, <1>5, <2>1, <3>1, QueueFirst
    <3>3. Introduces(d)'
      BY <1>2, <1>3, <1>4, <2>1, IntroducesMore DEF Exchange, Inv, Acceptor
    <3> QED
      BY <3>2, <3>3
  <2>2. CASE ~Live(i)
    BY <1>2, <1>4, <1>5, <2>2 DEF Exchange, Queue, Introduces, Acceptor
  <2> QED
    BY <2>1, <2>2
<1> QED
  BY <1>6, <1>7, <1>8 DEF Exchange, Dialler, Acceptor

\* The accepting end takes the IDENT and answers.
LEMMA AcceptExchange ==
    ASSUME Inv, NEW d \in Conn, Exchange(d), expect_ident(Acceptor(d)),
           IdentAccepted(Acceptor(d), Head(inbox[Acceptor(d)]))
    PROVE  Exchange(d)'
<1> DEFINE o == Dialler(d)
           i == Acceptor(d)
           m == IdentMessage(NodeOf(i), None)
<1>1. /\ o \in End /\ i \in End /\ o # i /\ Other(i) = o /\ i[1] = d /\ i[2] = "in"
      /\ state[i] = "expect" /\ inbox[i] # <<>> /\ state' = [state EXCEPT ![i] = "ready"]
      /\ inbox' = send_ident(Popped(i), i) /\ UNCHANGED link
  BY TwoEnds DEF expect_ident, Answered, Acceptor
<1>2. state'[i] = "ready" /\ state'[o] = state[o] /\ link' = link
  BY <1>1 DEF Inv, TypeOK
<1>3. m \in Message /\ m.type = "IDENT" /\ inbox' = Written(Popped(i), i, m)
  <2>1. NodeOf(i) \in Node
    BY <1>1, LinkOf DEF Inv
  <2> QED
    BY <1>1, <2>1 DEF IdentMessage, Message, send_ident
<1> HIDE DEF m
<1>4. /\ inbox'[i] = Tail(inbox[i])
      /\ inbox'[o] = IF Live(o) THEN Append(inbox[o], m) ELSE inbox[o]
  <2>1. Popped(i) \in [End -> Seq(Message)]
    BY <1>1, PoppedType DEF Inv
  <2>2. Popped(i)[i] = Tail(inbox[i]) /\ Popped(i)[o] = inbox[o]
    BY <1>1, PoppedOf DEF Inv
  <2> HIDE DEF o, i
  <2>3. /\ Written(Popped(i), i, m)[o] = IF Live(o) THEN Append(Popped(i)[o], m) ELSE Popped(i)[o]
        /\ Written(Popped(i), i, m)[i] = Popped(i)[i]
    BY <1>1, <1>3, <2>1, WrittenTo
  <2> QED
    BY <1>3, <2>2, <2>3
<1>5. /\ inbox[o] = <<>> /\ state[o] \in {"expect", "closed"}
  <2>1. inbox[o] = <<>> /\ state[o] # "ready" /\ state[o] \notin {"none", "new"}
    BY <1>1 DEF Exchange, Turns, Dialler, Acceptor
  <2> QED
    BY <1>1, <2>1 DEF Inv, TypeOK
<1>6. Queue(i)' /\ Introduces(d)'
  BY <1>1, <1>2, <1>4, QueueLess, IntroducesLess DEF Exchange, Inv, Acceptor
<1>7. Queue(o)' /\ (Live(o) => inbox'[o] # <<>>)
  <2>1. CASE Live(o)
    <3>1. inbox'[o] = Append(<<>>, m)
      BY <1>4, <1>5, <2>1
    <3>2. Queue(o)'
      BY <1>1, <1>2, <1>3, <1>5, <3>1, <2>1, QueueFirst DEF Live
    <3> QED
      BY <3>1, <3>2
  <2>2. CASE ~Live(o)
    BY <1>2, <1>4, <1>5, <2>2 DEF Queue, Dialler
  <2> QED
    BY <2>1, <2>2
<1>8. Turns(d)'
  BY <1>2, <1>5, <1>7 DEF Turns, Live, Dialler, Acceptor
<1> QED
  BY <1>6, <1>7, <1>8 DEF Exchange, Dialler, Acceptor

\* The dialling end takes the answer.
LEMMA AnswerExchange ==
    ASSUME Inv, NEW d \in Conn, Exchange(d), expect_ident(Dialler(d)),
           IdentAccepted(Dialler(d), Head(inbox[Dialler(d)]))
    PROVE  Exchange(d)'
<1> DEFINE o == Dialler(d)
           i == Acceptor(d)
<1>1. /\ o \in End /\ i \in End /\ o # i /\ o[2] = "out"
      /\ state[o] = "expect" /\ inbox[o] # <<>> /\ state' = [state EXCEPT ![o] = "ready"]
      /\ inbox' = Popped(o) /\ UNCHANGED link
  BY TwoEnds DEF expect_ident, Answered, Dialler
<1>2. /\ state'[o] = "ready" /\ state'[i] = state[i] /\ link' = link
      /\ inbox'[o] = Tail(inbox[o]) /\ inbox'[i] = inbox[i]
  BY <1>1, PoppedOf DEF Inv, TypeOK
<1>3. state[i] \in {"ready", "closed"}
  BY <1>1 DEF Exchange, Turns, Dialler, Acceptor, Inv, TypeOK
<1>4. Queue(o)'
  BY <1>1, <1>2, QueueLess DEF Exchange, Inv
<1>5. Queue(i)' /\ Introduces(d)'
  BY <1>2 DEF Exchange, Queue, Introduces, Acceptor
<1>6. Turns(d)'
  BY <1>2, <1>3 DEF Turns, Dialler, Acceptor
<1> QED
  BY <1>4, <1>5, <1>6 DEF Exchange, Dialler, Acceptor

\* What a ready end sends finds the other one ready, or behind an IDENT.
LEMMA ReadyIsHeard ==
    ASSUME TypeOK, NEW d \in Conn, Exchange(d)
    PROVE  /\ state[Acceptor(d)] = "ready" /\ Live(Dialler(d)) =>
                  state[Dialler(d)] = "ready" \/ inbox[Dialler(d)] # <<>>
           /\ state[Dialler(d)] = "ready" /\ Live(Acceptor(d)) => state[Acceptor(d)] = "ready"
<1>1. Acceptor(d) \in End
  BY TwoEnds
<1> QED
  BY <1>1 DEF Exchange, Turns, Live, TypeOK

\* More PINGs and PONGs between ready ends.
LEMMA MoreExchange ==
    ASSUME Inv, NEW d \in Conn, Exchange(d), state' = state, link' = link,
           NEW m \in Message, m.type # "IDENT",
           \A e \in {Dialler(d), Acceptor(d)} :
               \/ inbox'[e] = inbox[e]
               \/ inbox'[e] = Append(inbox[e], m) /\ Live(e) /\ state[Other(e)] = "ready"
    PROVE  Exchange(d)'
<1> DEFINE o == Dialler(d)
           i == Acceptor(d)
<1>1. o \in End /\ i \in End /\ Other(o) = i /\ Other(i) = o
  BY TwoEnds
<1>2. inbox[o] \in Seq(Message) /\ inbox[i] \in Seq(Message)
  BY <1>1 DEF Inv, TypeOK
<1>3. \/ inbox'[o] = inbox[o]
      \/ /\ inbox'[o] = Append(inbox[o], m) /\ inbox'[o] # <<>>
         /\ Live(o) /\ state[i] = "ready" /\ (state[o] = "ready" \/ inbox[o] # <<>>)
  BY <1>1, <1>2, MessageAppended, ReadyIsHeard DEF Inv
<1>4. \/ inbox'[i] = inbox[i]
      \/ inbox'[i] = Append(inbox[i], m) /\ state[o] = "ready" /\ state[i] = "ready"
  BY <1>1, ReadyIsHeard DEF Inv
<1>5. Queue(o)'
  <2>1. CASE inbox'[o] = inbox[o]
    BY <2>1 DEF Exchange, Queue, Dialler
  <2>2. CASE /\ inbox'[o] = Append(inbox[o], m)
             /\ (state[o] = "ready" \/ inbox[o] # <<>>)
    <3>1. Queue(o) /\ TypeOK /\ state'[o] = state[o]
      BY DEF Exchange, Inv
    <3> QED
      BY <1>1, <2>2, <3>1, QueueMore
  <2> QED
    BY <1>3, <2>1, <2>2
<1>6. Queue(i)'
  <2>1. CASE inbox'[i] = inbox[i]
    BY <2>1 DEF Exchange, Queue, Acceptor
  <2> QED
    BY <1>1, <1>4, <2>1, QueueMore DEF Exchange, Inv
<1>7. Introduces(d)'
  <2>1. CASE inbox'[i] = inbox[i]
    BY <2>1 DEF Exchange, Introduces, Acceptor
  <2> QED
    BY <1>4, <2>1, IntroducesMore DEF Exchange, Inv, Acceptor
<1>8. Turns(d)'
  BY <1>3, <1>4 DEF Exchange, Turns, Dialler, Acceptor
<1> QED
  BY <1>5, <1>6, <1>7, <1>8 DEF Exchange, Dialler, Acceptor

LEMMA MessageExchange ==
    ASSUME Inv, NEW e \in End, message_received(e), Exchange(e[1])
    PROVE  Exchange(e[1])'
<1> DEFINE d == e[1]
           f == Other(e)
<1>1. /\ d \in Conn /\ f \in End /\ f # e /\ Other(f) = e
      /\ \/ e = Dialler(d) /\ f = Acceptor(d)
         \/ e = Acceptor(d) /\ f = Dialler(d)
  BY EndIsOne, TwoEnds
<1>2. /\ state[e] = "ready" /\ inbox[e] # <<>> /\ state' = state /\ link' = link
      /\ inbox' = Popped(e) \/ inbox' = Written(Popped(e), e, PongMessage)
  BY DEF message_received
<1> HIDE DEF d, f
<1>3. Popped(e)[e] = Tail(inbox[e]) /\ Popped(e)[f] = inbox[f]
  BY <1>1, PoppedOf DEF Inv
<1>4. /\ PongMessage \in Message /\ PongMessage.type # "IDENT"
      /\ Popped(e) \in [End -> Seq(Message)]
  BY <1>2, PingTypes, PoppedType DEF Inv, PongMessage
<1>5. /\ inbox'[e] = Tail(inbox[e])
      /\ \/ inbox'[f] = inbox[f]
         \/ inbox'[f] = Append(inbox[f], PongMessage) /\ Live(f)
  <2>1. /\ Written(Popped(e), e, PongMessage)[f] =
              IF Live(f) THEN Append(Popped(e)[f], PongMessage) ELSE Popped(e)[f]
        /\ Written(Popped(e), e, PongMessage)[e] = Popped(e)[e]
    BY <1>1, <1>4, WrittenTo DEF f
  <2> QED
    BY <1>2, <1>3, <2>1
<1>6. Exchange(d) /\ Queue(e) /\ Queue(f)
  BY <1>1 DEF d, Exchange
<1>7. Live(f) => state[f] = "ready" \/ inbox[f] # <<>>
  BY <1>1, <1>2, <1>6, ReadyIsHeard DEF Inv
<1>8. Queue(e)'
  BY <1>2, <1>5, <1>6, QueueLess DEF Inv
<1>9. Queue(f)' /\ (inbox[f] # <<>> => inbox'[f] # <<>>) /\ (~Live(f) => inbox'[f] = inbox[f])
  <2>1. CASE inbox'[f] = inbox[f]
    <3>1. Queue(f)'
      BY <1>2, <1>6, <2>1 DEF Queue
    <3> QED
      BY <2>1, <3>1
  <2>2. CASE inbox'[f] = Append(inbox[f], PongMessage) /\ Live(f)
    <3>1. inbox[f] \in Seq(Message) /\ TypeOK
      BY <1>1 DEF Inv, TypeOK
    <3>2. Queue(f)'
      BY <1>1, <1>2, <1>4, <1>6, <1>7, <2>2, <3>1, QueueMore
    <3> QED
      BY <1>4, <2>2, <3>1, <3>2, MessageAppended
  <2> QED
    BY <1>5, <2>1, <2>2
<1>10. Turns(d)' /\ Introduces(d)'
  <2>1. CASE e = Dialler(d) /\ f = Acceptor(d)
    <3>1. Live(f) => state[f] = "ready"
      BY <1>1, <1>2, <1>6, <2>1, ReadyIsHeard DEF Inv
    <3>2. Turns(d)'
      BY <1>2, <1>5, <1>6, <1>9, <2>1, <3>1 DEF Exchange, Turns, Dialler, Acceptor
    <3>3. CASE inbox'[f] = inbox[f]
      BY <1>2, <1>6, <2>1, <3>2, <3>3 DEF Exchange, Introduces, Dialler, Acceptor
    <3>4. CASE inbox'[f] = Append(inbox[f], PongMessage)
      BY <1>1, <1>2, <1>4, <1>6, <2>1, <3>2, <3>4, IntroducesMore DEF Exchange, Inv
    <3> QED
      BY <1>5, <3>3, <3>4
  <2>2. CASE e = Acceptor(d) /\ f = Dialler(d)
    <3>1. state[f] \notin {"none", "new"}
      BY <1>2, <1>6, <2>2 DEF Exchange, Turns, Dialler, Acceptor
    <3>2. Turns(d)'
      BY <1>2, <1>5, <1>6, <1>9, <2>2, <3>1 DEF Exchange, Turns, Dialler, Acceptor
    <3>3. Introduces(d)'
      BY <1>1, <1>2, <1>5, <1>6, <2>2, IntroducesLess DEF Exchange, Inv
    <3> QED
      BY <3>2, <3>3
  <2> QED
    BY <1>1, <2>1, <2>2
<1> QED
  BY <1>1, <1>8, <1>9, <1>10 DEF Exchange, d

LEMMA PingExchange ==
    ASSUME Inv, NEW n \in Node, pingall(n), NEW d \in Conn, Exchange(d)
    PROVE  Exchange(d)'
<1>1. state' = state /\ link' = link
  BY DEF pingall
<1>2. \A e \in End : \/ inbox'[e] = inbox[e]
                      \/ /\ inbox'[e] = Append(inbox[e], PingMessage)
                         /\ Live(e) /\ state[Other(e)] = "ready"
  BY DEF pingall, Inv, TypeOK
<1>3. PingMessage \in Message /\ PingMessage.type # "IDENT"
  BY PingTypes DEF PingMessage
<1> QED
  BY <1>1, <1>2, <1>3, TwoEnds, MoreExchange

\* A connection that is made has nothing in its queues.
LEMMA ConnectExchange ==
    ASSUME Inv, NEW n, NEW p, NEW k, connect_to_peer(n, p, k), NEW d \in Conn, Exchange(d)
    PROVE  Exchange(d)'
<1> DEFINE c == Fresh(NewConns)
<1>1. c \in Conn /\ link[c] = None
  BY FreshIn DEF connect_to_peer, NewConns
<1>2. /\ link' = [link EXCEPT ![c] = [from |-> n, to |-> p, cookie |-> k]]
      /\ state' = [e \in End |-> IF e[1] = c THEN "new" ELSE state[e]]
      /\ inbox' = inbox
  BY DEF connect_to_peer
<1> HIDE DEF c
<1>3. CASE d # c
  <2>1. link'[d] = link[d]
    BY <1>2, <1>3 DEF Inv, TypeOK
  <2>2. state'[Dialler(d)] = state[Dialler(d)] /\ state'[Acceptor(d)] = state[Acceptor(d)]
    BY <1>2, <1>3, TwoEnds
  <2> QED
    BY <1>2, <2>1, <2>2, ExchangeKept
<1>4. CASE d = c
  <2>1. state[Dialler(d)] = "none" /\ state[Acceptor(d)] = "none"
    BY <1>1, <1>4 DEF Inv, Linked, Dialler, Acceptor, Side
  <2>2. inbox'[Dialler(d)] = <<>> /\ inbox'[Acceptor(d)] = <<>>
    BY <1>2, <2>1 DEF Exchange, Queue
  <2>3. state'[Dialler(d)] = "new" /\ state'[Acceptor(d)] = "new"
    BY <1>2, <1>4, TwoEnds
  <2>4. Queue(Dialler(d))' /\ Queue(Acceptor(d))'
    BY <2>2, <2>3 DEF Queue, Dialler, Acceptor
  <2>5. Turns(d)' /\ Introduces(d)'
    BY <2>2, <2>3 DEF Turns, Introduces, Dialler, Acceptor
  <2> QED
    BY <2>4, <2>5 DEF Exchange
<1> QED
  BY <1>3, <1>4

\* Every step keeps the order of the exchange on every connection.
LEMMA ExchangeStep ==
    ASSUME Inv, [Next]_vars, NEW d \in Conn, Exchange(d)
    PROVE  Exchange(d)'
<1>0. TypeOK
  BY DEF Inv
<1>1. CASE UNCHANGED vars
  BY <1>1, ExchangeKept DEF vars
<1>2. ASSUME NEW n \in Node, NEW p \in Node,
             PeerReturns(n, p) \/ jabber_new_peer(n, p) \/ ManualConnect(n, p)
      PROVE  Exchange(d)'
  <2>1. CASE PeerReturns(n, p) \/ jabber_new_peer(n, p)
    BY <2>1, ExchangeKept DEF PeerReturns, jabber_new_peer, endVars
  <2>2. CASE ManualConnect(n, p)
    BY <2>2, ConnectExchange DEF ManualConnect
  <2> QED
    BY <1>2, <2>1, <2>2
<1>3. ASSUME NEW ad \in adverts, jabber_msg_received(ad) PROVE Exchange(d)'
  BY <1>3, ConnectExchange DEF jabber_msg_received
<1>4. ASSUME NEW c \in Conn, new_incoming_connection(c) PROVE Exchange(d)'
  <2>1. CASE d = c
    BY <1>4, <2>1, IncomingExchange
  <2>2. CASE d # c
    <3>1. /\ link' = link /\ inbox' = inbox
          /\ state' = [state EXCEPT ![Acceptor(c)] = "expect"]
      BY <1>4 DEF new_incoming_connection, new_connection, Acceptor
    <3>2. state'[Dialler(d)] = state[Dialler(d)] /\ state'[Acceptor(d)] = state[Acceptor(d)]
      <4>1. Acceptor(c)[1] = c /\ Dialler(d)[1] = d /\ Acceptor(d)[1] = d
        BY TwoEnds
      <4>2. Dialler(d) # Acceptor(c) /\ Acceptor(d) # Acceptor(c)
        BY <2>2, <4>1
      <4>3. Dialler(d) \in End /\ Acceptor(d) \in End
        BY TwoEnds
      <4> QED
        BY <1>0, <3>1, <4>2, <4>3 DEF TypeOK
    <3> QED
      BY <3>1, <3>2, ExchangeKept
  <2> QED
    BY <2>1, <2>2
<1>5. ASSUME NEW c \in Conn, new_outgoing_connection(c) PROVE Exchange(d)'
  <2>1. CASE d = c
    BY <1>5, <2>1, OutgoingExchange
  <2>2. CASE d # c
    <3>1. /\ link' = link /\ inbox' = send_ident(inbox, Dialler(c))
          /\ state' = [state EXCEPT ![Dialler(c)] = "expect"]
      BY <1>5 DEF new_outgoing_connection, new_connection, Dialler
    <3>2. state'[Dialler(d)] = state[Dialler(d)] /\ state'[Acceptor(d)] = state[Acceptor(d)]
      <4>1. Dialler(c)[1] = c /\ Dialler(d)[1] = d /\ Acceptor(d)[1] = d
        BY TwoEnds
      <4>2. Dialler(d) # Dialler(c) /\ Acceptor(d) # Dialler(c)
        BY <2>2, <4>1
      <4>3. Dialler(d) \in End /\ Acceptor(d) \in End
        BY TwoEnds
      <4> QED
        BY <1>0, <3>1, <4>2, <4>3 DEF TypeOK
    <3>3. Other(Dialler(c)) = Acceptor(c) /\ Acceptor(c) # Dialler(d) /\ Acceptor(c) # Acceptor(d)
      BY <2>2, TwoEnds
    <3>4. inbox'[Dialler(d)] = inbox[Dialler(d)] /\ inbox'[Acceptor(d)] = inbox[Acceptor(d)]
      BY <1>0, <3>1, <3>3, TwoEnds DEF send_ident, Written, TypeOK
    <3> QED
      BY <3>1, <3>2, <3>4, ExchangeKept
  <2> QED
    BY <2>1, <2>2
<1>6. ASSUME NEW e \in End, new_connection_timeout(e) PROVE Exchange(d)'
  <2>1. CASE Close({e})
    BY <1>0, <1>6, <2>1, CloseExchange DEF new_connection_timeout
  <2>2. CASE UNCHANGED endVars
    BY <1>6, <2>2, ExchangeKept DEF new_connection_timeout, endVars
  <2> QED
    BY <1>6, <2>1, <2>2 DEF new_connection_timeout
<1>7. ASSUME NEW e \in End, expect_ident(e) PROVE Exchange(d)'
  <2> DEFINE m == Head(inbox[e])
  <2>1. link' = link
    BY <1>7 DEF expect_ident
  <2>2. CASE ~IdentAccepted(e, m)
    BY <1>0, <1>7, <2>1, <2>2, CloseExchange DEF expect_ident
  <2>3. CASE IdentAccepted(e, m) /\ d = e[1]
    BY <1>7, <2>3, EndIsOne, AcceptExchange, AnswerExchange
  <2>4. CASE IdentAccepted(e, m) /\ d # e[1]
    <3>1. /\ state' = [state EXCEPT ![e] = "ready"]
          /\ inbox' = Popped(e) \/ inbox' = send_ident(Popped(e), e)
      BY <1>7, <2>4 DEF expect_ident, Answered
    <3>2. ASSUME NEW f \in End, f[1] = d
          PROVE  state'[f] = state[f] /\ inbox'[f] = inbox[f]
      <4>1. f # e /\ f # Other(e)
        BY <2>4, <3>2 DEF Other
      <4>2. Popped(e)[f] = inbox[f]
        BY <1>0, <4>1, PoppedOf
      <4>3. send_ident(Popped(e), e)[f] = Popped(e)[f]
        BY <1>0, <4>1 DEF send_ident, Written, Popped, TypeOK
      <4> QED
        BY <1>0, <3>1, <4>1, <4>2, <4>3 DEF TypeOK
    <3>3. \A f \in {Dialler(d), Acceptor(d)} : state'[f] = state[f] /\ inbox'[f] = inbox[f]
      BY <3>2, TwoEnds
    <3> QED
      BY <2>1, <3>3, ExchangeKept
  <2> QED
    BY <2>2, <2>3, <2>4
<1>8. ASSUME NEW e \in End, message_received(e) PROVE Exchange(d)'
  <2>1. CASE d = e[1]
    BY <1>8, <2>1, MessageExchange
  <2>2. CASE d # e[1]
    <3>1. /\ state' = state /\ link' = link
          /\ inbox' = Popped(e) \/ inbox' = Written(Popped(e), e, PongMessage)
      BY <1>8 DEF message_received
    <3>2. ASSUME NEW f \in End, f[1] = d PROVE inbox'[f] = inbox[f]
      <4>1. f # e /\ f # Other(e)
        BY <2>2, <3>2 DEF Other
      <4>2. Popped(e)[f] = inbox[f]
        BY <1>0, <4>1, PoppedOf
      <4>3. Written(Popped(e), e, PongMessage)[f] = Popped(e)[f]
        BY <1>0, <4>1 DEF Written, Popped, TypeOK
      <4> QED
        BY <3>1, <4>2, <4>3
    <3>3. \A f \in {Dialler(d), Acceptor(d)} : state'[f] = state[f] /\ inbox'[f] = inbox[f]
      BY <3>1, <3>2, TwoEnds
    <3> QED
      BY <3>1, <3>3, ExchangeKept
  <2> QED
    BY <2>1, <2>2
<1>9. ASSUME NEW e \in End, Break(e) \/ peer_closed(e) PROVE Exchange(d)'
  BY <1>0, <1>9, CloseExchange DEF Break, peer_closed
<1>10. ASSUME NEW n \in Node, pingall(n) PROVE Exchange(d)'
  BY <1>10, PingExchange
<1>11. ASSUME NEW n \in Node, Restart(n) PROVE Exchange(d)'
  BY <1>0, <1>11, CloseExchange DEF Restart, EndsOf
<1> QED
  BY <1>1, <1>2, <1>3, <1>4, <1>5, <1>6, <1>7, <1>8, <1>9, <1>10, <1>11 DEF Next

-----------------------------------------------------------------------------
(* Cookies.                                                                *)

LEMMA CookiesKept ==
    ASSUME CookieInv, UNCHANGED <<m_peer_cookies, drawn, link>>, adverts' \subseteq adverts,
           \A c \in Conn : state'[Acceptor(c)] = "ready" =>
               state[Acceptor(c)] = "ready" /\ name'[Acceptor(c)] = name[Acceptor(c)]
    PROVE  CookieInv'
<1>1. CookiesDrawn' /\ CookiesFit'
  BY DEF CookieInv, CookiesDrawn, CookiesFit, CookieOf
<1>2. NamedRight'
  BY DEF CookieInv, NamedRight, Acceptor
<1> QED
  BY <1>1, <1>2 DEF CookieInv

LEMMA CloseCookies ==
    ASSUME CookieInv, NEW es \in SUBSET End, Close(es),
           UNCHANGED <<m_peer_cookies, drawn, link, adverts>>
    PROVE  CookieInv'
<1>1. ASSUME NEW c \in Conn, state'[Acceptor(c)] = "ready"
      PROVE  state[Acceptor(c)] = "ready" /\ name'[Acceptor(c)] = name[Acceptor(c)]
  BY <1>1, TwoEnds DEF Close
<1> QED
  BY <1>1, CookiesKept

\* A cookie that has not been drawn is nobody's; once drawn it is p's.
LEMMA ReportCookies ==
    ASSUME Inv, CookieInv, NEW n \in Node, NEW p \in Node, jabber_new_peer(n, p)
    PROVE  CookieInv'
<1>1. UNCHANGED <<link, state, name>>
  BY DEF jabber_new_peer, endVars
<1>2. CASE UNCHANGED <<m_peer_cookies, drawn, adverts>>
  BY <1>1, <1>2, CookiesKept
<1>3. CASE ~UNCHANGED <<m_peer_cookies, drawn, adverts>>
  <2>1. PICK k \in Cookie : k = Fresh(Cookie \ drawn) /\ k \notin drawn
    <3>1. Cookie \ drawn # {}
      BY <1>3 DEF jabber_new_peer
    <3> QED
      BY <3>1, FreshIn
  <2> DEFINE ad == [from |-> n, to |-> p, cookie |-> k]
  <2>2. /\ drawn' = drawn \cup {k} /\ adverts' = adverts \cup {ad}
        /\ m_peer_cookies' = [m_peer_cookies EXCEPT ![n][k] = p]
    BY <1>3, <2>1 DEF jabber_new_peer
  <2>3. /\ m_peer_cookies'[n][k] = p
        /\ \A q \in Node, l \in Cookie : l # k => m_peer_cookies'[q][l] = m_peer_cookies[q][l]
        /\ \A q \in Node, l \in Cookie : q # n => m_peer_cookies'[q][l] = m_peer_cookies[q][l]
    BY <2>1, <2>2 DEF Inv, TypeOK
  <2>4. ASSUME NEW q \in Node, NEW l \in Cookie, NEW r, CookieOf(q, l, r)
        PROVE  CookieOf(q, l, r)'
    BY <2>1, <2>2, <2>3, <2>4 DEF CookieOf
  <2>5. CookiesDrawn'
    BY <2>1, <2>2, <2>3 DEF CookieInv, CookiesDrawn
  <2>6. \A a1 \in adverts' : CookieOf(a1.from, a1.cookie, a1.to)'
    <3>1. ASSUME NEW a1 \in adverts PROVE CookieOf(a1.from, a1.cookie, a1.to)'
      <4>1. a1.from \in Node /\ a1.cookie \in Cookie
        BY DEF Inv, TypeOK, Advert
      <4> QED
        BY <2>4, <4>1 DEF CookieInv, CookiesFit
    <3>2. CookieOf(ad.from, ad.cookie, ad.to)'
      BY <2>2, <2>3 DEF CookieOf
    <3> QED
      BY <2>2, <3>1, <3>2
  <2>7. ASSUME NEW c \in Conn, link[c] # None, link[c].cookie # None
        PROVE  CookieOf(link[c].to, link[c].cookie, link[c].from)'
    <3>1. link[c].to \in Node /\ link[c].cookie \in Cookie
      BY <2>7 DEF Inv, TypeOK, Link
    <3>2. CookieOf(link[c].to, link[c].cookie, link[c].from)
      BY <2>7 DEF CookieInv, CookiesFit
    <3> QED
      BY <1>1, <2>1, <2>2, <2>3, <3>1, <3>2 DEF CookieOf
  <2>8. CookiesFit'
    BY <1>1, <2>6, <2>7 DEF CookiesFit, CookieOf
  <2>9. NamedRight'
    <3> SUFFICES ASSUME NEW c \in Conn, state[Acceptor(c)] = "ready"
                 PROVE  m_peer_cookies'[link[c].to][link[c].cookie] # None
      BY <1>1 DEF CookieInv, NamedRight, Acceptor
    <3>1. link[c] # None /\ link[c].cookie # None
      BY DEF Inv, Linked, CookieInv, NamedRight, Acceptor, Side
    <3>2. link[c].to \in Node /\ link[c].cookie \in Cookie
      BY <3>1 DEF Inv, TypeOK, Link
    <3>3. link[c].cookie \in drawn /\ m_peer_cookies[link[c].to][link[c].cookie] # None
      BY <3>1 DEF CookieInv, CookiesFit, CookieOf, NamedRight
    <3> QED
      BY <2>1, <2>3, <3>2, <3>3
  <2> QED
    BY <2>5, <2>8, <2>9 DEF CookieInv
<1> QED
  BY <1>2, <1>3

LEMMA ConnectCookies ==
    ASSUME Inv, CookieInv, NEW n \in Node, NEW p \in Node, NEW k \in Cookie \cup {None},
           connect_to_peer(n, p, k), k # None => CookieOf(p, k, n),
           UNCHANGED <<m_peer_cookies, drawn>>, adverts' \subseteq adverts
    PROVE  CookieInv'
<1> DEFINE c == Fresh(NewConns)
           l == [from |-> n, to |-> p, cookie |-> k]
<1>1. c \in Conn /\ link[c] = None
  BY FreshIn DEF connect_to_peer, NewConns
<1>2. /\ link' = [link EXCEPT ![c] = l] /\ name' = name
      /\ state' = [e \in End |-> IF e[1] = c THEN "new" ELSE state[e]]
  BY DEF connect_to_peer
<1> HIDE DEF c
<1>3. link'[c] = l /\ \A d \in Conn \ {c} : link'[d] = link[d]
  BY <1>1, <1>2 DEF Inv, TypeOK
<1>4. CookiesDrawn'
  BY DEF CookieInv, CookiesDrawn
<1>5. CookiesFit'
  <2>1. \A ad \in adverts' : CookieOf(ad.from, ad.cookie, ad.to)'
    BY DEF CookieInv, CookiesFit, CookieOf
  <2>2. ASSUME NEW d \in Conn, link'[d] # None, link'[d].cookie # None
        PROVE  CookieOf(link[d].to, link[d].cookie, link[d].from)'
    BY <1>3, <2>2 DEF CookieInv, CookiesFit, CookieOf
  <2> QED
    BY <2>1, <2>2 DEF CookiesFit, CookieOf
<1>6. NamedRight'
  <2> SUFFICES ASSUME NEW d \in Conn, state'[Acceptor(d)] = "ready"
               PROVE  /\ name'[Acceptor(d)] = link'[d].from
                      /\ link'[d].cookie # None
                      /\ m_peer_cookies'[link'[d].to][link'[d].cookie] # None
    BY DEF NamedRight, Acceptor
  <2>1. d # c /\ state[Acceptor(d)] = "ready"
    BY <1>2, TwoEnds
  <2> QED
    BY <1>2, <1>3, <2>1 DEF CookieInv, NamedRight
<1> QED
  BY <1>4, <1>5, <1>6 DEF CookieInv

\* Who is let in has the cookie it was sent, and so the name we drew it for.
LEMMA IdentCookies ==
    ASSUME Inv, CookieInv, NEW e \in End, expect_ident(e), Exchange(e[1])
    PROVE  CookieInv'
<1> DEFINE m == Head(inbox[e])
           d == e[1]
<1>1. /\ UNCHANGED <<m_peer_cookies, drawn, link, adverts>>
      /\ inbox[e] # <<>> /\ state[e] = "expect"
  BY DEF expect_ident, xmppVars
<1>2. CASE ~IdentAccepted(e, m)
  BY <1>1, <1>2, CloseCookies DEF expect_ident
<1>3. CASE IdentAccepted(e, m)
  <2>1. state' = [state EXCEPT ![e] = "ready"] /\ name' = [name EXCEPT ![e] = m.name]
    BY <1>3 DEF expect_ident
  <2>2. /\ state'[e] = "ready" /\ name'[e] = m.name
        /\ \A f \in End : f # e => state'[f] = state[f] /\ name'[f] = name[f]
    BY <2>1 DEF Inv, TypeOK
  <2>3. CASE e = Dialler(d)
    <3>1. \A c \in Conn : Acceptor(c) \in End /\ Acceptor(c) # e
      <4>1. e[2] = "out"
        BY <2>3 DEF Dialler
      <4> QED
        BY <4>1, TwoEnds
    <3>2. \A c \in Conn : state'[Acceptor(c)] = "ready" =>
              state[Acceptor(c)] = "ready" /\ name'[Acceptor(c)] = name[Acceptor(c)]
      BY <2>2, <3>1
    <3> QED
      BY <1>1, <3>2, CookiesKept
  <2>4. CASE e = Acceptor(d)
    <3>1. d \in Conn /\ e[2] = "in" /\ NodeOf(e) = link[d].to
      BY <2>4, EndIsOne DEF Acceptor, NodeOf
    <3>2. m = inbox[e][1] /\ 1 \in 1..Len(inbox[e]) /\ m.type = "IDENT"
      <4>1. inbox[e] \in Seq(Message)
        BY DEF Inv, TypeOK
      <4>2. m = inbox[e][1] /\ Len(inbox[e]) \in Nat \ {0}
        BY <1>1, <4>1, MessagePopped
      <4> QED
        BY <1>3, <4>2 DEF IdentAccepted
    <3>3. m.name = link[d].from /\ m.cookie = link[d].cookie
      <4>1. Introduces(d)
        BY DEF Exchange
      <4>2. \A k \in 1..Len(inbox[e]) : inbox[e][k].type = "IDENT" =>
                inbox[e][k].name = link[d].from /\ inbox[e][k].cookie = link[d].cookie
        BY <2>4, <4>1 DEF Introduces
      <4> QED
        BY <3>2, <4>2
    <3>4. m.cookie # None /\ m_peer_cookies[link[d].to][m.cookie] # None
      BY <1>3, <3>1 DEF IdentAccepted, CookieVerified
    <3>5. CookiesDrawn' /\ CookiesFit'
      BY <1>1 DEF CookieInv, CookiesDrawn, CookiesFit, CookieOf
    <3>6. NamedRight'
      <4> SUFFICES ASSUME NEW c \in Conn, state'[Acceptor(c)] = "ready"
                   PROVE  /\ name'[Acceptor(c)] = link[c].from
                          /\ link[c].cookie # None
                          /\ m_peer_cookies[link[c].to][link[c].cookie] # None
        BY <1>1 DEF NamedRight, Acceptor
      <4>1. CASE c = d
        BY <2>2, <2>4, <3>3, <3>4, <4>1
      <4>2. CASE c # d
        <5>1. Acceptor(c) # e /\ Acceptor(c) \in End
          BY <2>4, <3>1, <4>2, TwoEnds
        <5> QED
          BY <2>2, <5>1 DEF CookieInv, NamedRight
      <4> QED
        BY <4>1, <4>2
    <3> QED
      BY <3>5, <3>6 DEF CookieInv
  <2> QED
    BY <2>3, <2>4, EndIsOne
<1> QED
  BY <1>2, <1>3

\* A restart forgets the cookies of n and ends its connections.
LEMMA RestartCookies ==
    ASSUME Inv, CookieInv, NEW n \in Node, Restart(n)
    PROVE  CookieInv'
<1>1. /\ UNCHANGED <<drawn, adverts, link>>
      /\ \A k \in Cookie : m_peer_cookies'[n][k] = None
      /\ \A q \in Node, k \in Cookie : q # n => m_peer_cookies'[q][k] = m_peer_cookies[q][k]
  BY DEF Restart, Inv, TypeOK
<1>2. CookiesDrawn'
  BY <1>1 DEF CookieInv, CookiesDrawn
<1>3. CookiesFit'
  <2>1. ASSUME NEW ad \in adverts PROVE CookieOf(ad.from, ad.cookie, ad.to)'
    <3>1. ad.from \in Node /\ ad.cookie \in Cookie
      BY DEF Inv, TypeOK, Advert
    <3> QED
      BY <1>1, <3>1 DEF CookieInv, CookiesFit, CookieOf
  <2>2. ASSUME NEW c \in Conn, link[c] # None, link[c].cookie # None
        PROVE  CookieOf(link[c].to, link[c].cookie, link[c].from)'
    <3>1. link[c].to \in Node /\ link[c].cookie \in Cookie
      BY <2>2 DEF Inv, TypeOK, Link
    <3> QED
      BY <1>1, <2>2, <3>1 DEF CookieInv, CookiesFit, CookieOf
  <2> QED
    BY <1>1, <2>1, <2>2 DEF CookiesFit, CookieOf
<1>4. NamedRight'
  <2> SUFFICES ASSUME NEW c \in Conn, state'[Acceptor(c)] = "ready"
               PROVE  /\ name'[Acceptor(c)] = link[c].from
                      /\ link[c].cookie # None
                      /\ m_peer_cookies'[link[c].to][link[c].cookie] # None
    BY <1>1 DEF NamedRight, Acceptor
  <2>1. Acceptor(c) \in End /\ Acceptor(c) \notin EndsOf(n)
    BY TwoEnds DEF Restart, Close
  <2>2. state[Acceptor(c)] = "ready" /\ name'[Acceptor(c)] = name[Acceptor(c)]
    BY <2>1 DEF Restart, Close
  <2>3. link[c] # None
    BY <2>2 DEF Inv, Linked, Acceptor, Side
  <2>4. /\ name[Acceptor(c)] = link[c].from /\ link[c].cookie # None
        /\ m_peer_cookies[link[c].to][link[c].cookie] # None
    BY <2>2 DEF CookieInv, NamedRight
  <2>5. link[c].to # n
    BY <2>1, <2>3, TwoEnds DEF EndsOf, NodeOf
  <2>6. link[c].to \in Node /\ link[c].cookie \in Cookie
    BY <2>3, <2>4 DEF Inv, TypeOK, Link
  <2> QED
    BY <1>1, <2>2, <2>4, <2>5, <2>6
<1> QED
  BY <1>2, <1>3, <1>4 DEF CookieInv

LEMMA CookieStep ==
    ASSUME Inv, ExchangeInv, [Next]_vars
    PROVE  CookieInv'
<1>0. TypeOK /\ CookieInv
  BY DEF Inv, ExchangeInv
<1>1. CASE UNCHANGED vars
  BY <1>0, <1>1, CookiesKept DEF vars
<1>2. ASSUME NEW n \in Node, NEW p \in Node, PeerReturns(n, p) PROVE CookieInv'
  BY <1>0, <1>2, CookiesKept DEF PeerReturns, endVars
<1>3. ASSUME NEW n \in Node, NEW p \in Node, jabber_new_peer(n, p) PROVE CookieInv'
  BY <1>0, <1>3, ReportCookies
<1>4. ASSUME NEW n \in Node, NEW p \in Node, ManualConnect(n, p) PROVE CookieInv'
  <2>1. /\ connect_to_peer(n, p, None) /\ UNCHANGED <<m_peer_cookies, drawn>>
        /\ adverts' \subseteq adverts
    BY <1>4 DEF ManualConnect, xmppVars
  <2> QED
    BY <1>0, <2>1, ConnectCookies
<1>5. ASSUME NEW ad \in adverts, jabber_msg_received(ad) PROVE CookieInv'
  <2>1. /\ connect_to_peer(ad.to, ad.from, ad.cookie) /\ UNCHANGED <<m_peer_cookies, drawn>>
        /\ adverts' \subseteq adverts
    BY <1>5 DEF jabber_msg_received
  <2>2. ad.to \in Node /\ ad.from \in Node /\ ad.cookie \in Cookie \cup {None}
    BY <1>0 DEF TypeOK, Advert
  <2>3. CookieOf(ad.from, ad.cookie, ad.to)
    BY <1>0 DEF CookieInv, CookiesFit
  <2> QED
    BY <1>0, <2>1, <2>2, <2>3, ConnectCookies
<1>6. ASSUME NEW c \in Conn, new_incoming_connection(c) \/ new_outgoing_connection(c)
      PROVE  CookieInv'
  <2>1. PICK e \in End : /\ state' = [state EXCEPT ![e] = "expect"]
                         /\ UNCHANGED <<m_peer_cookies, drawn, adverts, link, name>>
    BY <1>6, ConnEnds DEF new_incoming_connection, new_outgoing_connection, new_connection,
                          xmppVars, Side
  <2>2. \A d \in Conn : state'[Acceptor(d)] = "ready" => state[Acceptor(d)] = "ready"
    BY <1>0, <2>1, TwoEnds DEF TypeOK
  <2> QED
    BY <1>0, <2>1, <2>2, CookiesKept
<1>7. ASSUME NEW e \in End, new_connection_timeout(e) PROVE CookieInv'
  <2>1. CASE Close({e})
    BY <1>0, <1>7, <2>1, CloseCookies DEF new_connection_timeout, xmppVars
  <2>2. CASE UNCHANGED endVars
    BY <1>0, <1>7, <2>2, CookiesKept DEF new_connection_timeout, xmppVars, endVars
  <2> QED
    BY <1>7, <2>1, <2>2 DEF new_connection_timeout
<1>8. ASSUME NEW e \in End, expect_ident(e) PROVE CookieInv'
  BY <1>0, <1>8, IdentCookies, EndIsOne DEF ExchangeInv
<1>9. ASSUME NEW e \in End, message_received(e) PROVE CookieInv'
  BY <1>0, <1>9, CookiesKept DEF message_received, xmppVars
<1>10. ASSUME NEW e \in End, Break(e) \/ peer_closed(e) PROVE CookieInv'
  BY <1>0, <1>10, CloseCookies DEF Break, peer_closed, xmppVars
<1>11. ASSUME NEW n \in Node, pingall(n) PROVE CookieInv'
  BY <1>0, <1>11, CookiesKept DEF pingall, xmppVars
<1>12. ASSUME NEW n \in Node, Restart(n) PROVE CookieInv'
  BY <1>0, <1>12, RestartCookies
<1> QED
  BY <1>1, <1>2, <1>3, <1>4, <1>5, <1>6, <1>7, <1>8, <1>9, <1>10, <1>11, <1>12 DEF Next

\* On every connection the IDENTs go in turn, and every cookie is where it was
\* sent, whatever connections break and nodes restart.
THEOREM ExchangeInvariance == Spec => []ExchangeInv
<1>1. Init => ExchangeInv
  <2> SUFFICES ASSUME Init PROVE ExchangeInv
    OBVIOUS
  <2>1. ASSUME NEW c \in Conn PROVE Exchange(c)
    <3>1. \A e \in End : state[e] = "none" /\ inbox[e] = <<>>
      BY DEF Init
    <3>2. Dialler(c) \in End /\ Acceptor(c) \in End
      BY TwoEnds
    <3> QED
      BY <3>1, <3>2 DEF Exchange, Queue, Turns, Introduces
  <2>2. CookieInv
    BY TwoEnds DEF Init, CookieInv, CookiesDrawn, CookiesFit, NamedRight
  <2> QED
    BY <2>1, <2>2 DEF ExchangeInv
<1>2. Inv /\ ExchangeInv /\ [Next]_vars => ExchangeInv'
  BY ExchangeStep, CookieStep DEF ExchangeInv
<1> QED
  BY <1>1, <1>2, Invariance, PTL DEF Spec

\* An end that waits for an IDENT never reads anything else, and no IDENT
\* reaches message_received: "Expected ident from peer" never happens.
THEOREM IdentFirst == Spec => []IdentComesFirst
<1>1. Inv /\ ExchangeInv => IdentComesFirst
  <2> SUFFICES ASSUME Inv, ExchangeInv, NEW e \in End, inbox[e] # <<>>
               PROVE  state[e] # "ready" <=> Head(inbox[e]).type = "IDENT"
    BY DEF IdentComesFirst
  <2>1. Queue(e)
    BY EndIsOne DEF ExchangeInv, Exchange
  <2>2. Head(inbox[e]) = inbox[e][1]
    BY MessagePopped DEF Inv, TypeOK
  <2> QED
    BY <2>1, <2>2 DEF Queue
<1> QED
  BY <1>1, Invariance, ExchangeInvariance, PTL

\* The dialling end is ready only after the accepting end has verified its
\* cookie (expect_ident on either side).
THEOREM VerifiedBefore == Spec => []VerifiedFirst
<1>1. Inv /\ ExchangeInv => VerifiedFirst
  <2> SUFFICES ASSUME Inv, ExchangeInv, NEW c \in Conn, state[Dialler(c)] = "ready"
               PROVE  state[Acceptor(c)] \in {"ready", "closed"}
    BY DEF VerifiedFirst, Dialler, Acceptor
  <2>1. Acceptor(c) \in End /\ Turns(c)
    BY TwoEnds DEF ExchangeInv, Exchange
  <2> QED
    BY <2>1 DEF Turns, Inv, TypeOK
<1> QED
  BY <1>1, Invariance, ExchangeInvariance, PTL

\* The name of an accepted peer is the one its cookie was drawn for, although
\* expect_ident never compares the two.
THEOREM PeerInvited == Spec => []ReadyPeerWasInvited
<1>1. Inv /\ ExchangeInv => ReadyPeerWasInvited
  <2> SUFFICES ASSUME Inv, ExchangeInv, NEW c \in Conn, state[Acceptor(c)] = "ready"
               PROVE  /\ link[c].cookie # None
                      /\ m_peer_cookies[link[c].to][link[c].cookie] = name[Acceptor(c)]
    BY DEF ReadyPeerWasInvited, Acceptor
  <2>1. link[c] # None
    BY DEF Inv, Linked, Acceptor, Side
  <2>2. /\ link[c].cookie # None /\ name[Acceptor(c)] = link[c].from
        /\ m_peer_cookies[link[c].to][link[c].cookie] # None
    BY DEF ExchangeInv, CookieInv, NamedRight
  <2>3. m_peer_cookies[link[c].to][link[c].cookie] \in {link[c].from, None}
    BY <2>1, <2>2 DEF ExchangeInv, CookieInv, CookiesFit, CookieOf
  <2> QED
    BY <2>2, <2>3
<1> QED
  BY <1>1, Invariance, ExchangeInvariance, PTL

=============================================================================
