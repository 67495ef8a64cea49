---------------------------- MODULE QueryRouting ----------------------------
(***************************************************************************)
(* How a mesh of greynet nodes routes a search: greynet.cpp from           *)
(* start_resolving and message_received down to handle_queryresult, and    *)
(* the query-origin table of greynet.h.                                    *)
(*                                                                         *)
(* Every node runs one io_service thread, so each libf2f callback and each *)
(* timer callback is one atomic step.  start_resolving and local matches   *)
(* are calls of the playdar core from threads of its own.  A connection is *)
(* a pair of FIFO channels between two nodes that finished the IDENT       *)
(* handshake (module Handshake); a node has at most one per peer, so a     *)
(* connection_ptr is written as the name of the peer.                      *)
(*                                                                         *)
(* Unparsable payloads make the handlers call conn->fin() or drop the      *)
(* message: the first is one more cause of Disconnect, the second is no    *)
(* change of state.  PING and PONG are in module Handshake.                *)
(***************************************************************************)
EXTENDS Naturals, Sequences

CONSTANTS
    Node,       \* greynet nodes
    Query,      \* query ids
    Asker,      \* [Query -> Node]: where a client asks the query
    Topology,   \* [Node -> SUBSET Node]: the connections at the start
    Holder,     \* [Query -> SUBSET Node]: nodes that may have a match
    Impatient,  \* queries whose asker may give up
    MaxBreaks,  \* bound: how many connections may be lost
    None,       \* no entry in m_qidorigins, no url in a result
    Gone        \* the weak_ptr of a connection that no longer exists

ASSUME ConstAssumption ==
    /\ Asker \in [Query -> Node]
    /\ Topology \in [Node -> SUBSET Node]
    /\ \A n \in Node : n \notin Topology[n]
    /\ \A n, p \in Node : p \in Topology[n] <=> n \in Topology[p]
    /\ Holder \in [Query -> SUBSET Node]
    /\ Impatient \subseteq Query
    /\ MaxBreaks \in Nat
    /\ None \notin Node /\ Gone \notin Node /\ None # Gone

VARIABLES
    conns,      \* router: the peers a node has a ready connection with
    chan,       \* chan[<<n, p>>]: written by n, not yet read by p
    seen,       \* m_seen_guids
    origin,     \* m_qidorigins
    timers,     \* the 100 ms timers that will call fwd_search
    known,      \* playdar core: queries that exist
    solved,     \* playdar core: queries with a perfect result
    stopped,    \* playdar core: queries that were stopped
    pipeline,   \* playdar core: dispatched, greynet not reached yet
    resolving,  \* playdar core: start_resolving is being called
    results,    \* playdar core: the results of a query, in order
    breaks      \* connections lost so far

coreVars  == <<known, solved, stopped, results>>
dispVars  == <<pipeline, resolving>>
routeVars == <<origin, timers>>
linkVars  == <<conns, breaks>>
vars == <<conns, chan, seen, origin, timers, known, solved, stopped,
          pipeline, resolving, results, breaks>>

-----------------------------------------------------------------------------
(* Messages.  A guid is a fresh uuid: it is named after the only step that *)
(* can draw it.  The guid of a QUERYSTOP is the query id itself.           *)

Item == [sid : Node, perfect : BOOLEAN, url : Node \cup {None}]

Guid == [type : {"QUERY", "QUERYRESULT", "QUERYSTOP"},
         by : Node, qid : Query, sid : Node \cup {None}]

Message == [type : {"QUERY", "QUERYRESULT", "QUERYSTOP"}, guid : Guid,
            qid : Query, item : Item \cup {None}]

Timer == [qid : Query, guid : Guid, conn : Node \cup {Gone}]

Uuid_Empty(type, n, q, sid) == None

Uuid(type, n, q, sid) == [type |-> type, by |-> n, qid |-> q, sid |-> sid]

QueryMessage(q, guid) ==
    [type |-> "QUERY", guid |-> guid, qid |-> q, item |-> None]

QueryResultMessage(n, q, item) ==
    [type |-> "QUERYRESULT", guid |-> Uuid("QUERYRESULT", n, q, item.sid),
     qid |-> q, item |-> item]

QueryStopMessage(q) ==
    [type |-> "QUERYSTOP", guid |-> Uuid("QUERYSTOP", Asker[q], q, None),
     qid |-> q, item |-> None]

-----------------------------------------------------------------------------
(* libf2f, as greynet uses it.                                             *)

\* n writes m to the connections with peers.
WriteTo(ch, n, peers, m) ==
    [l \in Node \X Node |->
        IF l[1] = n /\ l[2] \in peers THEN Append(ch[l], m) ELSE ch[l]]

ForeachConnsExcept_OwnOnly(ch, n, conn, m) ==
    WriteTo(ch, n, IF conn \in Node THEN {} ELSE conns[n], m)

\* Router::foreach_conns_except(async_write(m), conn).
ForeachConnsExcept(ch, n, conn, m) == WriteTo(ch, n, conns[n] \ {conn}, m)

\* n has read the oldest message from p.
Popped(n, p) == [chan EXCEPT ![<<p, n>>] = Tail(@)]

-----------------------------------------------------------------------------
(* The playdar core, as greynet uses it.                                   *)

query_exists(n, q) == q \in known[n]

dispatch(n, q) ==
    /\ known' = [known EXCEPT ![n] = @ \cup {q}]
    /\ pipeline' = [pipeline EXCEPT ![n] = @ \cup {q}]

\* get_query_origin: the peer a query came from, or nothing when it is our
\* own or when that connection is gone.
get_query_origin(n, q) ==
    IF origin[n][q] \in Node THEN origin[n][q] ELSE None

send_response_OwnOnly(ch, n, q, item) ==
    WriteTo(ch, n, IF item.sid = n THEN {get_query_origin(n, q)} \cap Node ELSE {},
            QueryResultMessage(n, q, [item EXCEPT !.url = None]))

\* The callback of a result: passed on to the origin without its url.
send_response(ch, n, q, item) ==
    WriteTo(ch, n, {get_query_origin(n, q)} \cap Node,
            QueryResultMessage(n, q, [item EXCEPT !.url = None]))

\* report_results: a result for an existing query is recorded and handed to
\* the callback, which is send_response when the query came from a peer.
report_results(n, q, item, ch) ==
    /\ results' = [results EXCEPT ![n][q] = Append(@, item)]
    /\ solved' = [solved EXCEPT ![n] = IF item.perfect THEN @ \cup {q} ELSE @]
    /\ chan' = send_response(ch, n, q, item)
    /\ UNCHANGED <<known, stopped>>

-----------------------------------------------------------------------------
Init ==
    /\ conns = Topology
    /\ chan = [l \in Node \X Node |-> <<>>]
    /\ seen = [n \in Node |-> {}]
    /\ origin = [n \in Node |-> [q \in Query |-> None]]
    /\ timers = [n \in Node |-> {}]
    /\ known = [n \in Node |-> {}]
    /\ solved = [n \in Node |-> {}]
    /\ stopped = [n \in Node |-> {}]
    /\ pipeline = [n \in Node |-> {}]
    /\ resolving = [n \in Node |-> {}]
    /\ results = [n \in Node |-> [q \in Query |-> <<>>]]
    /\ breaks = 0

\* A client of node Asker[q] submits the query to its playdar.
AskQuery(q) ==
    /\ ~query_exists(Asker[q], q)
    /\ dispatch(Asker[q], q)
    /\ UNCHANGED <<chan, seen, routeVars, resolving, solved, stopped, results,
                   linkVars>>

\* The core's pipeline reaches greynet's weight: a query that is solved or
\* stopped is not handed to further resolvers.
RunPipeline(n, q) ==
    /\ q \in pipeline[n]
    /\ pipeline' = [pipeline EXCEPT ![n] = @ \ {q}]
    /\ resolving' = IF q \in solved[n] \cup stopped[n] THEN resolving
                    ELSE [resolving EXCEPT ![n] = @ \cup {q}]
    /\ UNCHANGED <<chan, seen, routeVars, coreVars, linkVars>>

\* greynet::start_resolving, on a thread of the core: it looks at neither
\* solved() nor stopped().
start_resolving(n, q) ==
    /\ q \in resolving[n]
    /\ resolving' = [resolving EXCEPT ![n] = @ \ {q}]
    /\ chan' = ForeachConnsExcept(chan, n, get_query_origin(n, q),
                   QueryMessage(q, Uuid("QUERY", n, q, None)))
    /\ UNCHANGED <<seen, routeVars, pipeline, coreVars, linkVars>>

\* A resolver of this node finds a match for a query.
LocalMatch(n, q) ==
    /\ n \in Holder[q]
    /\ query_exists(n, q)
    /\ \A i \in DOMAIN results[n][q] : results[n][q][i].sid # n
    /\ \E perfect \in BOOLEAN :
          report_results(n, q, [sid |-> n, perfect |-> perfect, url |-> n], chan)
    /\ UNCHANGED <<seen, routeVars, dispVars, linkVars>>

-----------------------------------------------------------------------------
(* message_received: the duplicate check, then the handler of the type.    *)

IsNew_Unchecked(n, q) == TRUE

IsNew(n, q) == ~query_exists(n, q)

\* A query that exists already is discarded; a new one is remembered with
\* its origin, dispatched, and forwarded 100 ms later.
handle_query(n, p, m) ==
    /\ m.type = "QUERY"
    /\ \/ /\ ~IsNew(n, m.qid)
          /\ UNCHANGED <<known, pipeline, routeVars>>
       \/ /\ IsNew(n, m.qid)
          /\ origin' = [origin EXCEPT ![n][m.qid] = p]
          /\ dispatch(n, m.qid)
          /\ timers' = [timers EXCEPT ![n] = @ \cup
                           {[qid |-> m.qid, guid |-> m.guid, conn |-> p]}]
    /\ chan' = Popped(n, p)
    /\ UNCHANGED <<solved, stopped, results, resolving>>

set_url_Missing(item, p) == item

\* The url of the result is replaced by greynet://<peer>;<sid>.
set_url(item, p) == [item EXCEPT !.url = p]

handle_queryresult(n, p, m) ==
    /\ m.type = "QUERYRESULT"
    /\ \/ /\ query_exists(n, m.qid)
          /\ report_results(n, m.qid, set_url(m.item, p), Popped(n, p))
       \/ /\ ~query_exists(n, m.qid)
          /\ chan' = Popped(n, p)
          /\ UNCHANGED coreVars
    /\ UNCHANGED <<routeVars, dispVars>>

StopAccepted_AnyPeer(n, p, q) == query_exists(n, q)

\* A stop counts when the query exists and the stop came from its origin.
StopAccepted(n, p, q) == query_exists(n, q) /\ get_query_origin(n, q) = p

handle_querystop(n, p, m) ==
    /\ m.type = "QUERYSTOP"
    /\ \/ /\ StopAccepted(n, p, m.qid)
          /\ stopped' = [stopped EXCEPT ![n] = @ \cup {m.qid}]
          /\ chan' = ForeachConnsExcept(Popped(n, p), n, p, m)
       \/ /\ ~StopAccepted(n, p, m.qid)
          /\ chan' = Popped(n, p)
          /\ UNCHANGED stopped
    /\ UNCHANGED <<known, solved, results, routeVars, dispVars>>

message_received(n, p) ==
    /\ chan[<<p, n>>] # <<>>
    /\ LET m == Head(chan[<<p, n>>]) IN
       \/ /\ m.guid \in seen[n]
          /\ chan' = Popped(n, p)
          /\ UNCHANGED <<seen, routeVars, dispVars, coreVars>>
       \/ /\ m.guid \notin seen[n]
          /\ seen' = [seen EXCEPT ![n] = @ \cup {m.guid}]
          /\ \/ handle_query(n, p, m)
             \/ handle_queryresult(n, p, m)
             \/ handle_querystop(n, p, m)
    /\ UNCHANGED linkVars

-----------------------------------------------------------------------------
\* greynet::fwd_search, when the timer of handle_query fires.
fwd_search(n, t) ==
    /\ t \in timers[n]
    /\ timers' = [timers EXCEPT ![n] = @ \ {t}]
    /\ chan' = IF t.qid \in solved[n] \cup stopped[n] THEN chan
               ELSE ForeachConnsExcept(chan, n, t.conn, QueryMessage(t.qid, t.guid))
    /\ UNCHANGED <<seen, origin, dispVars, coreVars, linkVars>>

\* No code in this repository sends the first QUERYSTOP: the program behind
\* the asking node gives up or is satisfied, once its own search has gone
\* out, and tells all its peers.
GiveUp(q) ==
    LET n == Asker[q] IN
    /\ q \in Impatient
    /\ query_exists(n, q)
    /\ q \notin pipeline[n] \cup resolving[n]
    /\ q \notin stopped[n]
    /\ stopped' = [stopped EXCEPT ![n] = @ \cup {q}]
    /\ chan' = ForeachConnsExcept(chan, n, None, QueryStopMessage(q))
    /\ UNCHANGED <<seen, routeVars, dispVars, known, solved, results, linkVars>>

-----------------------------------------------------------------------------
(* Connections come and go under the queries.                              *)

\* What a pointer conn becomes when the connection with p is destroyed.
Forget(p, conn) == IF conn = p THEN Gone ELSE conn

Disconnect(n, p) ==
    LET ends == [k \in {n, p} |-> IF k = n THEN p ELSE n] IN
    /\ breaks < MaxBreaks
    /\ p \in conns[n]
    /\ breaks' = breaks + 1
    /\ conns' = [k \in Node |-> IF k \in {n, p} THEN conns[k] \ {ends[k]} ELSE conns[k]]
    /\ chan' = [l \in Node \X Node |-> IF l \in {<<n, p>>, <<p, n>>} THEN <<>> ELSE chan[l]]
    /\ origin' = [k \in Node |-> IF k \in {n, p}
                     THEN [q \in Query |-> Forget(ends[k], origin[k][q])]
                     ELSE origin[k]]
    /\ timers' = [k \in Node |-> IF k \in {n, p}
                     THEN {[t EXCEPT !.conn = Forget(ends[k], @)] : t \in timers[k]}
                     ELSE timers[k]]
    /\ UNCHANGED <<seen, dispVars, coreVars>>

Reconnect(n, p) ==
    /\ p \in Topology[n]
    /\ p \notin conns[n]
    /\ conns' = [conns EXCEPT ![n] = @ \cup {p}, ![p] = @ \cup {n}]
    /\ UNCHANGED <<chan, seen, routeVars, dispVars, coreVars, breaks>>

-----------------------------------------------------------------------------
Next ==
    \/ \E q \in Query : AskQuery(q) \/ GiveUp(q)
    \/ \E n \in Node, q \in Query :
          RunPipeline(n, q) \/ start_resolving(n, q) \/ LocalMatch(n, q)
    \/ \E n \in Node : \E t \in timers[n] : fwd_search(n, t)
    \/ \E n, p \in Node :
          message_received(n, p) \/ Disconnect(n, p) \/ Reconnect(n, p)

Spec == Init /\ [][Next]_vars

\* The io_service thread of a node and the threads of its core keep
\* running; clients, local matches and the network owe nothing.
IoThread(n) ==
    \/ \E t \in timers[n] : fwd_search(n, t)
    \/ \E p \in Node : message_received(n, p)

CoreThread(n) == \E q \in Query : RunPipeline(n, q) \/ start_resolving(n, q)

FairSpec ==
    Spec /\ \A n \in Node : WF_vars(IoThread(n)) /\ WF_vars(CoreThread(n))

-----------------------------------------------------------------------------
(* Properties.                                                             *)

\* Every variable keeps its type.
TypeOK ==
    /\ conns \in [Node -> SUBSET Node]
    /\ chan \in [Node \X Node -> Seq(Message)]
    /\ seen \in [Node -> SUBSET Guid]
    /\ origin \in [Node -> [Query -> Node \cup {None, Gone}]]
    /\ timers \in [Node -> SUBSET Timer]
    /\ known \in [Node -> SUBSET Query]
    /\ solved \in [Node -> SUBSET Query]
    /\ stopped \in [Node -> SUBSET Query]
    /\ pipeline \in [Node -> SUBSET Query]
    /\ resolving \in [Node -> SUBSET Query]
    /\ results \in [Node -> [Query -> Seq(Item)]]
    /\ breaks \in Nat

\* The origins of a query never form a cycle, however its copies race
\* through the mesh and whatever connections break: in every set of nodes
\* there is one whose origin (m_qidorigins) is outside it.  Otherwise
\* send_response would send results round in circles.
OriginsAcyclic ==
    \A q \in Query : \A S \in SUBSET Node :
        S # {} => \E n \in S : origin[n][q] \notin S

\* The asking node never takes its own query, come back to it, for a
\* peer's: handle_query would then answer the peer instead of the client.
AskerHasNoOrigin == \A q \in Query : origin[Asker[q]][q] = None

\* Once handle_query has recorded where a query came from, no later copy of
\* the query changes it (the assertion in set_query_origin): only the loss
\* of the connection can make the entry useless.
OriginIsKept ==
    [][\A n \in Node, q \in Query :
          origin[n][q] # None => origin'[n][q] \in {origin[n][q], Gone}]_vars

\* No node is told of the same result twice, although the query itself is
\* sent twice to every peer (start_resolving and fwd_search) and on every
\* path of the mesh.
ResultsOnce ==
    \A n \in Node, q \in Query : \A i, j \in DOMAIN results[n][q] :
        results[n][q][i].sid = results[n][q][j].sid => i = j

\* A result's url leads to its file: it names either this node, which has
\* the file, or a peer that knows the same result, so a stream can be
\* proxied hop by hop (handle_queryresult's greynet://<peer>;<sid>).
UrlsLeadToHolder ==
    \A n \in Node, q \in Query : \A i \in DOMAIN results[n][q] :
        LET r == results[n][q][i] IN
        \/ r.url = n /\ r.sid = n
        \/ /\ r.url \in Node \ {n}
           /\ \E j \in DOMAIN results[r.url][q] : results[r.url][q][j].sid = r.sid

\* A node that stopped working on a query got the stop from the peer it has
\* the query from: a QUERYSTOP that took another path is not obeyed, so
\* nobody but the asker ends a search (handle_querystop).
StopsFollowOrigins ==
    \A n \in Node : \A q \in stopped[n] :
        origin[n][q] \in Node => q \in stopped[origin[n][q]]

\* As long as no connection breaks, a result found anywhere gets to the
\* asker: send_response and handle_queryresult relay it along the origins.
ResultsReachAsker == [](breaks = 0) =>
    \A q \in Query : \A n \in Holder[q] :
        (\E i \in DOMAIN results[n][q] : results[n][q][i].sid = n)
        ~> (\E i \in DOMAIN results[Asker[q]][q] : results[Asker[q]][q][i].sid = n)

\* As long as no connection breaks, a query goes on from every node it gets
\* to, over as many hops as the mesh has: all peers of a node that knows it
\* get to know it, unless that node itself solves or stops it first.  Asked
\* or relayed makes no difference (start_resolving, and fwd_search again).
QueryIsPassedOn == [](breaks = 0) =>
    \A q \in Query : \A n \in Node : \A p \in Topology[n] :
        q \in known[n] ~> (q \in known[p] \/ q \in solved[n] \cup stopped[n])

\* With all connections up, a stop reaches every node that works on the
\* query: what handle_querystop broadcasts the stop for.
StopReachesFrontier ==
    \A n \in Node, q \in Query :
        (q \in stopped[Asker[q]] /\ q \in known[n]) ~> q \in stopped[n]
=============================================================================
