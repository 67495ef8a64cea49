------------------------- MODULE QueryRoutingProofs -------------------------
(***************************************************************************)
(* Proofs about QueryRouting for every mesh, every set of queries and any  *)
(* number of lost connections.  The properties of the origin table are not *)
(* inductive by themselves: Inv adds that a query which is in flight, or   *)
(* recorded with an origin, is known to the node that sent it, and that    *)
(* the asker of a known query knows it.                                    *)
(***************************************************************************)
EXTENDS QueryRouting, TLAPS

-----------------------------------------------------------------------------
(* The inductive invariant.                                                *)

\* What node n may have written: queries it knows, results, and stops of
\* queries it has stopped itself.
Writable(n) ==
    {m \in Message :
        /\ m.type = "QUERY" => m.qid \in known[n]
        /\ m.type = "QUERYRESULT" => m.item \in Item
        /\ m.type = "QUERYSTOP" => m.qid \in stopped[n]}

InFlight == \A n, p \in Node : chan[<<n, p>>] \in Seq(Writable(n))

\* Whatever a node works on, it knows.
WorkIsKnown ==
    \A n \in Node :
        /\ pipeline[n] \subseteq known[n]
        /\ resolving[n] \subseteq known[n]
        /\ stopped[n] \subseteq known[n]
        /\ \A t \in timers[n] : t.qid \in known[n]

AskerKnows == \A n \in Node : \A q \in known[n] : q \in known[Asker[q]]

\* A recorded query is known here, and at the peer it came from.
OriginsKnow ==
    \A n \in Node, q \in Query :
        /\ origin[n][q] # None => q \in known[n]
        /\ origin[n][q] \in Node => q \in known[origin[n][q]]

Inv ==
    /\ TypeOK
    /\ InFlight
    /\ WorkIsKnown
    /\ AskerKnows
    /\ OriginsKnow
    /\ OriginsAcyclic
    /\ AskerHasNoOrigin
    /\ StopsFollowOrigins

-----------------------------------------------------------------------------
(* Sequences and channels.                                                 *)

\* A sequence over a set is a sequence over every larger set.
LEMMA SeqMono ==
    ASSUME NEW S, NEW T, S \subseteq T, NEW s \in Seq(S)
    PROVE  s \in Seq(T)
  OBVIOUS

\* The channels as a set of contents: all of them hold what their writer
\* may have written.
Holds(ch) ==
    /\ ch \in [Node \X Node -> Seq(Message)]
    /\ \A k, r \in Node : ch[<<k, r>>] \in Seq(Writable(k))

\* Reading a message (Popped) leaves only messages that were there.
LEMMA PoppedHolds ==
    ASSUME Inv, NEW n \in Node, NEW p \in Node, chan[<<p, n>>] # <<>>
    PROVE  Holds(Popped(n, p))
  <1> USE DEF Inv, TypeOK, InFlight, Holds, Popped
  <1>1. ASSUME NEW S, NEW s \in Seq(S), s # <<>>
        PROVE  Tail(s) \in Seq(S)
    BY <1>1
  <1>2. <<p, n>> \in Node \X Node
    OBVIOUS
  <1>3. Tail(chan[<<p, n>>]) \in Seq(Message)
    BY <1>1, <1>2
  <1>4. Tail(chan[<<p, n>>]) \in Seq(Writable(p))
    BY <1>1
  <1>5. Popped(n, p) \in [Node \X Node -> Seq(Message)]
    BY <1>3
  <1>6. ASSUME NEW k \in Node, NEW r \in Node
        PROVE  Popped(n, p)[<<k, r>>] \in Seq(Writable(k))
    <2>1. CASE <<k, r>> = <<p, n>>
      BY <2>1, <1>4, <1>2
    <2>2. CASE <<k, r>> # <<p, n>>
      BY <2>2
    <2> QED
      BY <2>1, <2>2
  <1> QED
    BY <1>5, <1>6

\* The message at the head of a channel is one its writer may have written.
LEMMA HeadWritable ==
    ASSUME Inv, NEW n \in Node, NEW p \in Node, chan[<<p, n>>] # <<>>
    PROVE  Head(chan[<<p, n>>]) \in Writable(p)
  <1>1. chan[<<p, n>>] \in Seq(Writable(p))
    BY DEF Inv, InFlight
  <1>2. ASSUME NEW S, NEW s \in Seq(S), s # <<>>
        PROVE  Head(s) \in S
    BY <1>2
  <1> QED
    BY <1>1, <1>2

\* Nothing a node knows or has stopped is forgotten.
Grows ==
    \A n \in Node : known[n] \subseteq known'[n] /\ stopped[n] \subseteq stopped'[n]

\* Channels that held permitted messages still do when the core's sets grow.
LEMMA HoldsKept ==
    ASSUME Grows, NEW ch, Holds(ch)
    PROVE  /\ ch \in [Node \X Node -> Seq(Message)]
           /\ \A k, r \in Node : ch[<<k, r>>] \in Seq(Writable(k)')
  <1>1. \A k \in Node : Writable(k) \subseteq Writable(k)'
    BY DEF Writable, Grows
  <1>2. ASSUME NEW k \in Node, NEW r \in Node
        PROVE  ch[<<k, r>>] \in Seq(Writable(k)')
    BY <1>1, SeqMono DEF Holds
  <1> QED
    BY <1>2 DEF Holds

\* Writing (WriteTo, ForeachConnsExcept, send_response) a message its
\* writer may write keeps all channels in order.
LEMMA WrittenHolds ==
    ASSUME Grows, NEW ch, Holds(ch), NEW n \in Node, NEW peers,
           NEW m \in Writable(n)', chan' = WriteTo(ch, n, peers, m)
    PROVE  chan' \in [Node \X Node -> Seq(Message)] /\ InFlight'
  <1>1. /\ ch \in [Node \X Node -> Seq(Message)]
        /\ \A k, r \in Node : ch[<<k, r>>] \in Seq(Writable(k)')
    BY HoldsKept
  <1>2. m \in Message
    BY DEF Writable
  <1>3. chan' \in [Node \X Node -> Seq(Message)]
    BY <1>1, <1>2 DEF WriteTo
  <1>4. ASSUME NEW k \in Node, NEW r \in Node
        PROVE  chan'[<<k, r>>] \in Seq(Writable(k)')
    <2>1. chan'[<<k, r>>] = IF k = n /\ r \in peers
                            THEN Append(ch[<<k, r>>], m) ELSE ch[<<k, r>>]
      BY DEF WriteTo
    <2>2. CASE k = n /\ r \in peers
      <3>1. ch[<<k, r>>] \in Seq(Writable(k)') /\ m \in Writable(k)'
        BY <2>2, <1>1
      <3>2. ASSUME NEW S, NEW s \in Seq(S), NEW x \in S
            PROVE  Append(s, x) \in Seq(S)
        OBVIOUS
      <3> QED
        BY <2>1, <2>2, <3>1, <3>2
    <2>3. CASE ~(k = n /\ r \in peers)
      BY <2>1, <2>3, <1>1
    <2> QED
      BY <2>2, <2>3
  <1> QED
    BY <1>3, <1>4 DEF InFlight

\* Only reading keeps all channels in order, too.
LEMMA UnwrittenHolds ==
    ASSUME Grows, Holds(chan')
    PROVE  chan' \in [Node \X Node -> Seq(Message)] /\ InFlight'
  BY HoldsKept DEF InFlight

-----------------------------------------------------------------------------
(* Inv holds initially and is kept by every step.                          *)

\* Inv gives the channels the form the lemmas above are about.
LEMMA InvHolds == Inv => Holds(chan)
  BY DEF Inv, TypeOK, InFlight, Holds

LEMMA InitInv == Init => Inv
  <1> SUFFICES ASSUME Init PROVE Inv
    OBVIOUS
  <1> USE ConstAssumption DEF Init
  <1>1. TypeOK
    BY DEF TypeOK
  <1>2. InFlight /\ WorkIsKnown /\ AskerKnows /\ OriginsKnow
    BY DEF InFlight, WorkIsKnown, AskerKnows, OriginsKnow
  <1>3. OriginsAcyclic /\ AskerHasNoOrigin /\ StopsFollowOrigins
    BY DEF OriginsAcyclic, AskerHasNoOrigin, StopsFollowOrigins
  <1> QED
    BY <1>1, <1>2, <1>3 DEF Inv

LEMMA AskQueryInv ==
    ASSUME Inv, NEW q \in Query, AskQuery(q)
    PROVE  Inv'
  <1> USE ConstAssumption DEF AskQuery, dispatch, query_exists, routeVars, linkVars
  <1>1. TypeOK
    BY DEF Inv
  <1>2. Grows
    BY <1>1 DEF TypeOK, Grows
  <1>3. chan' \in [Node \X Node -> Seq(Message)] /\ InFlight'
    <2>1. Holds(chan')
      BY InvHolds DEF Holds, Writable
    <2> QED
      BY <1>2, <2>1, UnwrittenHolds
  <1>4. TypeOK'
    BY <1>1, <1>3 DEF TypeOK
  <1>5. WorkIsKnown' /\ AskerKnows' /\ OriginsKnow'
    BY <1>1 DEF Inv, TypeOK, WorkIsKnown, AskerKnows, OriginsKnow
  <1>6. OriginsAcyclic' /\ AskerHasNoOrigin' /\ StopsFollowOrigins'
    BY DEF Inv, OriginsAcyclic, AskerHasNoOrigin, StopsFollowOrigins
  <1> QED
    BY <1>3, <1>4, <1>5, <1>6 DEF Inv

LEMMA RunPipelineInv ==
    ASSUME Inv, NEW n \in Node, NEW q \in Query, RunPipeline(n, q)
    PROVE  Inv'
  <1> USE ConstAssumption DEF RunPipeline, routeVars, linkVars, coreVars
  <1>1. TypeOK'
    BY DEF Inv, TypeOK
  <1>2. InFlight' /\ AskerKnows' /\ OriginsKnow'
    <2>1. Grows /\ Holds(chan) /\ chan' = chan
      BY InvHolds DEF Grows
    <2>2. InFlight'
      BY <2>1, HoldsKept DEF InFlight
    <2>3. AskerKnows' /\ OriginsKnow'
      BY DEF Inv, AskerKnows, OriginsKnow
    <2> QED
      BY <2>2, <2>3
  <1>3. WorkIsKnown'
    BY DEF Inv, TypeOK, WorkIsKnown
  <1>4. OriginsAcyclic' /\ AskerHasNoOrigin' /\ StopsFollowOrigins'
    BY DEF Inv, OriginsAcyclic, AskerHasNoOrigin, StopsFollowOrigins
  <1> QED
    BY <1>1, <1>2, <1>3, <1>4 DEF Inv

LEMMA StartResolvingInv ==
    ASSUME Inv, NEW n \in Node, NEW q \in Query, start_resolving(n, q)
    PROVE  Inv'
  <1> USE ConstAssumption DEF start_resolving, routeVars, linkVars, coreVars
  <1> DEFINE m == QueryMessage(q, Uuid("QUERY", n, q, None))
  <1>1. Grows /\ Holds(chan)
    BY InvHolds DEF Grows
  <1>2. m \in Writable(n)'
    BY DEF Inv, WorkIsKnown, Writable, Message, QueryMessage, Uuid, Guid
  <1>3. chan' \in [Node \X Node -> Seq(Message)] /\ InFlight'
    BY <1>1, <1>2, WrittenHolds DEF ForeachConnsExcept
  <1>4. TypeOK'
    BY <1>3 DEF Inv, TypeOK
  <1>5. WorkIsKnown' /\ AskerKnows' /\ OriginsKnow'
    BY DEF Inv, TypeOK, WorkIsKnown, AskerKnows, OriginsKnow
  <1>6. OriginsAcyclic' /\ AskerHasNoOrigin' /\ StopsFollowOrigins'
    BY DEF Inv, OriginsAcyclic, AskerHasNoOrigin, StopsFollowOrigins
  <1> QED
    BY <1>3, <1>4, <1>5, <1>6 DEF Inv

LEMMA FwdSearchInv ==
    ASSUME Inv, NEW n \in Node, NEW t \in timers[n], fwd_search(n, t)
    PROVE  Inv'
  <1> USE ConstAssumption DEF fwd_search, dispVars, linkVars, coreVars
  <1> DEFINE m == QueryMessage(t.qid, t.guid)
  <1>1. Grows /\ Holds(chan)
    BY InvHolds DEF Grows
  <1>2. t \in Timer
    BY DEF Inv, TypeOK
  <1>3. m \in Writable(n)'
    BY <1>2 DEF Inv, WorkIsKnown, Writable, Message, QueryMessage, Timer
  <1>4. chan' \in [Node \X Node -> Seq(Message)] /\ InFlight'
    <2>1. CASE t.qid \in solved[n] \cup stopped[n]
      <3>1. chan' = chan
        BY <2>1
      <3>2. Holds(chan')
        BY <1>1, <3>1 DEF Holds, Writable
      <3> QED
        BY <1>1, <3>2, UnwrittenHolds
    <2>2. CASE t.qid \notin solved[n] \cup stopped[n]
      BY <2>2, <1>1, <1>3, WrittenHolds DEF ForeachConnsExcept
    <2> QED
      BY <2>1, <2>2
  <1>5. TypeOK'
    BY <1>4 DEF Inv, TypeOK
  <1>6. WorkIsKnown' /\ AskerKnows' /\ OriginsKnow'
    BY DEF Inv, TypeOK, WorkIsKnown, AskerKnows, OriginsKnow
  <1>7. OriginsAcyclic' /\ AskerHasNoOrigin' /\ StopsFollowOrigins'
    BY DEF Inv, OriginsAcyclic, AskerHasNoOrigin, StopsFollowOrigins
  <1> QED
    BY <1>4, <1>5, <1>6, <1>7 DEF Inv

LEMMA GiveUpInv ==
    ASSUME Inv, NEW q \in Query, GiveUp(q)
    PROVE  Inv'
  <1> USE ConstAssumption DEF GiveUp, dispVars, linkVars, routeVars, query_exists
  <1> DEFINE n == Asker[q]
  <1>1. TypeOK /\ n \in Node
    BY DEF Inv
  <1>2. Grows /\ Holds(chan)
    BY <1>1, InvHolds DEF Grows, TypeOK
  <1>3. QueryStopMessage(q) \in Writable(n)'
    BY <1>1 DEF TypeOK, Writable, Message, QueryStopMessage, Uuid, Guid
  <1>4. chan' \in [Node \X Node -> Seq(Message)] /\ InFlight'
    BY <1>1, <1>2, <1>3, WrittenHolds DEF ForeachConnsExcept
  <1>5. TypeOK'
    BY <1>1, <1>4 DEF TypeOK
  <1>6. WorkIsKnown' /\ AskerKnows' /\ OriginsKnow'
    BY <1>1 DEF Inv, TypeOK, WorkIsKnown, AskerKnows, OriginsKnow
  <1>7. OriginsAcyclic' /\ AskerHasNoOrigin'
    BY DEF Inv, OriginsAcyclic, AskerHasNoOrigin
  <1>8. StopsFollowOrigins'
    BY <1>1 DEF Inv, TypeOK, AskerHasNoOrigin, StopsFollowOrigins
  <1> QED
    BY <1>4, <1>5, <1>6, <1>7, <1>8 DEF Inv

\* A result is recorded (report_results) and sent to the origin of its query.
LEMMA ReportInv ==
    ASSUME Inv, NEW n \in Node, NEW q \in Query, NEW item \in Item, NEW ch,
           Holds(ch), report_results(n, q, item, ch),
           seen' \in [Node -> SUBSET Guid],
           UNCHANGED <<routeVars, dispVars, linkVars>>
    PROVE  Inv'
  <1> USE ConstAssumption DEF report_results, dispVars, linkVars, routeVars
  <1> DEFINE m == QueryResultMessage(n, q, [item EXCEPT !.url = None])
  <1>1. Grows
    BY DEF Grows
  <1>2. m \in Writable(n)'
    BY DEF Writable, Message, QueryResultMessage, Uuid, Guid, Item
  <1>3. chan' \in [Node \X Node -> Seq(Message)] /\ InFlight'
    BY <1>1, <1>2, WrittenHolds DEF send_response
  <1>4. results' \in [Node -> [Query -> Seq(Item)]]
    BY DEF Inv, TypeOK
  <1>5. TypeOK'
    BY <1>3, <1>4 DEF Inv, TypeOK
  <1>6. WorkIsKnown' /\ AskerKnows' /\ OriginsKnow'
    BY DEF Inv, TypeOK, WorkIsKnown, AskerKnows, OriginsKnow
  <1>7. OriginsAcyclic' /\ AskerHasNoOrigin' /\ StopsFollowOrigins'
    BY DEF Inv, OriginsAcyclic, AskerHasNoOrigin, StopsFollowOrigins
  <1> QED
    BY <1>3, <1>5, <1>6, <1>7 DEF Inv

LEMMA LocalMatchInv ==
    ASSUME Inv, NEW n \in Node, NEW q \in Query, LocalMatch(n, q)
    PROVE  Inv'
  <1>1. PICK perfect \in BOOLEAN :
            report_results(n, q, [sid |-> n, perfect |-> perfect, url |-> n], chan)
    BY DEF LocalMatch
  <1>2. [sid |-> n, perfect |-> perfect, url |-> n] \in Item
    BY DEF Item
  <1>3. seen' \in [Node -> SUBSET Guid]
    BY DEF Inv, TypeOK, LocalMatch
  <1> QED
    BY <1>1, <1>2, <1>3, InvHolds, ReportInv DEF LocalMatch

\* The step that records an origin.  Nobody has n as origin yet, because n
\* does not know the query, so n closes no cycle.
LEMMA HandleNewQueryInv ==
    ASSUME Inv, NEW n \in Node, NEW p \in Node, NEW m \in Writable(p),
           m.type = "QUERY", IsNew(n, m.qid), handle_query(n, p, m),
           chan[<<p, n>>] # <<>>, seen' \in [Node -> SUBSET Guid],
           UNCHANGED linkVars
    PROVE  Inv'
  <1> USE ConstAssumption DEF IsNew, query_exists
  <1>0. /\ origin' = [origin EXCEPT ![n][m.qid] = p]
        /\ known' = [known EXCEPT ![n] = @ \cup {m.qid}]
        /\ pipeline' = [pipeline EXCEPT ![n] = @ \cup {m.qid}]
        /\ timers' = [timers EXCEPT ![n] = @ \cup
                         {[qid |-> m.qid, guid |-> m.guid, conn |-> p]}]
        /\ chan' = Popped(n, p)
        /\ UNCHANGED <<solved, stopped, results, resolving, conns, breaks>>
    BY DEF handle_query, dispatch, linkVars
  <1>1. TypeOK /\ m \in Message /\ m.qid \in Query /\ m.guid \in Guid
    BY DEF Inv, Writable, Message
  <1>2. m.qid \in known[p] /\ m.qid \notin known[n] /\ p # n
    BY DEF Writable
  <1>3. Grows
    BY <1>0, <1>1 DEF Grows, TypeOK
  <1>4. Holds(chan')
    <2>1. Holds(Popped(n, p))
      BY PoppedHolds
    <2>2. chan' \in [Node \X Node -> Seq(Message)]
      BY <2>1, <1>0 DEF Holds
    <2>3. \A k, r \in Node : chan'[<<k, r>>] \in Seq(Writable(k))
      BY <2>1, <1>0 DEF Holds
    <2> QED
      BY <2>2, <2>3 DEF Holds
  <1>5. chan' \in [Node \X Node -> Seq(Message)] /\ InFlight'
    BY <1>3, <1>4, UnwrittenHolds
  <1>6. origin' \in [Node -> [Query -> Node \cup {None, Gone}]]
    BY <1>0, <1>1 DEF TypeOK
  <1>7. [qid |-> m.qid, guid |-> m.guid, conn |-> p] \in Timer
    BY <1>1 DEF Timer
  <1>8. TypeOK'
    BY <1>0, <1>1, <1>5, <1>6, <1>7 DEF TypeOK
  <1>9. WorkIsKnown'
    BY <1>0, <1>1 DEF Inv, TypeOK, WorkIsKnown
  <1>10. AskerKnows'
    BY <1>0, <1>1, <1>2 DEF Inv, TypeOK, AskerKnows
  <1>11. \A k \in Node, q \in Query :
             origin'[k][q] = IF k = n /\ q = m.qid THEN p ELSE origin[k][q]
    BY <1>0, <1>1 DEF TypeOK
  <1>12. OriginsKnow'
    BY <1>0, <1>1, <1>2, <1>11 DEF Inv, TypeOK, OriginsKnow
  <1>13. AskerHasNoOrigin'
    BY <1>1, <1>2, <1>11 DEF Inv, AskerKnows, AskerHasNoOrigin
  <1>14. StopsFollowOrigins'
    BY <1>0, <1>1, <1>2, <1>11 DEF Inv, WorkIsKnown, StopsFollowOrigins
  <1>15. OriginsAcyclic'
    <2> SUFFICES ASSUME NEW q \in Query, NEW S \in SUBSET Node, S # {}
                 PROVE  \E k \in S : origin'[k][q] \notin S
      BY DEF OriginsAcyclic
    <2>1. CASE q # m.qid \/ n \notin S
      <3>1. PICK k \in S : origin[k][q] \notin S
        BY DEF Inv, OriginsAcyclic
      <3>2. origin'[k][q] = origin[k][q]
        BY <2>1, <1>11
      <3> QED
        BY <3>1, <3>2
    <2>2. CASE q = m.qid /\ n \in S /\ S = {n}
      BY <2>2, <1>2, <1>11
    <2>3. CASE q = m.qid /\ n \in S /\ S # {n}
      <3>1. \A k \in Node : origin[k][q] # n
        BY <2>3, <1>2 DEF Inv, OriginsKnow
      <3>2. S \ {n} \in SUBSET Node /\ S \ {n} # {}
        BY <2>3
      <3>3. PICK k \in S \ {n} : origin[k][q] \notin S \ {n}
        <4>1. \A T \in SUBSET Node : T # {} => \E k \in T : origin[k][q] \notin T
          BY DEF Inv, OriginsAcyclic
        <4> QED
          BY <3>2, <4>1, Zenon
      <3>4. origin'[k][q] \notin S
        <4>1. k \in Node /\ k # n /\ origin'[k][q] = origin[k][q]
          BY <3>3, <1>11
        <4> QED
          BY <3>1, <3>3, <4>1
      <3> QED
        BY <3>3, <3>4
    <2> QED
      BY <2>1, <2>2, <2>3
  <1> QED
    BY <1>5, <1>8, <1>9, <1>10, <1>12, <1>13, <1>14, <1>15 DEF Inv

\* A message that is read and changes nothing else but the guids seen: a
\* duplicate, a query that exists, a result or a stop of an unknown query.
LEMMA DiscardInv ==
    ASSUME Inv, NEW n \in Node, NEW p \in Node, chan[<<p, n>>] # <<>>,
           chan' = Popped(n, p), seen' \in [Node -> SUBSET Guid],
           UNCHANGED <<routeVars, dispVars, coreVars, linkVars>>
    PROVE  Inv'
  <1> USE DEF routeVars, dispVars, coreVars, linkVars
  <1>1. Grows
    BY DEF Grows
  <1>2. Holds(Popped(n, p))
    BY PoppedHolds
  <1>3. chan' \in [Node \X Node -> Seq(Message)] /\ InFlight'
    <2>1. /\ Popped(n, p) \in [Node \X Node -> Seq(Message)]
          /\ \A k, r \in Node : Popped(n, p)[<<k, r>>] \in Seq(Writable(k)')
      BY <1>1, <1>2, HoldsKept
    <2> QED
      BY <2>1 DEF InFlight
  <1>4. TypeOK'
    BY <1>3 DEF Inv, TypeOK
  <1>5. WorkIsKnown' /\ AskerKnows' /\ OriginsKnow'
    BY DEF Inv, WorkIsKnown, AskerKnows, OriginsKnow
  <1>6. OriginsAcyclic' /\ AskerHasNoOrigin' /\ StopsFollowOrigins'
    BY DEF Inv, OriginsAcyclic, AskerHasNoOrigin, StopsFollowOrigins
  <1> QED
    BY <1>3, <1>4, <1>5, <1>6 DEF Inv

\* A stop that is obeyed came from the origin, which has stopped the query.
LEMMA HandleStopInv ==
    ASSUME Inv, NEW n \in Node, NEW p \in Node, NEW m \in Writable(p),
           m.type = "QUERYSTOP", StopAccepted(n, p, m.qid),
           handle_querystop(n, p, m), chan[<<p, n>>] # <<>>,
           seen' \in [Node -> SUBSET Guid], UNCHANGED linkVars
    PROVE  Inv'
  <1> USE ConstAssumption
  <1>0. /\ stopped' = [stopped EXCEPT ![n] = @ \cup {m.qid}]
        /\ chan' = ForeachConnsExcept(Popped(n, p), n, p, m)
        /\ UNCHANGED <<known, solved, results, origin, timers, pipeline,
                       resolving, conns, breaks>>
    BY DEF handle_querystop, linkVars, routeVars, dispVars
  <1>1. TypeOK /\ m \in Message /\ m.qid \in Query
    BY DEF Inv, Writable, Message
  <1>2. m.qid \in known[n] /\ origin[n][m.qid] = p /\ m.qid \in stopped[p]
    BY DEF StopAccepted, query_exists, get_query_origin, Writable
  <1>3. Grows
    BY <1>0, <1>1 DEF Grows, TypeOK
  <1>4. Holds(Popped(n, p))
    BY PoppedHolds
  <1>5. m \in Writable(n)'
    BY <1>0, <1>1 DEF Writable, TypeOK
  <1>6. chan' \in [Node \X Node -> Seq(Message)] /\ InFlight'
    BY <1>0, <1>3, <1>4, <1>5, WrittenHolds DEF ForeachConnsExcept
  <1>7. TypeOK'
    BY <1>0, <1>1, <1>6 DEF TypeOK
  <1>8. WorkIsKnown' /\ AskerKnows' /\ OriginsKnow'
    BY <1>0, <1>1, <1>2 DEF Inv, TypeOK, WorkIsKnown, AskerKnows, OriginsKnow
  <1>9. OriginsAcyclic' /\ AskerHasNoOrigin'
    BY <1>0 DEF Inv, OriginsAcyclic, AskerHasNoOrigin
  <1>10. StopsFollowOrigins'
    BY <1>0, <1>1, <1>2 DEF Inv, TypeOK, StopsFollowOrigins
  <1> QED
    BY <1>6, <1>7, <1>8, <1>9, <1>10 DEF Inv

LEMMA MessageReceivedInv ==
    ASSUME Inv, NEW n \in Node, NEW p \in Node, message_received(n, p)
    PROVE  Inv'
  <1> DEFINE m == Head(chan[<<p, n>>])
  <1>1. chan[<<p, n>>] # <<>> /\ UNCHANGED linkVars
    BY DEF message_received
  <1>2. m \in Writable(p)
    BY <1>1, HeadWritable
  <1>3. m \in Message /\ m.guid \in Guid /\ m.qid \in Query
    BY <1>2 DEF Writable, Message
  <1>4. seen' \in [Node -> SUBSET Guid]
    <2>1. seen' = seen \/ seen' = [seen EXCEPT ![n] = @ \cup {m.guid}]
      BY DEF message_received
    <2>2. seen \in [Node -> SUBSET Guid]
      BY DEF Inv, TypeOK
    <2> HIDE DEF m
    <2> QED
      BY <2>1, <2>2, <1>3
  <1> HIDE DEF m
  <1>5. CASE m.guid \in seen[n]
    BY <1>1, <1>4, <1>5, DiscardInv DEF message_received, m
  <1>6. CASE handle_query(n, p, m)
    <2>1. CASE IsNew(n, m.qid)
      BY <1>1, <1>2, <1>4, <1>6, <2>1, HandleNewQueryInv DEF handle_query
    <2>2. CASE ~IsNew(n, m.qid)
      BY <1>1, <1>4, <1>6, <2>2, DiscardInv
         DEF handle_query, routeVars, dispVars, coreVars, linkVars
    <2> QED
      BY <2>1, <2>2
  <1>7. CASE handle_queryresult(n, p, m)
    <2>1. CASE query_exists(n, m.qid)
      <3>1. set_url(m.item, p) \in Item
        BY <1>2, <1>7 DEF handle_queryresult, Writable, Item, set_url
      <3>2. report_results(n, m.qid, set_url(m.item, p), Popped(n, p))
        BY <1>7, <2>1 DEF handle_queryresult
      <3> QED
        BY <1>1, <1>3, <1>4, <1>7, <3>1, <3>2, PoppedHolds, ReportInv
           DEF handle_queryresult
    <2>2. CASE ~query_exists(n, m.qid)
      BY <1>1, <1>4, <1>7, <2>2, DiscardInv DEF handle_queryresult
    <2> QED
      BY <2>1, <2>2
  <1>8. CASE handle_querystop(n, p, m)
    <2>1. CASE StopAccepted(n, p, m.qid)
      BY <1>1, <1>2, <1>4, <1>8, <2>1, HandleStopInv DEF handle_querystop
    <2>2. CASE ~StopAccepted(n, p, m.qid)
      BY <1>1, <1>4, <1>8, <2>2, DiscardInv
         DEF handle_querystop, routeVars, dispVars, coreVars, linkVars
    <2> QED
      BY <2>1, <2>2
  <1> QED
    BY <1>5, <1>6, <1>7, <1>8 DEF message_received, m

\* The loss of a connection only removes origins, and what it had in flight.
LEMMA DisconnectInv ==
    ASSUME Inv, NEW n \in Node, NEW p \in Node, Disconnect(n, p)
    PROVE  Inv'
  <1> USE ConstAssumption
  <1>1. TypeOK /\ UNCHANGED <<seen, pipeline, resolving, known, solved, stopped, results>>
    BY DEF Inv, Disconnect, dispVars, coreVars
  <1>2. Grows /\ Holds(chan)
    BY <1>1, InvHolds DEF Grows
  <1>3. chan' = [l \in Node \X Node |->
                    IF l \in {<<n, p>>, <<p, n>>} THEN <<>> ELSE chan[l]]
    BY DEF Disconnect
  <1>4. chan' \in [Node \X Node -> Seq(Message)] /\ InFlight'
    <2>1. chan' \in [Node \X Node -> Seq(Message)]
      BY <1>1, <1>3 DEF TypeOK
    <2>2. ASSUME NEW k \in Node, NEW r \in Node
          PROVE  chan'[<<k, r>>] \in Seq(Writable(k)')
      <3>1. chan[<<k, r>>] \in Seq(Writable(k)')
        BY <1>2, HoldsKept
      <3>2. chan'[<<k, r>>] = <<>> \/ chan'[<<k, r>>] = chan[<<k, r>>]
        BY <1>3
      <3>3. <<>> \in Seq(Writable(k)')
        OBVIOUS
      <3> QED
        BY <3>1, <3>2, <3>3
    <2> QED
      BY <2>1, <2>2 DEF InFlight
  <1>5. \A k \in Node, q \in Query :
            /\ origin'[k][q] \in {origin[k][q], Gone}
            /\ origin[k][q] = None => origin'[k][q] = None
    BY DEF Disconnect, Forget
  <1>6. origin' \in [Node -> [Query -> Node \cup {None, Gone}]]
    BY <1>1 DEF TypeOK, Disconnect, Forget
  <1>7. \A k \in Node : \A t \in timers'[k] :
            t \in Timer /\ \E u \in timers[k] : u.qid = t.qid
    <2> SUFFICES ASSUME NEW k \in Node, NEW t \in timers'[k]
                 PROVE  t \in Timer /\ \E u \in timers[k] : u.qid = t.qid
      OBVIOUS
    <2>1. PICK u \in timers[k] :
              t = u \/ \E r \in Node : t = [u EXCEPT !.conn = Forget(r, @)]
      BY DEF Disconnect
    <2>2. u \in Timer
      BY <1>1 DEF TypeOK
    <2>3. \A r \in Node : Forget(r, u.conn) \in Node \cup {Gone}
      BY <2>2 DEF Forget, Timer
    <2> QED
      BY <2>1, <2>2, <2>3 DEF Timer
  <1>8. timers' \in [Node -> SUBSET Timer]
    BY <1>7 DEF Disconnect
  <1>9. conns' \in [Node -> SUBSET Node] /\ breaks' \in Nat
    BY <1>1 DEF TypeOK, Disconnect
  <1>10. TypeOK'
    BY <1>1, <1>4, <1>6, <1>8, <1>9 DEF TypeOK
  <1>11. WorkIsKnown'
    BY <1>1, <1>7 DEF Inv, WorkIsKnown
  <1>12. AskerKnows' /\ OriginsKnow'
    BY <1>1, <1>5 DEF Inv, AskerKnows, OriginsKnow
  <1>13. AskerHasNoOrigin' /\ StopsFollowOrigins'
    <2>1. AskerHasNoOrigin'
      BY <1>5 DEF Inv, AskerHasNoOrigin
    <2>2. \A k \in Node : \A q \in stopped[k] : q \in Query
      BY <1>1 DEF TypeOK
    <2>3. StopsFollowOrigins'
      BY <1>1, <1>5, <2>2 DEF Inv, StopsFollowOrigins
    <2> QED
      BY <2>1, <2>3
  <1>14. OriginsAcyclic'
    <2> SUFFICES ASSUME NEW q \in Query, NEW S \in SUBSET Node, S # {}
                 PROVE  \E k \in S : origin'[k][q] \notin S
      BY DEF OriginsAcyclic
    <2>1. PICK k \in S : origin[k][q] \notin S
      BY DEF Inv, OriginsAcyclic
    <2> QED
      BY <2>1, <1>5
  <1> QED
    BY <1>4, <1>10, <1>11, <1>12, <1>13, <1>14 DEF Inv

LEMMA ReconnectInv ==
    ASSUME Inv, NEW n \in Node, NEW p \in Node, Reconnect(n, p)
    PROVE  Inv'
  <1> USE DEF Reconnect, routeVars, dispVars, coreVars
  <1>1. Grows /\ Holds(chan) /\ chan' = chan
    BY InvHolds DEF Grows
  <1>2. InFlight'
    BY <1>1, HoldsKept DEF InFlight
  <1>3. TypeOK'
    BY DEF Inv, TypeOK
  <1>4. WorkIsKnown' /\ AskerKnows' /\ OriginsKnow'
    BY DEF Inv, WorkIsKnown, AskerKnows, OriginsKnow
  <1>5. OriginsAcyclic' /\ AskerHasNoOrigin' /\ StopsFollowOrigins'
    BY DEF Inv, OriginsAcyclic, AskerHasNoOrigin, StopsFollowOrigins
  <1> QED
    BY <1>2, <1>3, <1>4, <1>5 DEF Inv

-----------------------------------------------------------------------------
(* The theorems.                                                           *)

\* Every step of the mesh keeps Inv.
LEMMA NextInv == Inv /\ [Next]_vars => Inv'
  <1> SUFFICES ASSUME Inv, [Next]_vars PROVE Inv'
    OBVIOUS
  <1>1. CASE UNCHANGED vars
    <2>1. Grows /\ Holds(chan) /\ chan' = chan
      BY <1>1, InvHolds DEF Grows, vars
    <2>2. InFlight'
      BY <2>1, HoldsKept DEF InFlight
    <2>3. TypeOK' /\ WorkIsKnown' /\ AskerKnows' /\ OriginsKnow'
      BY <1>1 DEF vars, Inv, TypeOK, WorkIsKnown, AskerKnows, OriginsKnow
    <2>4. OriginsAcyclic' /\ AskerHasNoOrigin' /\ StopsFollowOrigins'
      BY <1>1 DEF vars, Inv, OriginsAcyclic, AskerHasNoOrigin, StopsFollowOrigins
    <2> QED
      BY <2>2, <2>3, <2>4 DEF Inv
  <1>2. ASSUME NEW q \in Query, AskQuery(q) \/ GiveUp(q) PROVE Inv'
    BY <1>2, AskQueryInv, GiveUpInv
  <1>3. ASSUME NEW n \in Node, NEW q \in Query,
               RunPipeline(n, q) \/ start_resolving(n, q) \/ LocalMatch(n, q)
        PROVE  Inv'
    BY <1>3, RunPipelineInv, StartResolvingInv, LocalMatchInv
  <1>4. ASSUME NEW n \in Node, NEW t \in timers[n], fwd_search(n, t) PROVE Inv'
    BY <1>4, FwdSearchInv
  <1>5. ASSUME NEW n \in Node, NEW p \in Node,
               message_received(n, p) \/ Disconnect(n, p) \/ Reconnect(n, p)
        PROVE  Inv'
    BY <1>5, MessageReceivedInv, DisconnectInv, ReconnectInv
  <1> QED
    BY <1>1, <1>2, <1>3, <1>4, <1>5 DEF Next

\* Inv holds in every reachable state of every mesh.
THEOREM Invariance == Spec => []Inv
  BY InitInv, NextInv, PTL DEF Spec

\* Every variable keeps its type in every mesh (all handlers of greynet.cpp
\* modelled in QueryRouting).
THEOREM TypeCorrect == Spec => []TypeOK
  <1>1. Inv => TypeOK
    BY DEF Inv
  <1> QED
    BY <1>1, Invariance, PTL

\* In no mesh do the origins recorded by handle_query form a cycle, so no
\* result relayed by send_response can go round in circles.
THEOREM OriginsNeverCycle == Spec => []OriginsAcyclic
  <1>1. Inv => OriginsAcyclic
    BY DEF Inv
  <1> QED
    BY <1>1, Invariance, PTL

\* In no mesh does the asking node take its own query for a peer's
\* (handle_query's test of query_exists).
THEOREM AskerStaysAsker == Spec => []AskerHasNoOrigin
  <1>1. Inv => AskerHasNoOrigin
    BY DEF Inv
  <1> QED
    BY <1>1, Invariance, PTL

\* In every mesh, whoever stopped a query has it from a peer that stopped it,
\* or is the asker, or lost the connection (handle_querystop's test of the
\* origin).
THEOREM StopsComeDown == Spec => []StopsFollowOrigins
  <1>1. Inv => StopsFollowOrigins
    BY DEF Inv
  <1> QED
    BY <1>1, Invariance, PTL

\* In no mesh does a step overwrite a recorded origin: the assertion in
\* set_query_origin (greynet.h) holds whatever copies of a query arrive.
THEOREM OriginNeverOverwritten == Spec => OriginIsKept
  <1> DEFINE Kept == \A n \in Node, q \in Query :
                        origin[n][q] # None => origin'[n][q] \in {origin[n][q], Gone}
  <1>1. Inv /\ [Next]_vars => [Kept]_vars
    <2> SUFFICES ASSUME Inv, Next PROVE Kept
      OBVIOUS
    <2>1. CASE UNCHANGED origin
      BY <2>1
    <2>2. ASSUME NEW n \in Node, NEW p \in Node, message_received(n, p),
                 ~UNCHANGED origin
          PROVE  Kept
      <3> DEFINE m == Head(chan[<<p, n>>])
      <3>1. m \in Message /\ m.qid \in Query
        BY <2>2, HeadWritable DEF message_received, Writable, Message
      <3>2. origin' = [origin EXCEPT ![n][m.qid] = p] /\ m.qid \notin known[n]
        BY <2>2 DEF message_received, routeVars, handle_query, handle_queryresult,
                    handle_querystop, IsNew, query_exists
      <3>3. origin[n][m.qid] = None
        BY <3>1, <3>2 DEF Inv, OriginsKnow
      <3> HIDE DEF m
      <3>4. \A k \in Node, q \in Query :
                origin'[k][q] = IF k = n /\ q = m.qid THEN p ELSE origin[k][q]
        BY <3>1, <3>2 DEF Inv, TypeOK
      <3> QED
        BY <3>3, <3>4
    <2>3. ASSUME NEW n \in Node, NEW p \in Node, Disconnect(n, p)
          PROVE  Kept
      BY <2>3 DEF Disconnect, Forget
    <2>4. CASE \E q \in Query : AskQuery(q) \/ GiveUp(q)
      BY <2>4, <2>1 DEF AskQuery, GiveUp, routeVars
    <2>5. CASE \E n \in Node, q \in Query :
                  RunPipeline(n, q) \/ start_resolving(n, q) \/ LocalMatch(n, q)
      BY <2>5, <2>1 DEF RunPipeline, start_resolving, LocalMatch, routeVars
    <2>6. CASE \E n \in Node : \E t \in timers[n] : fwd_search(n, t)
      BY <2>6, <2>1 DEF fwd_search
    <2>7. CASE \E n, p \in Node : Reconnect(n, p)
      BY <2>7, <2>1 DEF Reconnect, routeVars
    <2> QED
      BY <2>1, <2>2, <2>3, <2>4, <2>5, <2>6, <2>7 DEF Next
  <1> QED
    BY <1>1, Invariance, PTL DEF Spec, OriginIsKept
=============================================================================
