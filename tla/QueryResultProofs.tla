--------------------------- MODULE QueryResultProofs ---------------------------
(***************************************************************************)
(* Proofs about the results of QueryRouting, for every mesh and any number *)
(* of lost connections: no node is told of a result twice, and every url   *)
(* leads to a node that has the result.  Both follow from the way a result *)
(* takes: each node hands it to one peer only, the origin it has or had,   *)
(* so those who know it form a line that starts at its holder and of which *)
(* only the last one still has anybody to tell.                            *)
(***************************************************************************)
EXTENDS QueryRoutingProofs

-----------------------------------------------------------------------------
(* The inductive invariant.                                                *)

\* Node n knows the result that node x has for q.
Has(n, q, x) == \E i \in DOMAIN results[n][q] : results[n][q][i].sid = x

\* ... and has it from node p.
HasFrom(n, q, x, p) ==
    \E i \in DOMAIN results[n][q] :
        results[n][q][i].sid = x /\ results[n][q][i].url = p

\* What may be on its way from n to p: results that n knows, of queries that
\* it has from p.
Tellable(n, p) ==
    {m \in Message :
        m.type = "QUERYRESULT" =>
            /\ m.guid = Uuid("QUERYRESULT", n, m.qid, m.item.sid)
            /\ origin[n][m.qid] = p
            /\ Has(n, m.qid, m.item.sid)}

ToldUpwards == \A n, p \in Node : chan[<<n, p>>] \in Seq(Tellable(n, p))

\* A result is the node's own, or it was read from a peer that knows it,
\* and that has, or had, the query from this node.
ItemOK(n, q, r) ==
    /\ Has(r.sid, q, r.sid)
    /\ \/ r.url = n /\ r.sid = n
       \/ /\ r.url \in Node \ {n}
          /\ Has(r.url, q, r.sid)
          /\ origin[r.url][q] \in {n, Gone}
          /\ Uuid("QUERYRESULT", r.url, q, r.sid) \in seen[n]
          /\ q \in known[n] /\ q \in known[r.url]

ItemsOK ==
    \A n \in Node, q \in Query : \A i \in DOMAIN results[n][q] :
        ItemOK(n, q, results[n][q][i])

\* n has, or had, the query q from p, as far as that still matters.
Up(n, p, q) ==
    \/ origin[n][q] = p
    \/ p # n /\ \E x \in Node : HasFrom(p, q, x, n)

\* Nor do lost origins form a cycle with the others.
UpAcyclic ==
    \A q \in Query : \A S \in SUBSET Node :
        S # {} => \E n \in S : \A p \in S : ~Up(n, p, q)

\* Somebody knows from n that x has a result.
Passed(n, q, x) == \E p \in Node \ {n} : HasFrom(p, q, x, n)

\* Of those who know a result, one at most has not passed it on.
OneLast ==
    \A q \in Query, x, n, p \in Node :
        (Has(n, q, x) /\ ~Passed(n, q, x) /\ Has(p, q, x) /\ ~Passed(p, q, x))
        => n = p

ResultInv ==
    /\ ToldUpwards
    /\ ItemsOK
    /\ UpAcyclic
    /\ OneLast
    /\ ResultsOnce

-----------------------------------------------------------------------------
(* Channels.                                                               *)

\* The channels as a set of contents.
Tells(ch) == \A k, r \in Node : ch[<<k, r>>] \in Seq(Tellable(k, r))

\* What could be told still can.
TellableKept == \A k, r \in Node : Tellable(k, r) \subseteq Tellable(k, r)'

\* Reading a message (Popped) leaves only messages that were there.
LEMMA PoppedTells ==
    ASSUME TypeOK, Tells(chan), NEW n \in Node, NEW p \in Node, chan[<<p, n>>] # <<>>
    PROVE  Tells(Popped(n, p))
  <1>1. ASSUME NEW S, NEW s \in Seq(S), s # <<>>
        PROVE  Tail(s) \in Seq(S)
    BY <1>1
  <1>2. Tail(chan[<<p, n>>]) \in Seq(Tellable(p, n))
    BY <1>1 DEF Tells
  <1> SUFFICES ASSUME NEW k \in Node, NEW r \in Node
               PROVE  Popped(n, p)[<<k, r>>] \in Seq(Tellable(k, r))
    BY DEF Tells
  <1>3. CASE k = p /\ r = n
    <2>1. Popped(n, p)[<<p, n>>] = Tail(chan[<<p, n>>])
      BY DEF Popped, TypeOK
    <2> QED
      BY <1>2, <1>3, <2>1
  <1>4. CASE ~(k = p /\ r = n)
    <2>1. Popped(n, p)[<<k, r>>] = chan[<<k, r>>]
      BY <1>4 DEF Popped, TypeOK
    <2> QED
      BY <2>1 DEF Tells
  <1> QED
    BY <1>3, <1>4

\* The message at the head of a channel is one its writer may tell.
LEMMA HeadTellable ==
    ASSUME ToldUpwards, NEW n \in Node, NEW p \in Node, chan[<<p, n>>] # <<>>
    PROVE  Head(chan[<<p, n>>]) \in Tellable(p, n)
  <1>1. chan[<<p, n>>] \in Seq(Tellable(p, n))
    BY DEF ToldUpwards
  <1>2. ASSUME NEW S, NEW s \in Seq(S), s # <<>>
        PROVE  Head(s) \in S
    BY <1>2
  <1> QED
    BY <1>1, <1>2

\* Nothing is written, and something may be read or lost.
LEMMA UnwrittenTells ==
    ASSUME TellableKept, Tells(chan')
    PROVE  ToldUpwards'
  <1> SUFFICES ASSUME NEW k \in Node, NEW r \in Node
               PROVE  chan'[<<k, r>>] \in Seq(Tellable(k, r)')
    BY DEF ToldUpwards
  <1>1. chan'[<<k, r>>] \in Seq(Tellable(k, r)) /\ Tellable(k, r) \subseteq Tellable(k, r)'
    BY DEF Tells, TellableKept
  <1> QED
    BY <1>1, SeqMono

\* A message is written (WriteTo) to peers that may be told it.
LEMMA WrittenTells ==
    ASSUME TellableKept, NEW ch, Tells(ch), NEW n \in Node, NEW peers, NEW m,
           \A r \in Node : r \in peers => m \in Tellable(n, r)',
           chan' = WriteTo(ch, n, peers, m)
    PROVE  ToldUpwards'
  <1> SUFFICES ASSUME NEW k \in Node, NEW r \in Node
               PROVE  chan'[<<k, r>>] \in Seq(Tellable(k, r)')
    BY DEF ToldUpwards
  <1>1. ch[<<k, r>>] \in Seq(Tellable(k, r)')
    <2>1. ch[<<k, r>>] \in Seq(Tellable(k, r)) /\ Tellable(k, r) \subseteq Tellable(k, r)'
      BY DEF Tells, TellableKept
    <2> QED
      BY <2>1, SeqMono
  <1>2. chan'[<<k, r>>] = IF k = n /\ r \in peers
                          THEN Append(ch[<<k, r>>], m) ELSE ch[<<k, r>>]
    BY DEF WriteTo
  <1>3. ASSUME NEW S, NEW s \in Seq(S), NEW x \in S
        PROVE  Append(s, x) \in Seq(S)
    OBVIOUS
  <1>4. CASE k = n /\ r \in peers
    <2>1. m \in Tellable(k, r)'
      BY <1>4
    <2> QED
      BY <1>1, <1>2, <1>3, <1>4, <2>1
  <1>5. CASE ~(k = n /\ r \in peers)
    BY <1>1, <1>2, <1>5
  <1> QED
    BY <1>4, <1>5

\* Queries and stops may be told to everybody.
LEMMA OtherTellable ==
    ASSUME NEW m \in Message, m.type # "QUERYRESULT", NEW n, NEW r
    PROVE  m \in Tellable(n, r)'
  BY DEF Tellable

-----------------------------------------------------------------------------
(* Steps that tell no result.                                              *)

\* What is known and what was seen only grows.
SeenGrows == \A n \in Node : seen[n] \subseteq seen'[n] /\ known[n] \subseteq known'[n]

\* A recorded result stays in order while nobody forgets it and its origin
\* is at most lost.
LEMMA ItemKept ==
    ASSUME NEW n \in Node, NEW q \in Query, NEW r \in Item, ItemOK(n, q, r), SeenGrows,
           \A k, x \in Node : Has(k, q, x) => Has(k, q, x)',
           r.url \in Node \ {n} => origin'[r.url][q] \in {origin[r.url][q], Gone}
    PROVE  ItemOK(n, q, r)'
  BY DEF ItemOK, SeenGrows, Item

LEMMA QuietTellable ==
    ASSUME UNCHANGED <<origin, results>>
    PROVE  TellableKept
  BY DEF TellableKept, Tellable, Has

\* No origin and no result changes.
LEMMA QuietInv ==
    ASSUME TypeOK, ResultInv, SeenGrows, UNCHANGED <<origin, results>>, ToldUpwards'
    PROVE  ResultInv'
  <1>1. \A n, q, x, p : /\ Has(n, q, x)' <=> Has(n, q, x)
                        /\ HasFrom(n, q, x, p)' <=> HasFrom(n, q, x, p)
    BY DEF Has, HasFrom
  <1>2. ItemsOK'
    <2> SUFFICES ASSUME NEW n \in Node, NEW q \in Query, NEW i \in DOMAIN results[n][q]
                 PROVE  ItemOK(n, q, results[n][q][i])'
      BY DEF ItemsOK
    <2>1. ItemOK(n, q, results[n][q][i])
      BY DEF ResultInv, ItemsOK
    <2> QED
      BY <1>1, <2>1 DEF ItemOK, SeenGrows
  <1>3. UpAcyclic'
    BY <1>1 DEF ResultInv, UpAcyclic, Up
  <1>4. OneLast'
    BY <1>1 DEF ResultInv, OneLast, Passed
  <1>5. ResultsOnce'
    BY DEF ResultInv, ResultsOnce
  <1> QED
    BY <1>2, <1>3, <1>4, <1>5 DEF ResultInv

\* The core's steps, the timers, and the first stop of a query.
LEMMA CoreResultInv ==
    ASSUME Inv, ResultInv,
           \/ \E q \in Query : AskQuery(q) \/ GiveUp(q)
           \/ \E n \in Node, q \in Query : RunPipeline(n, q) \/ start_resolving(n, q)
           \/ \E n \in Node : \E t \in timers[n] : fwd_search(n, t)
           \/ \E n, p \in Node : Reconnect(n, p)
    PROVE  ResultInv'
  <1> USE ConstAssumption
  <1>1. TypeOK /\ Tells(chan)
    BY DEF Inv, ResultInv, ToldUpwards, Tells
  <1>2. UNCHANGED <<origin, results>> /\ SeenGrows
    <2>1. UNCHANGED <<origin, results, seen>>
      BY DEF AskQuery, GiveUp, RunPipeline, start_resolving, fwd_search, Reconnect,
             dispatch, routeVars, coreVars
    <2>2. known' = known \/ \E n \in Node, q \in Query : known' = [known EXCEPT ![n] = @ \cup {q}]
      BY DEF AskQuery, GiveUp, RunPipeline, start_resolving, fwd_search, Reconnect,
             dispatch, coreVars
    <2>3. known \in [Node -> SUBSET Query]
      BY <1>1 DEF TypeOK
    <2>4. \A n \in Node : known[n] \subseteq known'[n]
      BY <2>2, <2>3
    <2> QED
      BY <2>1, <2>4 DEF SeenGrows
  <1>3. TellableKept
    BY <1>2, QuietTellable
  <1>4. CASE chan' = chan
    BY <1>1, <1>2, <1>3, <1>4, UnwrittenTells, QuietInv DEF Tells
  <1>5. ASSUME NEW n \in Node, NEW peers, NEW m \in Message, m.type # "QUERYRESULT",
               chan' = WriteTo(chan, n, peers, m)
        PROVE  ResultInv'
    <2>1. \A r \in Node : r \in peers => m \in Tellable(n, r)'
      BY <1>5, OtherTellable
    <2>2. ToldUpwards'
      BY <1>1, <1>3, <1>5, <2>1, WrittenTells
    <2> QED
      BY <1>1, <1>2, <2>2, QuietInv
  <1>6. ASSUME NEW q \in Query, GiveUp(q) PROVE ResultInv'
    <2>1. QueryStopMessage(q) \in Message /\ QueryStopMessage(q).type # "QUERYRESULT"
      BY DEF QueryStopMessage, Message, Uuid, Guid
    <2>2. chan' = WriteTo(chan, Asker[q], conns[Asker[q]] \ {None}, QueryStopMessage(q))
      BY <1>6 DEF GiveUp, ForeachConnsExcept
    <2> HIDE DEF QueryStopMessage
    <2> QED
      BY <1>5, <2>1, <2>2
  <1>7. ASSUME NEW n \in Node, NEW q \in Query, start_resolving(n, q) PROVE ResultInv'
    <2> DEFINE m == QueryMessage(q, Uuid("QUERY", n, q, None))
               peers == conns[n] \ {get_query_origin(n, q)}
    <2>1. m \in Message /\ m.type # "QUERYRESULT"
      BY DEF QueryMessage, Message, Uuid, Guid
    <2>2. chan' = WriteTo(chan, n, peers, m)
      BY <1>7 DEF start_resolving, ForeachConnsExcept
    <2> HIDE DEF m, peers
    <2> QED
      BY <1>5, <2>1, <2>2
  <1>8. ASSUME NEW n \in Node, NEW t \in timers[n], fwd_search(n, t) PROVE ResultInv'
    <2> DEFINE m == QueryMessage(t.qid, t.guid)
               peers == conns[n] \ {t.conn}
    <2>1. m \in Message /\ m.type # "QUERYRESULT"
      <3>1. t \in Timer
        BY <1>1 DEF TypeOK
      <3> QED
        BY <3>1 DEF Timer, QueryMessage, Message
    <2>2. chan' = chan \/ chan' = WriteTo(chan, n, peers, m)
      BY <1>8 DEF fwd_search, ForeachConnsExcept
    <2> HIDE DEF m, peers
    <2> QED
      BY <1>4, <1>5, <2>1, <2>2
  <1>9. ASSUME \/ \E q \in Query : AskQuery(q)
               \/ \E n \in Node, q \in Query : RunPipeline(n, q)
               \/ \E n, p \in Node : Reconnect(n, p)
        PROVE  ResultInv'
    BY <1>4, <1>9 DEF AskQuery, RunPipeline, Reconnect
  <1> QED
    BY <1>6, <1>7, <1>8, <1>9

\* A message that is read and changes no more than the guids seen and the
\* core's stopped queries, a stop that is passed on among them.
LEMMA ReadInv ==
    ASSUME Inv, ResultInv, SeenGrows, UNCHANGED <<origin, results>>,
           NEW n \in Node, NEW p \in Node, chan[<<p, n>>] # <<>>,
           \/ chan' = Popped(n, p)
           \/ \E m \in Message : \E peers :
                 m.type # "QUERYRESULT" /\ chan' = WriteTo(Popped(n, p), n, peers, m)
    PROVE  ResultInv'
  <1>1. TypeOK /\ Tells(chan) /\ TellableKept
    BY QuietTellable DEF Inv, ResultInv, ToldUpwards, Tells
  <1>2. Tells(Popped(n, p))
    BY <1>1, PoppedTells
  <1>3. CASE chan' = Popped(n, p)
    <2>1. Tells(chan')
      BY <1>2, <1>3 DEF Tells
    <2>2. ToldUpwards'
      BY <1>1, <2>1, UnwrittenTells
    <2> QED
      BY <1>1, <2>2, QuietInv
  <1>4. ASSUME NEW m \in Message, NEW peers, m.type # "QUERYRESULT",
               chan' = WriteTo(Popped(n, p), n, peers, m)
        PROVE  ResultInv'
    <2>1. \A r \in Node : r \in peers => m \in Tellable(n, r)'
      BY <1>4, OtherTellable
    <2>2. ToldUpwards'
      BY <1>1, <1>2, <1>4, <2>1, WrittenTells
    <2> QED
      BY <1>1, <2>2, QuietInv
  <1> QED
    BY <1>3, <1>4

-----------------------------------------------------------------------------
(* Steps that change the origins.                                          *)

\* Nobody has told n of a query it does not know, nor has it from n.
LEMMA UnknownFree ==
    ASSUME Inv, ResultInv, NEW n \in Node, NEW q \in Query, q \notin known[n]
    PROVE  /\ origin[n][q] = None
           /\ \A k \in Node : ~Up(k, n, q)
           /\ \A k \in Node \ {n}, x \in Node : ~HasFrom(k, q, x, n)
  <1>1. origin[n][q] = None /\ \A k \in Node : origin[k][q] # n
    BY DEF Inv, OriginsKnow
  <1>2. ASSUME NEW k \in Node \ {n}, NEW x \in Node, HasFrom(n, q, x, k)
        PROVE  FALSE
    <2>1. PICK i \in DOMAIN results[n][q] : results[n][q][i].url = k
      BY <1>2 DEF HasFrom
    <2>2. ItemOK(n, q, results[n][q][i])
      BY DEF ResultInv, ItemsOK
    <2> QED
      BY <2>1, <2>2 DEF ItemOK
  <1>3. ASSUME NEW k \in Node \ {n}, NEW x \in Node, HasFrom(k, q, x, n)
        PROVE  FALSE
    <2>1. PICK i \in DOMAIN results[k][q] : results[k][q][i].url = n
      BY <1>3 DEF HasFrom
    <2>2. ItemOK(k, q, results[k][q][i])
      BY DEF ResultInv, ItemsOK
    <2> QED
      BY <2>1, <2>2 DEF ItemOK
  <1> QED
    BY <1>1, <1>2, <1>3 DEF Up

\* The step that records an origin.  Nothing leads to n yet, so n closes no
\* cycle.
LEMMA NewQueryResultInv ==
    ASSUME Inv, ResultInv, NEW n \in Node, NEW p \in Node \ {n}, NEW q \in Query,
           q \notin known[n], chan[<<p, n>>] # <<>>, chan' = Popped(n, p), SeenGrows,
           origin' = [origin EXCEPT ![n][q] = p], UNCHANGED results
    PROVE  ResultInv'
  <1> USE ConstAssumption
  <1>1. TypeOK /\ Tells(chan)
    BY DEF Inv, ResultInv, ToldUpwards, Tells
  <1>2. /\ origin[n][q] = None
        /\ \A k \in Node : ~Up(k, n, q)
        /\ \A k \in Node \ {n}, x \in Node : ~HasFrom(k, q, x, n)
    BY UnknownFree
  <1>3. \A k \in Node, r \in Query :
            origin'[k][r] = IF k = n /\ r = q THEN p ELSE origin[k][r]
    BY <1>1 DEF TypeOK
  <1>4. \A k, r, x, l : /\ Has(k, r, x)' <=> Has(k, r, x)
                        /\ HasFrom(k, r, x, l)' <=> HasFrom(k, r, x, l)
    BY DEF Has, HasFrom
  <1>5. ToldUpwards'
    <2>1. TellableKept
      <3> SUFFICES ASSUME NEW k \in Node, NEW r \in Node, NEW m \in Tellable(k, r),
                          m.type = "QUERYRESULT"
                   PROVE  origin'[k][m.qid] = r
        BY <1>4 DEF TellableKept, Tellable
      <3>1. m.qid \in Query /\ origin[k][m.qid] = r
        BY DEF Tellable, Message
      <3> QED
        BY <1>2, <1>3, <3>1
    <2>2. Tells(Popped(n, p))
      BY <1>1, PoppedTells
    <2>3. Tells(chan')
      BY <2>2 DEF Tells
    <2> QED
      BY <2>1, <2>3, UnwrittenTells
  <1>6. ItemsOK'
    <2> SUFFICES ASSUME NEW k \in Node, NEW r \in Query, NEW i \in DOMAIN results[k][r]
                 PROVE  ItemOK(k, r, results[k][r][i])'
      BY DEF ItemsOK
    <2>1. ItemOK(k, r, results[k][r][i])
      BY DEF ResultInv, ItemsOK
    <2>2. PICK it \in Item : it = results[k][r][i]
      BY <1>1 DEF TypeOK
    <2>3. ItemOK(k, r, it) /\ (it.url = n /\ r = q => k = n)
      BY <2>1, <2>2 DEF ItemOK
    <2>4. it.url \in Node \ {k} => origin'[it.url][r] = origin[it.url][r]
      BY <1>3, <2>3
    <2>5. ItemOK(k, r, it)'
      BY <1>4, <2>3, <2>4, ItemKept
    <2> QED
      BY <2>2, <2>5
  <1>7. \A k, l \in Node, r \in Query :
            Up(k, l, r)' => Up(k, l, r) \/ (k = n /\ r = q /\ l = p)
    BY <1>3, <1>4 DEF Up
  <1>8. UpAcyclic'
    <2> SUFFICES ASSUME NEW r \in Query, NEW S \in SUBSET Node, S # {}
                 PROVE  \E k \in S : \A l \in S : ~Up(k, l, r)'
      BY DEF UpAcyclic
    <2>1. CASE r # q \/ n \notin S
      <3>1. PICK k \in S : \A l \in S : ~Up(k, l, r)
        BY DEF ResultInv, UpAcyclic
      <3> QED
        BY <1>7, <2>1, <3>1
    <2>2. CASE r = q /\ S = {n}
      BY <1>2, <1>7, <2>2
    <2>3. CASE r = q /\ n \in S /\ S # {n}
      <3>1. S \ {n} \in SUBSET Node /\ S \ {n} # {}
        BY <2>3
      <3>2. PICK k \in S \ {n} : \A l \in S \ {n} : ~Up(k, l, q)
        BY <3>1 DEF ResultInv, UpAcyclic
      <3>3. \A l \in S : ~Up(k, l, q)
        BY <1>2, <3>2
      <3> QED
        BY <1>7, <2>3, <3>2, <3>3
    <2> QED
      BY <2>1, <2>2, <2>3
  <1>9. OneLast'
    BY <1>4 DEF ResultInv, OneLast, Passed
  <1>10. ResultsOnce'
    BY DEF ResultInv, ResultsOnce
  <1> QED
    BY <1>5, <1>6, <1>8, <1>9, <1>10 DEF ResultInv

\* A lost connection takes with it the results that are on their way along
\* the origins it takes.
LEMMA DisconnectResultInv ==
    ASSUME Inv, ResultInv, NEW n \in Node, NEW p \in Node, Disconnect(n, p)
    PROVE  ResultInv'
  <1> USE ConstAssumption
  <1>1. TypeOK /\ UNCHANGED <<seen, known, results>>
    BY DEF Inv, Disconnect, coreVars
  <1>2. \A k \in Node, q \in Query :
            /\ origin'[k][q] \in {origin[k][q], Gone}
            /\ origin'[k][q] # origin[k][q] => \/ k = n /\ origin[k][q] = p
                                               \/ k = p /\ origin[k][q] = n
    <2> SUFFICES ASSUME NEW k \in Node, NEW q \in Query
                 PROVE  /\ origin'[k][q] \in {origin[k][q], Gone}
                        /\ origin'[k][q] # origin[k][q] => \/ k = n /\ origin[k][q] = p
                                                           \/ k = p /\ origin[k][q] = n
      OBVIOUS
    <2>1. CASE k \in {n, p}
      <3>1. origin'[k][q] = Forget(IF k = n THEN p ELSE n, origin[k][q])
        BY <2>1 DEF Disconnect
      <3> QED
        BY <2>1, <3>1 DEF Forget
    <2>2. CASE k \notin {n, p}
      BY <2>2 DEF Disconnect
    <2> QED
      BY <2>1, <2>2
  <1>3. \A k, r, x, l : /\ Has(k, r, x)' <=> Has(k, r, x)
                        /\ HasFrom(k, r, x, l)' <=> HasFrom(k, r, x, l)
    BY <1>1 DEF Has, HasFrom
  <1>4. ToldUpwards'
    <2> SUFFICES ASSUME NEW k \in Node, NEW r \in Node
                 PROVE  chan'[<<k, r>>] \in Seq(Tellable(k, r)')
      BY DEF ToldUpwards
    <2>1. chan'[<<k, r>>] = IF <<k, r>> \in {<<n, p>>, <<p, n>>} THEN <<>> ELSE chan[<<k, r>>]
      BY DEF Disconnect
    <2>2. CASE <<k, r>> \in {<<n, p>>, <<p, n>>}
      <3>1. chan'[<<k, r>>] = <<>>
        BY <2>1, <2>2
      <3> QED
        BY <3>1
    <2>3. CASE <<k, r>> \notin {<<n, p>>, <<p, n>>}
      <3>1. Tellable(k, r) \subseteq Tellable(k, r)'
        <4> SUFFICES ASSUME NEW m \in Tellable(k, r), m.type = "QUERYRESULT"
                     PROVE  origin'[k][m.qid] = r
          BY <1>3 DEF Tellable
        <4>1. m.qid \in Query /\ origin[k][m.qid] = r
          BY DEF Tellable, Message
        <4> QED
          BY <1>2, <2>3, <4>1
      <3>2. chan[<<k, r>>] \in Seq(Tellable(k, r))
        BY DEF ResultInv, ToldUpwards
      <3>3. chan'[<<k, r>>] = chan[<<k, r>>]
        BY <2>1, <2>3
      <3> QED
        BY <3>1, <3>2, <3>3, SeqMono
    <2> QED
      BY <2>2, <2>3
  <1>5. ItemsOK'
    <2> SUFFICES ASSUME NEW k \in Node, NEW r \in Query, NEW i \in DOMAIN results[k][r]
                 PROVE  ItemOK(k, r, results[k][r][i])'
      BY <1>1 DEF ItemsOK
    <2>1. ItemOK(k, r, results[k][r][i])
      BY DEF ResultInv, ItemsOK
    <2> QED
      BY <1>1, <1>2, <1>3, <2>1 DEF ItemOK
  <1>6. \A k, l \in Node, q \in Query : Up(k, l, q)' => Up(k, l, q)
    BY <1>2, <1>3 DEF Up
  <1>7. UpAcyclic'
    <2> SUFFICES ASSUME NEW q \in Query, NEW S \in SUBSET Node, S # {}
                 PROVE  \E k \in S : \A l \in S : ~Up(k, l, q)'
      BY DEF UpAcyclic
    <2>1. PICK k \in S : \A l \in S : ~Up(k, l, q)
      BY DEF ResultInv, UpAcyclic
    <2> QED
      BY <1>6, <2>1
  <1>8. OneLast' /\ ResultsOnce'
    BY <1>1, <1>3 DEF ResultInv, OneLast, Passed, ResultsOnce
  <1> QED
    BY <1>4, <1>5, <1>7, <1>8 DEF ResultInv

-----------------------------------------------------------------------------
(* Steps that tell a result.                                               *)

\* n records item for q (report_results), and nobody anything else.
Records(n, q, item) ==
    /\ \A k \in Node, r \in Query : \A x :
          Has(k, r, x)' <=> Has(k, r, x) \/ (k = n /\ r = q /\ x = item.sid)
    /\ \A k \in Node, r \in Query : \A x, l :
          HasFrom(k, r, x, l)' <=>
              HasFrom(k, r, x, l) \/ (k = n /\ r = q /\ x = item.sid /\ l = item.url)
    /\ \A k \in Node, r \in Query : \A i \in DOMAIN results'[k][r] :
          \/ i \in DOMAIN results[k][r] /\ results'[k][r][i] = results[k][r][i]
          \/ /\ k = n /\ r = q /\ i = Len(results[n][q]) + 1
             /\ results'[k][r][i] = item

LEMMA Recorded ==
    ASSUME TypeOK, NEW n \in Node, NEW q \in Query, NEW item \in Item,
           results' = [results EXCEPT ![n][q] = Append(@, item)]
    PROVE  Records(n, q, item)
  <1>1. /\ results'[n][q] = Append(results[n][q], item)
        /\ \A k \in Node, r \in Query :
              ~(k = n /\ r = q) => results'[k][r] = results[k][r]
    BY DEF TypeOK
  <1>2. ASSUME NEW S, NEW s \in Seq(S), NEW x \in S
        PROVE  /\ DOMAIN Append(s, x) = 1..(Len(s) + 1) /\ Len(s) \in Nat
               /\ DOMAIN s = 1..Len(s)
               /\ \A i \in 1..Len(s) : Append(s, x)[i] = s[i]
               /\ Append(s, x)[Len(s) + 1] = x
    OBVIOUS
  <1>3. PICK s, t : s = results[n][q] /\ t = results'[n][q]
    OBVIOUS
  <1>4. s \in Seq(Item)
    BY <1>3 DEF TypeOK
  <1>5. /\ DOMAIN t = 1..(Len(s) + 1) /\ Len(s) \in Nat
        /\ DOMAIN s = 1..Len(s)
        /\ \A i \in 1..Len(s) : t[i] = s[i]
        /\ t[Len(s) + 1] = item
    BY <1>1, <1>2, <1>3, <1>4
  <1>6. \A i \in DOMAIN t :
            (i \in DOMAIN s /\ t[i] = s[i]) \/ (i = Len(s) + 1 /\ t[i] = item)
    BY <1>5
  <1>7. /\ \A i \in DOMAIN s : i \in DOMAIN t /\ t[i] = s[i]
        /\ Len(s) + 1 \in DOMAIN t
    BY <1>5
  <1>8. \A x : Has(n, q, x)' <=> Has(n, q, x) \/ x = item.sid
    BY <1>3, <1>5, <1>6, <1>7 DEF Has
  <1>9. \A x, l : HasFrom(n, q, x, l)' <=>
                      HasFrom(n, q, x, l) \/ (x = item.sid /\ l = item.url)
    BY <1>3, <1>5, <1>6, <1>7 DEF HasFrom
  <1>10. \A k \in Node, r \in Query : ~(k = n /\ r = q) =>
            \A x, l : /\ Has(k, r, x)' <=> Has(k, r, x)
                      /\ HasFrom(k, r, x, l)' <=> HasFrom(k, r, x, l)
    BY <1>1 DEF Has, HasFrom
  <1>11. \A k \in Node, r \in Query : \A i \in DOMAIN results'[k][r] :
            \/ i \in DOMAIN results[k][r] /\ results'[k][r][i] = results[k][r][i]
            \/ /\ k = n /\ r = q /\ i = Len(results[n][q]) + 1
               /\ results'[k][r][i] = item
    BY <1>1, <1>3, <1>6
  <1>12. ASSUME NEW k \in Node, NEW r \in Query, NEW x
         PROVE  Has(k, r, x)' <=> Has(k, r, x) \/ (k = n /\ r = q /\ x = item.sid)
    BY <1>8, <1>10
  <1>13. ASSUME NEW k \in Node, NEW r \in Query, NEW x, NEW l
         PROVE  HasFrom(k, r, x, l)' <=>
                   HasFrom(k, r, x, l) \/ (k = n /\ r = q /\ x = item.sid /\ l = item.url)
    BY <1>9, <1>10
  <1> QED
    BY <1>11, <1>12, <1>13 DEF Records

\* Nothing is forgotten.
LEMMA HasKept ==
    ASSUME NEW n \in Node, NEW q \in Query, NEW item, Records(n, q, item),
           NEW k \in Node, NEW r \in Query, NEW x, Has(k, r, x)
    PROVE  Has(k, r, x)'
  <1>1. \A y : Has(k, r, y)' <=> Has(k, r, y) \/ (k = n /\ r = q /\ y = item.sid)
    BY DEF Records
  <1> QED
    BY <1>1

\* A result n did not have is recorded, and told to the peer n has the query
\* from.  Whoever told n was the last of those who know it; now n is.
LEMMA ReportResultInv ==
    ASSUME Inv, ResultInv, NEW n \in Node, NEW q \in Query, NEW item \in Item, NEW ch,
           Tells(ch), report_results(n, q, item, ch), SeenGrows, UNCHANGED origin,
           ~Has(n, q, item.sid),
           ItemOK(n, q, item)',
           item.url \in Node /\ (item.url = n \/ origin[item.url][q] = n),
           \A k \in Node : Has(k, q, item.sid) /\ ~Passed(k, q, item.sid) => k = item.url
    PROVE  ResultInv'
  <1> USE ConstAssumption
  <1>0. TypeOK /\ item.sid \in Node
    BY DEF Inv, Item
  <1>1. Records(n, q, item)
    BY <1>0, Recorded DEF report_results
  <1>2. ToldUpwards'
    <2>1. TellableKept
      BY <1>1 DEF TellableKept, Tellable, Message, Item, Records
    <2> DEFINE m == QueryResultMessage(n, q, [item EXCEPT !.url = None])
               peers == {get_query_origin(n, q)} \cap Node
    <2>2. chan' = WriteTo(ch, n, peers, m)
      BY DEF report_results, send_response
    <2>3. \A r \in Node : r \in peers => m \in Tellable(n, r)'
      <3> SUFFICES ASSUME NEW r \in Node, r = get_query_origin(n, q)
                   PROVE  m \in Tellable(n, r)'
        OBVIOUS
      <3>1. origin'[n][q] = r
        BY DEF get_query_origin
      <3>2. Has(n, q, item.sid)'
        BY <1>0, <1>1 DEF Records
      <3>3. /\ m \in Message /\ m.qid = q
            /\ m.item.sid = item.sid /\ m.guid = Uuid("QUERYRESULT", n, q, item.sid)
        BY DEF Message, QueryResultMessage, Uuid, Guid, Item
      <3> HIDE DEF m
      <3> QED
        BY <3>1, <3>2, <3>3 DEF Tellable
    <2> HIDE DEF m, peers
    <2> QED
      BY <2>1, <2>2, <2>3, WrittenTells
  <1>3. ItemsOK'
    <2> SUFFICES ASSUME NEW k \in Node, NEW r \in Query, NEW i \in DOMAIN results'[k][r]
                 PROVE  ItemOK(k, r, results[k][r][i])'
      BY DEF ItemsOK
    <2>1. CASE i \in DOMAIN results[k][r] /\ results'[k][r][i] = results[k][r][i]
      <3>1. PICK it \in Item : it = results[k][r][i]
        BY <1>0, <2>1 DEF TypeOK
      <3>2. ItemOK(k, r, it)
        BY <2>1, <3>1 DEF ResultInv, ItemsOK
      <3>3. ItemOK(k, r, it)'
        BY <1>1, <3>2, ItemKept DEF Records
      <3> QED
        BY <2>1, <3>1, <3>3
    <2>2. CASE k = n /\ r = q /\ results'[k][r][i] = item
      BY <2>2
    <2> QED
      BY <1>1, <2>1, <2>2 DEF Records
  <1>4. UpAcyclic'
    <2>1. \A k, l \in Node, r \in Query : Up(k, l, r)' => Up(k, l, r)
      BY <1>1 DEF Up, Records
    <2> SUFFICES ASSUME NEW r \in Query, NEW S \in SUBSET Node, S # {}
                 PROVE  \E k \in S : \A l \in S : ~Up(k, l, r)'
      BY DEF UpAcyclic
    <2>2. PICK k \in S : \A l \in S : ~Up(k, l, r)
      BY DEF ResultInv, UpAcyclic
    <2> QED
      BY <2>1, <2>2
  <1>5. \A k, x \in Node, r \in Query :
            /\ Passed(k, r, x) => Passed(k, r, x)'
            /\ ~(r = q /\ x = item.sid) => /\ Has(k, r, x)' <=> Has(k, r, x)
                                           /\ Passed(k, r, x)' <=> Passed(k, r, x)
    BY <1>1 DEF Passed, Records
  <1>6. ASSUME NEW k \in Node, Has(k, q, item.sid)', ~Passed(k, q, item.sid)'
        PROVE  k = n
    <2> SUFFICES ASSUME k # n PROVE FALSE
      OBVIOUS
    <2>1. Has(k, q, item.sid) /\ ~Passed(k, q, item.sid)
      BY <1>0, <1>1, <1>5, <1>6 DEF Records
    <2>2. k = item.url
      BY <2>1
    <2>3. HasFrom(n, q, item.sid, k)'
      BY <1>0, <1>1, <2>2 DEF Records
    <2> QED
      BY <1>6, <2>3 DEF Passed
  <1>7. OneLast'
    <2> SUFFICES ASSUME NEW r \in Query, NEW x \in Node, NEW k \in Node, NEW l \in Node,
                        Has(k, r, x)', ~Passed(k, r, x)',
                        Has(l, r, x)', ~Passed(l, r, x)'
                 PROVE  k = l
      BY DEF OneLast
    <2>1. CASE r = q /\ x = item.sid
      BY <1>6, <2>1
    <2>2. CASE ~(r = q /\ x = item.sid)
      BY <1>5, <2>2 DEF ResultInv, OneLast
    <2> QED
      BY <2>1, <2>2
  <1>8. ResultsOnce'
    <2> SUFFICES ASSUME NEW k \in Node, NEW r \in Query,
                        NEW i \in DOMAIN results'[k][r], NEW j \in DOMAIN results'[k][r],
                        results'[k][r][i].sid = results'[k][r][j].sid
                 PROVE  i = j
      BY DEF ResultsOnce
    <2>1. ASSUME NEW l \in DOMAIN results[n][q] PROVE results[n][q][l].sid # item.sid
      BY DEF Has
    <2>2. /\ \/ i \in DOMAIN results[k][r] /\ results'[k][r][i] = results[k][r][i]
             \/ /\ k = n /\ r = q /\ i = Len(results[n][q]) + 1
                /\ results'[k][r][i] = item
          /\ \/ j \in DOMAIN results[k][r] /\ results'[k][r][j] = results[k][r][j]
             \/ /\ k = n /\ r = q /\ j = Len(results[n][q]) + 1
                /\ results'[k][r][j] = item
      BY <1>1 DEF Records
    <2>3. CASE /\ i \in DOMAIN results[k][r] /\ results'[k][r][i] = results[k][r][i]
               /\ j \in DOMAIN results[k][r] /\ results'[k][r][j] = results[k][r][j]
      BY <2>3 DEF ResultInv, ResultsOnce
    <2> QED
      BY <2>1, <2>2, <2>3
  <1> QED
    BY <1>2, <1>3, <1>4, <1>7, <1>8 DEF ResultInv

\* A node finds its own match.  Nobody can have heard of it before.
LEMMA LocalMatchResultInv ==
    ASSUME Inv, ResultInv, NEW n \in Node, NEW q \in Query, LocalMatch(n, q)
    PROVE  ResultInv'
  <1>1. PICK perfect \in BOOLEAN :
            report_results(n, q, [sid |-> n, perfect |-> perfect, url |-> n], chan)
    BY DEF LocalMatch
  <1>2. PICK item \in Item : item = [sid |-> n, perfect |-> perfect, url |-> n]
    BY DEF Item
  <1>3. item.sid = n /\ item.url = n
    BY <1>2
  <1>4. TypeOK /\ Tells(chan)
    BY DEF Inv, ResultInv, ToldUpwards, Tells
  <1>5. UNCHANGED <<origin, seen, known>>
    BY <1>1 DEF LocalMatch, report_results, routeVars
  <1>6. report_results(n, q, item, chan) /\ SeenGrows
    BY <1>1, <1>2, <1>5 DEF SeenGrows
  <1>7. ~Has(n, q, n)
    BY DEF LocalMatch, Has
  <1>8. \A k \in Node : ~Has(k, q, n)
    <2> SUFFICES ASSUME NEW k \in Node, NEW i \in DOMAIN results[k][q],
                        results[k][q][i].sid = n
                 PROVE  FALSE
      BY DEF Has
    <2>1. ItemOK(k, q, results[k][q][i])
      BY DEF ResultInv, ItemsOK
    <2> QED
      BY <1>7, <2>1 DEF ItemOK
  <1>9. ItemOK(n, q, item)'
    <2>1. Records(n, q, item)
      BY <1>4, <1>6, Recorded DEF report_results
    <2>2. Has(n, q, n)'
      BY <1>3, <2>1 DEF Records
    <2> QED
      BY <1>3, <2>2 DEF ItemOK
  <1> QED
    BY <1>3, <1>4, <1>5, <1>6, <1>7, <1>8, <1>9, ReportResultInv

\* The peer p that tells n of a result is the last who knows it, and n does
\* not know it: otherwise those who know it would form a cycle.
LEMMA ToldByLast ==
    ASSUME Inv, ResultInv, NEW n \in Node, NEW p \in Node, NEW q \in Query, NEW x \in Node,
           origin[p][q] = n, Has(p, q, x),
           Uuid("QUERYRESULT", p, q, x) \notin seen[n]
    PROVE  /\ p # n
           /\ ~Has(n, q, x)
           /\ \A k \in Node : Has(k, q, x) /\ ~Passed(k, q, x) => k = p
  <1> USE ConstAssumption
  <1>1. \A k \in Node : \A l \in Node \ {k} : HasFrom(k, q, x, l) =>
            /\ origin[l][q] \in {k, Gone}
            /\ Uuid("QUERYRESULT", l, q, x) \in seen[k]
            /\ Has(l, q, x)
    <2> SUFFICES ASSUME NEW k \in Node, NEW l \in Node \ {k}, NEW i \in DOMAIN results[k][q],
                        results[k][q][i].sid = x, results[k][q][i].url = l
                 PROVE  /\ origin[l][q] \in {k, Gone}
                        /\ Uuid("QUERYRESULT", l, q, x) \in seen[k]
                        /\ Has(l, q, x)
      BY DEF HasFrom
    <2>1. ItemOK(k, q, results[k][q][i])
      BY DEF ResultInv, ItemsOK
    <2> QED
      BY <2>1 DEF ItemOK
  <1>2. p # n
    <2>1. {p} \in SUBSET Node /\ {p} # {}
      OBVIOUS
    <2>2. \E k \in {p} : \A l \in {p} : ~Up(k, l, q)
      BY <2>1 DEF ResultInv, UpAcyclic
    <2>3. ~Up(p, p, q)
      BY <2>2
    <2> QED
      BY <2>3 DEF Up
  <1>3. ~Passed(p, q, x)
    <2> SUFFICES ASSUME NEW k \in Node \ {p}, HasFrom(k, q, x, p)
                 PROVE  FALSE
      BY DEF Passed
    <2>1. origin[p][q] \in {k, Gone} /\ Uuid("QUERYRESULT", p, q, x) \in seen[k]
      BY <1>1
    <2> QED
      BY <2>1
  <1>4. \A k \in Node : Has(k, q, x) /\ ~Passed(k, q, x) => k = p
    BY <1>3 DEF ResultInv, OneLast
  <1>5. ASSUME Has(n, q, x) PROVE FALSE
    <2> DEFINE S == {k \in Node : Has(k, q, x)}
    <2>1. S \in SUBSET Node /\ S # {}
      BY <1>5
    <2>2. PICK k \in S : \A l \in S : ~Up(k, l, q)
      BY <2>1 DEF ResultInv, UpAcyclic
    <2>3. CASE k = p
      BY <1>5, <2>2, <2>3 DEF Up
    <2>4. CASE k # p
      <3>1. Passed(k, q, x)
        BY <1>4, <2>2, <2>4
      <3>2. PICK l \in Node \ {k} : HasFrom(l, q, x, k)
        BY <3>1 DEF Passed
      <3>3. l \in S
        BY <3>2 DEF HasFrom, Has
      <3> QED
        BY <2>2, <3>2, <3>3 DEF Up
    <2> QED
      BY <2>3, <2>4
  <1> QED
    BY <1>2, <1>4, <1>5

\* handle_queryresult with the result of a query that exists.
LEMMA ResultReadInv ==
    ASSUME Inv, ResultInv, NEW n \in Node, NEW p \in Node, chan[<<p, n>>] # <<>>,
           NEW m, m = Head(chan[<<p, n>>]), m.type = "QUERYRESULT", m.guid \notin seen[n],
           query_exists(n, m.qid),
           report_results(n, m.qid, set_url(m.item, p), Popped(n, p)),
           seen' = [seen EXCEPT ![n] = @ \cup {m.guid}], UNCHANGED origin
    PROVE  ResultInv'
  <1> USE ConstAssumption
  <1>1. TypeOK /\ Tells(chan)
    BY DEF Inv, ResultInv, ToldUpwards, Tells
  <1>2. /\ m \in Message /\ m.qid \in Query /\ m.item \in Item /\ m.item.sid \in Node
        /\ m.guid = Uuid("QUERYRESULT", p, m.qid, m.item.sid)
        /\ origin[p][m.qid] = n
        /\ Has(p, m.qid, m.item.sid)
    <2>1. m \in Tellable(p, n) /\ m \in Writable(p)
      BY HeadTellable, HeadWritable DEF ResultInv
    <2>2. m.item \in Item
      BY <2>1 DEF Writable
    <2>3. m.item.sid \in Node
      BY <2>2 DEF Item
    <2> QED
      BY <2>1, <2>2, <2>3 DEF Tellable, Message
  <1>3. PICK q \in Query, x \in Node, item \in Item :
            /\ q = m.qid /\ x = m.item.sid /\ item = set_url(m.item, p)
            /\ item.sid = x /\ item.url = p
    <2>1. set_url(m.item, p) \in Item /\ set_url(m.item, p).sid = m.item.sid
          /\ set_url(m.item, p).url = p
      BY <1>2 DEF set_url, Item
    <2> QED
      BY <1>2, <2>1
  <1>4. /\ p # n
        /\ ~Has(n, q, x)
        /\ \A k \in Node : Has(k, q, x) /\ ~Passed(k, q, x) => k = p
    <2>1. /\ origin[p][q] = n /\ Has(p, q, x)
          /\ m.guid = Uuid("QUERYRESULT", p, q, x)
      BY <1>2, <1>3, Zenon
    <2>2. Uuid("QUERYRESULT", p, q, x) \notin seen[n]
      BY <2>1
    <2> QED
      BY <2>1, <2>2, ToldByLast
  <1>5. SeenGrows
    BY <1>1 DEF SeenGrows, TypeOK, report_results
  <1>6. Tells(Popped(n, p))
    BY <1>1, PoppedTells
  <1>7. Records(n, q, item)
    BY <1>1, <1>3, Recorded DEF report_results
  <1>8. ItemOK(n, q, item)'
    <2>1. Has(x, q, x)
      <3>1. PICK i \in DOMAIN results[p][q] : results[p][q][i].sid = x
        BY <1>2, <1>3 DEF Has
      <3>2. ItemOK(p, q, results[p][q][i])
        BY DEF ResultInv, ItemsOK
      <3> QED
        BY <3>1, <3>2 DEF ItemOK
    <2>2. Has(x, q, x)' /\ Has(p, q, x)'
      <3>1. Has(p, q, x)
        BY <1>2, <1>3
      <3> QED
        BY <1>7, <2>1, <3>1, HasKept
    <2>3. origin'[p][q] = n
      BY <1>2, <1>3
    <2>4. Uuid("QUERYRESULT", p, q, x) \in seen'[n]
      BY <1>1, <1>2, <1>3 DEF TypeOK
    <2>5. q \in known'[n] /\ q \in known'[p]
      <3>1. q \in known[n]
        BY <1>3 DEF query_exists
      <3>2. q \in known[p]
        BY <1>2, <1>3 DEF Inv, OriginsKnow
      <3> QED
        BY <3>1, <3>2 DEF report_results
    <2>6. item.sid = x /\ item.url = p /\ p \in Node \ {n}
      BY <1>3, <1>4
    <2> QED
      BY <2>2, <2>3, <2>4, <2>5, <2>6 DEF ItemOK, Uuid
  <1>9. report_results(n, q, item, Popped(n, p))
    BY <1>3
  <1>10. /\ item.url \in Node /\ origin[item.url][q] = n
         /\ ~Has(n, q, item.sid)
         /\ \A k \in Node : Has(k, q, item.sid) /\ ~Passed(k, q, item.sid) => k = item.url
    <2>1. item.url = p /\ item.sid = x /\ origin[p][q] = n
      BY <1>2, <1>3, Zenon
    <2> QED
      BY <1>4, <2>1
  <1> QED
    BY <1>5, <1>6, <1>8, <1>9, <1>10, ReportResultInv

LEMMA MessageResultInv ==
    ASSUME Inv, ResultInv, NEW n \in Node, NEW p \in Node, message_received(n, p)
    PROVE  ResultInv'
  <1> USE ConstAssumption
  <1>1. PICK m : m = Head(chan[<<p, n>>])
    OBVIOUS
  <1>2. /\ TypeOK /\ chan[<<p, n>>] # <<>>
        /\ m \in Writable(p) /\ m \in Message /\ m.qid \in Query
    <2>1. chan[<<p, n>>] # <<>>
      BY DEF message_received
    <2>2. m \in Writable(p)
      BY <1>1, <2>1, HeadWritable
    <2> QED
      BY <2>1, <2>2 DEF Inv, Writable, Message
  <1>3. CASE m.guid \in seen[n]
    <2>1. chan' = Popped(n, p) /\ UNCHANGED <<seen, origin, known, results>>
      BY <1>1, <1>3 DEF message_received, routeVars, coreVars
    <2> QED
      BY <1>2, <2>1, ReadInv DEF SeenGrows
  <1>4. ASSUME m.guid \notin seen[n], UNCHANGED <<origin, known, results>>,
               \/ chan' = Popped(n, p)
               \/ \E k \in Message : \E peers :
                     k.type # "QUERYRESULT" /\ chan' = WriteTo(Popped(n, p), n, peers, k)
        PROVE  ResultInv'
    <2>1. seen' = [seen EXCEPT ![n] = @ \cup {m.guid}]
      BY <1>1, <1>4 DEF message_received
    <2>2. SeenGrows
      BY <1>2, <1>4, <2>1 DEF SeenGrows, TypeOK
    <2> QED
      BY <1>2, <1>4, <2>2, ReadInv
  <1>5. CASE m.guid \notin seen[n] /\ handle_query(n, p, m)
    <2>1. CASE IsNew(n, m.qid)
      <3>1. /\ origin' = [origin EXCEPT ![n][m.qid] = p] /\ UNCHANGED results
            /\ known' = [known EXCEPT ![n] = @ \cup {m.qid}]
            /\ chan' = Popped(n, p)
            /\ seen' = [seen EXCEPT ![n] = @ \cup {m.guid}]
        BY <1>1, <1>5, <2>1 DEF message_received, handle_query, dispatch
      <3>2. m.qid \notin known[n] /\ m.qid \in known[p]
        BY <1>2, <1>5, <2>1 DEF IsNew, query_exists, handle_query, Writable
      <3>3. SeenGrows
        BY <1>2, <3>1 DEF SeenGrows, TypeOK
      <3> QED
        BY <1>2, <3>1, <3>2, <3>3, NewQueryResultInv
    <2>2. CASE ~IsNew(n, m.qid)
      BY <1>4, <1>5, <2>2 DEF handle_query, routeVars
    <2> QED
      BY <2>1, <2>2
  <1>6. CASE m.guid \notin seen[n] /\ handle_queryresult(n, p, m)
    <2>1. CASE query_exists(n, m.qid)
      <3>1. /\ m.type = "QUERYRESULT" /\ UNCHANGED origin
            /\ report_results(n, m.qid, set_url(m.item, p), Popped(n, p))
        BY <1>6, <2>1 DEF handle_queryresult, routeVars
      <3>2. seen' = [seen EXCEPT ![n] = @ \cup {m.guid}]
        BY <1>1, <1>6 DEF message_received
      <3> QED
        BY <1>1, <1>2, <1>6, <2>1, <3>1, <3>2, ResultReadInv
    <2>2. CASE ~query_exists(n, m.qid)
      BY <1>4, <1>6, <2>2 DEF handle_queryresult, routeVars, coreVars
    <2> QED
      BY <2>1, <2>2
  <1>7. CASE m.guid \notin seen[n] /\ handle_querystop(n, p, m)
    <2>1. m.type # "QUERYRESULT" /\ UNCHANGED <<origin, known, results>>
      BY <1>7 DEF handle_querystop, routeVars
    <2>2. \/ chan' = Popped(n, p)
          \/ chan' = WriteTo(Popped(n, p), n, conns[n] \ {p}, m)
      BY <1>7 DEF handle_querystop, ForeachConnsExcept
    <2> QED
      BY <1>2, <1>4, <1>7, <2>1, <2>2
  <1> QED
    BY <1>1, <1>3, <1>5, <1>6, <1>7 DEF message_received

-----------------------------------------------------------------------------
(* The theorems.                                                           *)

LEMMA InitResultInv == Init => ResultInv
  <1> SUFFICES ASSUME Init PROVE ResultInv
    OBVIOUS
  <1> USE ConstAssumption DEF Init
  <1>1. ToldUpwards /\ ItemsOK /\ ResultsOnce
    BY DEF ToldUpwards, ItemsOK, ResultsOnce
  <1>2. \A n \in Node, q \in Query : \A x, p : ~Has(n, q, x) /\ ~HasFrom(n, q, x, p)
    BY DEF Has, HasFrom
  <1>3. UpAcyclic
    <2>1. \A n, p \in Node, q \in Query : ~Up(n, p, q)
      BY <1>2 DEF Up
    <2> QED
      BY <2>1 DEF UpAcyclic
  <1>4. OneLast
    BY <1>2 DEF OneLast
  <1> QED
    BY <1>1, <1>3, <1>4 DEF ResultInv

LEMMA NextResultInv == Inv /\ ResultInv /\ [Next]_vars => ResultInv'
  <1> SUFFICES ASSUME Inv, ResultInv, [Next]_vars PROVE ResultInv'
    OBVIOUS
  <1>1. CASE UNCHANGED vars
    <2>1. UNCHANGED <<origin, results, seen, known, chan>>
      BY <1>1 DEF vars
    <2>2. SeenGrows /\ TellableKept /\ Tells(chan')
      BY <2>1, QuietTellable DEF SeenGrows, ResultInv, ToldUpwards, Tells
    <2>3. ToldUpwards'
      BY <2>2, UnwrittenTells
    <2> QED
      BY <2>1, <2>2, <2>3, QuietInv DEF Inv
  <1>2. ASSUME NEW n \in Node, NEW q \in Query, LocalMatch(n, q) PROVE ResultInv'
    BY <1>2, LocalMatchResultInv
  <1>3. ASSUME NEW n \in Node, NEW p \in Node,
               message_received(n, p) \/ Disconnect(n, p)
        PROVE  ResultInv'
    BY <1>3, MessageResultInv, DisconnectResultInv
  <1> QED
    BY <1>1, <1>2, <1>3, CoreResultInv DEF Next

\* ResultInv holds in every reachable state of every mesh.
THEOREM ResultInvariance == Spec => []ResultInv
  BY InitInv, NextInv, InitResultInv, NextResultInv, PTL DEF Spec

\* In every mesh, whatever paths its queries and connections take, no node is
\* told of the same result twice (report_results and send_response).
THEOREM ToldOnce == Spec => []ResultsOnce
  <1>1. ResultInv => ResultsOnce
    BY DEF ResultInv
  <1> QED
    BY <1>1, ResultInvariance, PTL

\* In every mesh, the url that handle_queryresult gives to a result names a
\* peer that has the result too, and hop by hop the node that has the file.
THEOREM UrlsLead == Spec => []UrlsLeadToHolder
  <1>1. ResultInv => UrlsLeadToHolder
    <2> SUFFICES ASSUME ResultInv, NEW n \in Node, NEW q \in Query,
                        NEW i \in DOMAIN results[n][q]
                 PROVE  LET r == results[n][q][i] IN
                        \/ r.url = n /\ r.sid = n
                        \/ /\ r.url \in Node \ {n}
                           /\ \E j \in DOMAIN results[r.url][q] :
                                  results[r.url][q][j].sid = r.sid
      BY DEF UrlsLeadToHolder
    <2>1. ItemOK(n, q, results[n][q][i])
      BY DEF ResultInv, ItemsOK
    <2> QED
      BY <2>1 DEF ItemOK, Has
  <1> QED
    BY <1>1, ResultInvariance, PTL
=============================================================================
