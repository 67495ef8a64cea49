----------------------------- MODULE RelayProofs -----------------------------
(***************************************************************************)
(* For any number of connections, transfers and chunks:                    *)
(*                                                                         *)
(* - the names in the urls, whatever the texts of the names and sids: the  *)
(*   factory finds the connection a result came from unless it is closed.  *)
(*   The argument rests on what taking a url apart yields (UrlRoundTrip),  *)
(*   on names being different, and on a closed connection staying closed;  *)
(* - for transfers that share no sid, a chain of two nodes implements the  *)
(*   safety part of Stream, as one node does.                              *)
(***************************************************************************)
EXTENDS Relay, GreynetUrlProofs

-----------------------------------------------------------------------------
(* Invariant.                                                              *)

\* The parts of Alice's state that a refusal is about.
AliceOK ==
    /\ a_link \in [Conn -> {"ready", "lost", "closed"}]
    /\ a_pc \in [Transfer -> {"none", "refused", "made", "checked", "mapped", "tracked",
                              "requested", "timed", "cancelling", "erasing", "started"}]

Inv == AliceOK /\ UrlFindsPeer

LEMMA InitInv == Init => Inv
  BY DEF Init, A!Init, Inv, AliceOK, UrlFindsPeer

-----------------------------------------------------------------------------
(* The connection of a url.                                                *)

\* A text over some characters is one over more of them.
LEMMA TextOver ==
    ASSUME NEW S, NEW T, S \subseteq T, NEW t \in Seq(S)
    PROVE  t \in Seq(T) /\ DOMAIN t = 1..Len(t)
  <1>1. t \in Seq(T)
    OBVIOUS
  <1>2. DOMAIN t = 1..Len(t)
    OBVIOUS
  <1> QED
    BY <1>1, <1>2

\* handle_queryresult gives the name of the connection to the url, the
\* factory takes it out again.
LEMMA NameInUrl ==
    ASSUME NEW c \in Conn, NEW x
    PROVE  Url!username(Url!greynet_url(Name[c], <<x>>)) = Name[c]
  <1> DEFINE Char == STRING \cup {"g", "r", "e", "y", "n", "t", ":", "/", ";", x}
  <1>0. Scheme \in Seq(Char)
    <2>1. \A t \in {"g", "r", "e", "y", "n", "t", ":", "/"} : t \in Char
      OBVIOUS
    <2> HIDE DEF Char
    <2> QED
      BY <2>1 DEF Scheme
  <1>1. Separator \in Char /\ <<x>> \in Seq(Char)
    <2>1. ";" \in Char /\ x \in Char
      OBVIOUS
    <2>2. \A S : \A y \in S : <<y>> \in Seq(S)
      OBVIOUS
    <2> QED
      BY <2>1, <2>2, Zenon DEF Separator
  <1>2. Name[c] \in Seq(STRING)
    BY NameAssumption
  <1>3. Name[c] \in Seq(Char) /\ DOMAIN Name[c] = 1..Len(Name[c])
    <2>1. STRING \subseteq Char
      BY Zenon
    <2> QED
      BY <1>2, <2>1, TextOver, Zenon
  <1>4. \A i \in 1..Len(Name[c]) : Name[c][i] # Separator
    BY <1>3, NameAssumption DEF Separator
  <1>5. username(greynet_url(Name[c], <<x>>)) = Name[c]
    <2> HIDE DEF Char
    <2> QED
      BY <1>0, <1>1, <1>3, <1>4, UrlRoundTrip
  <1> QED
    BY <1>5 DEF Url!username, Url!greynet_url, Url!offset, Url!offset2,
                Url!Separators, Url!Separator, Url!Scheme,
                username, greynet_url, offset, offset2, Separators,
                Separator, Scheme

\* get_conn finds nothing only when the connection is closed.
LEMMA ConnFound ==
    ASSUME NEW s \in Transfer, get_conn(s) = {}
    PROVE  a_link[ConnOf[s]] = "closed"
  <1>1. ConnOf[s] \in Conn
    BY ConstAssumption
  <1>2. Url!username(Url!greynet_url(Name[ConnOf[s]], <<SidOf[s]>>)) = Name[ConnOf[s]]
    BY <1>1, NameInUrl
  <1> QED
    BY <1>1, <1>2 DEF get_conn

-----------------------------------------------------------------------------
(* Steps.                                                                  *)

\* No connection is opened again, and nothing is refused.
Progress ==
    /\ a_link' \in [Conn -> {"ready", "lost", "closed"}]
    /\ \A c \in Conn : a_link[c] = "closed" => a_link'[c] = "closed"
    /\ a_pc' \in [Transfer -> {"none", "refused", "made", "checked", "mapped", "tracked",
                               "requested", "timed", "cancelling", "erasing", "started"}]
    /\ \A s \in Transfer : a_pc'[s] = "refused" => a_pc[s] = "refused"

LEMMA ProgressInv ==
    ASSUME Inv, Progress
    PROVE  Inv'
  BY ConstAssumption DEF Inv, AliceOK, UrlFindsPeer, Progress

\* Bob and Charlie can do nothing to Alice's connections and threads.
LEMMA ElsewhereInv ==
    ASSUME Inv, UNCHANGED <<a_link, a_pc>>
    PROVE  Inv'
  BY DEF Inv, AliceOK, UrlFindsPeer

LEMMA AliceThreadInv ==
    ASSUME Inv, AliceThread
    PROVE  Inv'
  <1>1. CASE \E c \in Conn : A!connection_terminated(c)
    <2>1. Progress
      BY <1>1 DEF A!connection_terminated, Progress, Inv, AliceOK
    <2> QED
      BY <2>1, ProgressInv
  <1>2. CASE A!unregister_sidtransfer \/ A!erase_sid \/ A!cancel_next
    BY <1>2, ElsewhereInv
       DEF A!unregister_sidtransfer, A!erase_sid, A!cancel_next, A!netVars
  <1>3. CASE \E c \in Conn : A!message_received(c)
    BY <1>3, ElsewhereInv DEF A!message_received
  <1>4. CASE \E s \in Transfer : A!timeout_cb(s)
    BY <1>4, ElsewhereInv DEF A!timeout_cb, A!netVars
  <1> QED
    BY <1>1, <1>2, <1>3, <1>4 DEF AliceThread, A!IoThread

LEMMA AliceWebInv ==
    ASSUME Inv, NEW s \in Transfer, AliceWeb(s)
    PROVE  Inv'
  <1>1. PICK at \in {"checked", "mapped", "tracked", "requested", "timed",
                      "cancelling", "erasing", "started"} :
            a_pc' = [a_pc EXCEPT ![s] = at] /\ a_link' = a_link
    BY DEF AliceWeb, A!WebThread, A!start_reply, A!cancel_loop, A!cancel_erase,
           A!register_ss, A!register_conn, A!start_sidrequest, A!make_timer,
           A!start_timer, A!netVars
  <1>2. Progress
    BY <1>1 DEF Progress, Inv, AliceOK
  <1> QED
    BY <1>2, ProgressInv

\* The step that may refuse.
LEMMA FactoryInv ==
    ASSUME Inv, NEW s \in Transfer, factory(s)
    PROVE  Inv'
  <1>1. CASE ConnOf[s] \in get_conn(s) /\ A!factory(s)
    <2>1. a_link[ConnOf[s]] # "closed"
      BY <1>1 DEF get_conn
    <2>2. a_pc' = [a_pc EXCEPT ![s] = "made"] /\ a_link' = a_link
      BY <1>1, <2>1 DEF A!factory, A!netVars
    <2>3. Progress
      BY <2>2 DEF Progress, Inv, AliceOK
    <2> QED
      BY <2>3, ProgressInv
  <1>2. CASE get_conn(s) = {}
    <2>1. a_link[ConnOf[s]] = "closed"
      BY <1>2, ConnFound
    <2>2. a_pc' = [a_pc EXCEPT ![s] = "refused"] /\ a_link' = a_link
      BY <1>2 DEF factory
    <2>3. AliceOK'
      BY <2>2 DEF Inv, AliceOK
    <2>4. UrlFindsPeer'
      BY <2>1, <2>2 DEF Inv, AliceOK, UrlFindsPeer
    <2> QED
      BY <2>3, <2>4 DEF Inv
  <1> QED
    BY <1>1, <1>2 DEF factory

LEMMA BobThreadInv ==
    ASSUME Inv, BobThread
    PROVE  Inv'
  <1>1. CASE B!IoThread /\ Relayed
    BY <1>1, ElsewhereInv DEF Relayed
  <1>2. ASSUME NEW c \in Conn, sid_unknown(c) PROVE Inv'
    BY <1>2, ElsewhereInv DEF sid_unknown, A!PeerRequest
  <1>3. ASSUME NEW c \in Conn, handle_sidrequest(c) PROVE Inv'
    BY <1>3, ElsewhereInv DEF handle_sidrequest, A!PeerRequest
  <1> QED
    BY <1>1, <1>2, <1>3 DEF BobThread

LEMMA ExpiresInv ==
    ASSUME Inv, NEW s \in Transfer, Expires(s)
    PROVE  Inv'
  BY ElsewhereInv DEF Expires, A!expire, A!netVars, aVars

LEMMA DropInv ==
    ASSUME Inv, NEW c \in Conn, Drop(c)
    PROVE  Inv'
  <1>1. CASE A!Drop(c)
    <2>1. Progress
      BY <1>1 DEF A!Drop, Progress, Inv, AliceOK
    <2> QED
      BY <2>1, ProgressInv
  <1>2. CASE UNCHANGED aVars
    BY <1>2, ElsewhereInv DEF aVars
  <1> QED
    BY <1>1, <1>2 DEF Drop

-----------------------------------------------------------------------------
(* The theorems.                                                           *)

LEMMA NextInv == Inv /\ [Next]_vars => Inv'
  <1> SUFFICES ASSUME Inv, [Next]_vars PROVE Inv'
    OBVIOUS
  <1>1. CASE UNCHANGED vars
    BY <1>1, ElsewhereInv DEF vars, aVars
  <1>2. CASE Charlie
    BY <1>2, ElsewhereInv DEF Charlie, aVars
  <1> QED
    BY <1>1, <1>2, AliceThreadInv, AliceWebInv, FactoryInv, BobThreadInv, DropInv,
       ExpiresInv DEF Next

\* Inv holds however Alice, Bob, Charlie and the network act.
THEOREM Invariance == Spec => []Inv
  BY InitInv, NextInv, PTL DEF Spec

\* However many transfers there are and whatever the peers are called: the
\* url that handle_queryresult composes leads ss_greynet::factory back to
\* the connection of the result, so a transfer is refused only when that
\* connection is closed.
THEOREM UrlLeadsBack == Spec => []UrlFindsPeer
  <1>1. Inv => UrlFindsPeer
    BY DEF Inv
  <1> QED
    BY <1>1, Invariance, PTL

-----------------------------------------------------------------------------
(* Alice and Bob as receivers, with what StreamingProofs proves of each.   *)

AP == INSTANCE StreamingProofs WITH
    Http <- Transfer,
    link <- a_link, requests <- a_requests, inbox <- a_inbox, adaptor <- a_adaptor,
    pc <- a_pc, m_sid2ss <- a_m_sid2ss, m_conn2sid <- a_m_conn2sid,
    m_timer <- a_m_timer, headers <- a_headers, out <- a_out, io <- a_io,
    crashed <- a_crashed

BP == INSTANCE StreamingProofs WITH
    Http <- {},
    link <- b_link, requests <- b_requests, inbox <- b_inbox, adaptor <- b_adaptor,
    pc <- b_pc, m_sid2ss <- b_m_sid2ss, m_conn2sid <- b_m_conn2sid,
    m_timer <- b_m_timer, headers <- b_headers, out <- b_out, io <- b_io,
    crashed <- b_crashed

\* No two transfers share a sid.
SidsDiffer == \A s, t \in Transfer : SidOf[s] = SidOf[t] => s = t

LEMMA Receivers ==
    ASSUME SidsDiffer
    PROVE  /\ AP!ConstAssumption /\ AP!StreamsApart
           /\ BP!ConstAssumption /\ BP!StreamsApart
  BY ConstAssumption DEF SidsDiffer, AP!ConstAssumption, AP!StreamsApart,
     BP!ConstAssumption, BP!StreamsApart

\* A and AP, B and BP are the same nodes: both names stand for one formula.
LEMMA SameAlice == [A!Next]_(A!vars) => [AP!Next]_(AP!vars)
  BY DEF A!Next, A!IoThread, A!unregister_sidtransfer, A!unregister_loop,
         A!find, A!SelectInSeq, A!Min, A!RemoveAt, A!Erase, A!erase, A!Freed,
         A!Mapped, A!Starting, A!Cancel, A!Range, A!netVars, A!erase_sid,
         A!Released, A!cancel_next, A!cancel_handler, A!Write, A!Unregister,
         A!mapVars, A!message_received, A!Idle, A!handle_siddata,
         A!EndOfStream, A!Finish, A!Content, A!handle_sidheaders,
         A!handle_sidfail, A!Vanishes, A!connection_terminated, A!Remaining,
         A!CancelSid, A!timeout_cb, A!Peer, A!PeerRequest, A!Sent, A!Header,
         A!CancelMessage, A!write_content, A!SendData, A!send_headers, A!Data,
         A!write_finish, A!write_cancel, A!Drop, A!factory,
         A!handle_sidrequest, A!register_sidtransfer, A!insert, A!Inserted,
         A!InsertAt, A!SelectLastInSeq, A!Max, A!WriteRequest, A!async_wait,
         A!WebThread, A!start_reply, A!cancel_loop, A!cancel_erase,
         A!register_ss, A!register_conn, A!start_sidrequest, A!make_timer,
         A!start_timer, A!expire, A!vars, AP!Next, AP!IoThread,
         AP!unregister_sidtransfer, AP!unregister_loop, AP!find,
         AP!SelectInSeq, AP!Min, AP!RemoveAt, AP!Erase, AP!erase, AP!Freed,
         AP!Mapped, AP!Starting, AP!Cancel, AP!Range, AP!netVars,
         AP!erase_sid, AP!Released, AP!cancel_next, AP!cancel_handler,
         AP!Write, AP!Unregister, AP!mapVars, AP!message_received, AP!Idle,
         AP!handle_siddata, AP!EndOfStream, AP!Finish, AP!Content,
         AP!handle_sidheaders, AP!handle_sidfail, AP!Vanishes,
         AP!connection_terminated, AP!Remaining, AP!CancelSid, AP!timeout_cb,
         AP!Peer, AP!PeerRequest, AP!Sent, AP!Header, AP!CancelMessage,
         AP!write_content, AP!SendData, AP!send_headers, AP!Data,
         AP!write_finish, AP!write_cancel, AP!Drop, AP!factory,
         AP!handle_sidrequest, AP!register_sidtransfer, AP!insert,
         AP!Inserted, AP!InsertAt, AP!SelectLastInSeq, AP!Max,
         AP!WriteRequest, AP!async_wait, AP!WebThread, AP!start_reply,
         AP!cancel_loop, AP!cancel_erase, AP!register_ss, AP!register_conn,
         AP!start_sidrequest, AP!make_timer, AP!start_timer, AP!expire,
         AP!vars

LEMMA SameBob == [B!Next]_(B!vars) => [BP!Next]_(BP!vars)
  BY DEF B!Next, B!IoThread, B!unregister_sidtransfer, B!unregister_loop,
         B!find, B!SelectInSeq, B!Min, B!RemoveAt, B!Erase, B!erase, B!Freed,
         B!Mapped, B!Starting, B!Cancel, B!Range, B!netVars, B!erase_sid,
         B!Released, B!cancel_next, B!cancel_handler, B!Write, B!Unregister,
         B!mapVars, B!message_received, B!Idle, B!handle_siddata,
         B!EndOfStream, B!Finish, B!Content, B!handle_sidheaders,
         B!handle_sidfail, B!Vanishes, B!connection_terminated, B!Remaining,
         B!CancelSid, B!timeout_cb, B!Peer, B!PeerRequest, B!Sent, B!Header,
         B!CancelMessage, B!write_content, B!SendData, B!send_headers, B!Data,
         B!write_finish, B!write_cancel, B!Drop, B!factory,
         B!handle_sidrequest, B!register_sidtransfer, B!insert, B!Inserted,
         B!InsertAt, B!SelectLastInSeq, B!Max, B!WriteRequest, B!async_wait,
         B!WebThread, B!start_reply, B!cancel_loop, B!cancel_erase,
         B!register_ss, B!register_conn, B!start_sidrequest, B!make_timer,
         B!start_timer, B!expire, B!vars, BP!Next, BP!IoThread,
         BP!unregister_sidtransfer, BP!unregister_loop, BP!find,
         BP!SelectInSeq, BP!Min, BP!RemoveAt, BP!Erase, BP!erase, BP!Freed,
         BP!Mapped, BP!Starting, BP!Cancel, BP!Range, BP!netVars,
         BP!erase_sid, BP!Released, BP!cancel_next, BP!cancel_handler,
         BP!Write, BP!Unregister, BP!mapVars, BP!message_received, BP!Idle,
         BP!handle_siddata, BP!EndOfStream, BP!Finish, BP!Content,
         BP!handle_sidheaders, BP!handle_sidfail, BP!Vanishes,
         BP!connection_terminated, BP!Remaining, BP!CancelSid, BP!timeout_cb,
         BP!Peer, BP!PeerRequest, BP!Sent, BP!Header, BP!CancelMessage,
         BP!write_content, BP!SendData, BP!send_headers, BP!Data,
         BP!write_finish, BP!write_cancel, BP!Drop, BP!factory,
         BP!handle_sidrequest, BP!register_sidtransfer, BP!insert,
         BP!Inserted, BP!InsertAt, BP!SelectLastInSeq, BP!Max,
         BP!WriteRequest, BP!async_wait, BP!WebThread, BP!start_reply,
         BP!cancel_loop, BP!cancel_erase, BP!register_ss, BP!register_conn,
         BP!start_sidrequest, BP!make_timer, BP!start_timer, BP!expire,
         BP!vars

LEMMA SameInit == (A!Init => AP!Init) /\ (B!Init => BP!Init)
  BY DEF A!Init, AP!Init, B!Init, BP!Init

LEMMA SamePromise ==
    /\ AP!Promise!Init => A!Promise!Init
    /\ [AP!Promise!Next]_(AP!Promise!vars) => [A!Promise!Next]_(A!Promise!vars)
  <1>1. AP!Promise!Init => A!Promise!Init
    BY DEF A!Promise!Init, AP!Promise!Init, A!Told, AP!Told
  <1>2. [AP!Promise!Next]_(AP!Promise!vars) => [A!Promise!Next]_(A!Promise!vars)
    BY DEF A!Promise!Next, A!Promise!vars, A!Promise!Die, A!Promise!Ask,
           A!Promise!Reject, A!Promise!SendHeaders, A!Promise!Deliver,
           A!Promise!Complete, A!Promise!GiveUp, A!Promise!Repeat,
           A!Promise!Open, A!Promise!Ended, A!Promise!Give, A!Promise!Content,
           A!Promise!Finish, A!Promise!Cancel, A!Told, AP!Promise!Next,
           AP!Promise!vars, AP!Promise!Die, AP!Promise!Ask, AP!Promise!Reject,
           AP!Promise!SendHeaders, AP!Promise!Deliver, AP!Promise!Complete,
           AP!Promise!GiveUp, AP!Promise!Repeat, AP!Promise!Open,
           AP!Promise!Ended, AP!Promise!Give, AP!Promise!Content,
           AP!Promise!Finish, AP!Promise!Cancel, AP!Told
  <1> QED
    BY <1>1, <1>2

-----------------------------------------------------------------------------
(* End to end.  A step of the chain is one of Alice's transfers as she     *)
(* knows them, and one of Bob's: what Streaming lets a peer do is all that *)
(* Bob's io thread does to her.                                            *)

\* Nothing came after the end of Bob's transfer.
EndedLast(s) ==
    \A i \in DOMAIN b_out[s] : b_out[s][i].op # "content" => i = Len(b_out[s])

\* While Bob's transfer goes on, his adaptor towards Alice is open and has
\* sent the chunks that the transfer passed on; when it has ended, and the
\* late timer has not told the adaptor once more, that is done.
Coupled ==
    \A s \in Transfer : b_pc[s] \notin {"none", "refused"} =>
        /\ ~B!Ended(s) => /\ a_adaptor[s].state = "open"
                          /\ a_adaptor[s].chunk = Len(b_out[s])
        /\ B!Ended(s) /\ EndedLast(s) => a_adaptor[s].state = "done"

Chain == Coupled /\ AP!Inv /\ AP!StreamInv /\ BP!Inv /\ BP!StreamInv

LEMMA CoupledSame ==
    ASSUME Coupled, UNCHANGED <<a_adaptor, b_pc, b_out>>
    PROVE  Coupled'
  BY DEF Coupled, B!Ended, EndedLast

\* Whatever happens, Bob's transfers take a step of Streaming or none.
LEMMA BobSteps ==
    ASSUME AP!Inv, [Next]_vars
    PROVE  [B!Next]_(B!vars)
  <1>1. CASE UNCHANGED bVars
    BY <1>1 DEF bVars, B!vars
  <1>2. CASE \/ UNCHANGED vars \/ AliceThread
             \/ \E s \in Transfer : AliceWeb(s) \/ factory(s)
             \/ \E c \in Conn : sid_unknown(c)
    BY <1>1, <1>2 DEF vars, AliceThread, AliceWeb, factory, sid_unknown
  <1>3. CASE B!IoThread \/ Charlie
    BY <1>3 DEF B!Next, Charlie
  <1>4. ASSUME NEW c \in Conn, handle_sidrequest(c) PROVE B!Next
    <2>1. Head(a_requests[c]) \in Transfer
      BY <1>4 DEF handle_sidrequest, AP!Inv, AP!NetOK
    <2>2. B!handle_sidrequest(Head(a_requests[c]))
      BY <1>4 DEF handle_sidrequest
    <2> QED
      BY <2>1, <2>2 DEF B!Next
  <1>5. ASSUME NEW c \in Conn, Drop(c) PROVE [B!Next]_(B!vars)
    BY <1>1, <1>5 DEF Drop, B!Next
  <1>6. ASSUME NEW s \in Transfer, Expires(s) PROVE [B!Next]_(B!vars)
    BY <1>1, <1>6 DEF Expires, B!Next
  <1> QED
    BY <1>2, <1>3, <1>4, <1>5, <1>6 DEF Next, BobThread

\* Bob's io thread tells at most one m_aa of one event in a step.
LEMMA Tells ==
    ASSUME BP!Inv, B!IoThread
    PROVE  /\ b_pc' = b_pc
           /\ b_out' # b_out => \E s \in Transfer : \E w :
                 b_out' = [b_out EXCEPT ![s] = Append(@, w)]
  <1>1. b_pc' = b_pc
    BY DEF B!IoThread, B!unregister_sidtransfer, B!erase_sid, B!cancel_next,
           B!message_received, B!connection_terminated, B!timeout_cb
  <1>2. b_out' = b_out \/ \E s, w : B!Write(s, w)
    <2>1. CASE \/ B!unregister_sidtransfer \/ B!erase_sid
               \/ \E c \in Conn : B!connection_terminated(c)
      BY <2>1 DEF B!unregister_sidtransfer, B!erase_sid, B!connection_terminated
    <2>2. CASE B!cancel_next \/ \E s \in Transfer : B!timeout_cb(s)
      BY <2>2 DEF B!cancel_next, B!timeout_cb, B!cancel_handler
    <2>3. CASE \E c \in Conn : B!message_received(c)
      BY <2>3 DEF B!message_received, B!handle_siddata, B!handle_sidheaders,
                  B!handle_sidfail, B!Vanishes, B!cancel_handler
    <2> QED
      BY <2>1, <2>2, <2>3 DEF B!IoThread
  <1>3. ASSUME NEW s, NEW w, B!Write(s, w), s \notin Transfer
        PROVE  b_out' = b_out
    BY <1>3 DEF B!Write, BP!Inv, BP!OutputOK
  <1>4. ASSUME NEW s \in Transfer, NEW w, B!Write(s, w)
        PROVE  b_out' = [b_out EXCEPT ![s] = Append(@, w)]
    BY <1>4 DEF B!Write
  <1> QED
    BY <1>1, <1>2, <1>3, <1>4

\* Bob's adaptor passes on an event as Streaming lets an adaptor send: a
\* chunk when it is the next one, the end after the last, or a failure.
LEMMA Forwarded ==
    ASSUME Chain, BP!Inv', BP!StreamInv', b_pc' = b_pc,
           NEW s \in Transfer, NEW e, b_out' = [b_out EXCEPT ![s] = Append(@, e)],
           Forward(s, e),
           UNCHANGED <<a_link, a_requests, a_pc, a_m_sid2ss, a_m_conn2sid, a_m_timer,
                       a_headers, a_out, a_io, a_crashed>>
    PROVE  A!Next /\ Coupled'
  <1> DEFINE n == Len(b_out[s]) + 1
  <1>1. /\ b_out \in [Transfer -> Seq(BP!Event)]
        /\ b_out' \in [Transfer -> Seq(BP!Event)]
    BY DEF Chain, BP!Inv, BP!OutputOK
  <1>2. /\ b_out'[s] = Append(b_out[s], e)
        /\ \A t \in Transfer : t # s => b_out'[t] = b_out[t]
    BY <1>1
  <1>3. /\ n \in Nat /\ Len(b_out'[s]) = n
        /\ n \in DOMAIN b_out'[s] /\ b_out'[s][n] = e /\ e \in BP!Event
        /\ \A i \in DOMAIN b_out[s] :
              i \in DOMAIN b_out'[s] /\ b_out'[s][i] = b_out[s][i] /\ i # n
    <2>1. PICK q, r : q = b_out[s] /\ r = b_out'[s]
      OBVIOUS
    <2>2. q \in Seq(BP!Event) /\ r \in Seq(BP!Event) /\ r = Append(q, e)
      BY <1>1, <1>2, <2>1
    <2>3. /\ Len(q) + 1 \in Nat /\ Len(r) = Len(q) + 1
          /\ Len(q) + 1 \in DOMAIN r /\ r[Len(q) + 1] = e
          /\ \A i \in DOMAIN q : i \in DOMAIN r /\ r[i] = q[i] /\ i # Len(q) + 1
      BY <2>2
    <2>4. e \in BP!Event
      BY <2>2, <2>3
    <2> QED
      BY <2>1, <2>3, <2>4
  <1> HIDE DEF n
  <1>4. /\ \A i \in DOMAIN b_out'[s] : b_out'[s][i].op # "content" =>
              i = n \/ (i = n - 1 /\ e = BP!Cancel("timeout"))
        /\ e.op = "content" => e.chunk = n
        /\ e.op = "finish" => n = Chunks + 1
        /\ b_pc[s] \notin {"none", "refused"}
    <2>1. BP!OutOK(s)' /\ BP!Stage(s)'
      BY DEF BP!StreamInv, BP!Sound
    <2>2. b_out'[s] # <<>>
      BY <1>3
    <2> QED
      BY <1>3, <2>1, <2>2 DEF BP!OutOK, BP!Repeated, BP!Stage, BP!Early
  <1>5. a_adaptor \in [Transfer -> [state : {"none", "open", "done", "late"},
                                    m_sentfirst : BOOLEAN, chunk : 0..Chunks]]
    BY DEF Chain, AP!Inv, AP!NetOK, AP!Adaptor, AP!AdaptorState
  <1>6. \A t \in Transfer : t # s => a_adaptor'[t] = a_adaptor[t]
    BY <1>5 DEF Forward, A!SendData, write_cancel
  <1>7. ASSUME NEW t \in Transfer, t # s, b_pc[t] \notin {"none", "refused"}
        PROVE  /\ ~B!Ended(t)' => /\ a_adaptor'[t].state = "open"
                                  /\ a_adaptor'[t].chunk = Len(b_out'[t])
               /\ B!Ended(t)' /\ EndedLast(t)' => a_adaptor'[t].state = "done"
    <2>1. /\ ~B!Ended(t) => a_adaptor[t].state = "open" /\ a_adaptor[t].chunk = Len(b_out[t])
          /\ B!Ended(t) /\ EndedLast(t) => a_adaptor[t].state = "done"
      BY <1>7 DEF Chain, Coupled
    <2>2. (B!Ended(t)' <=> B!Ended(t)) /\ (EndedLast(t)' <=> EndedLast(t))
      BY <1>2, <1>7 DEF B!Ended, EndedLast
    <2> QED
      BY <1>2, <1>6, <1>7, <2>1, <2>2
  <1>8. Coupled' <=> /\ ~B!Ended(s)' => /\ a_adaptor'[s].state = "open"
                                        /\ a_adaptor'[s].chunk = Len(b_out'[s])
                     /\ B!Ended(s)' /\ EndedLast(s)' => a_adaptor'[s].state = "done"
    BY <1>4, <1>7 DEF Coupled
  <1>9. CASE ~B!Ended(s)
    <2>0. a_adaptor[s].state = "open" /\ a_adaptor[s].chunk = n - 1
      <3>1. a_adaptor[s].state = "open" /\ a_adaptor[s].chunk = Len(b_out[s])
        BY <1>4, <1>9 DEF Chain, Coupled
      <3>2. Len(b_out[s]) \in Nat
        BY <1>1
      <3> QED
        BY <3>1, <3>2 DEF n
    <2>1. ~B!Ended(s)' <=> e.op = "content"
      <3>1. \A i \in DOMAIN b_out'[s] : i = n \/ i \in DOMAIN b_out[s]
        <4>1. DOMAIN b_out[s] = 1..(n - 1) /\ DOMAIN b_out'[s] = 1..n
          BY <1>1, <1>2 DEF n
        <4> QED
          BY <1>3, <4>1
      <3> QED
        BY <1>3, <1>9, <3>1 DEF B!Ended
    <2>2. CASE e.op = "content"
      <3>1. e.chunk \in 1..Chunks /\ e.chunk = a_adaptor[s].chunk + 1 /\ Chunks \in Nat
        BY <1>3, <1>4, <2>0, <2>2, ConstAssumption DEF BP!Event
      <3>2. A!SendData(s, e.chunk)
        BY <2>2 DEF Forward
      <3>3. A!write_content(s)
        <4>1. a_adaptor[s].chunk < Chunks
          BY <1>3, <2>0, <3>1
        <4>2. A!SendData(s, a_adaptor[s].chunk + 1)
          BY <3>1, <3>2
        <4> QED
          BY <2>0, <4>1, <4>2 DEF A!write_content, A!mapVars
      <3>4. a_adaptor'[s].state = "open" /\ a_adaptor'[s].chunk = n
        <4>1. a_adaptor'[s] = [m_sentfirst |-> TRUE, chunk |-> e.chunk,
                               state |-> IF e.chunk = 0 THEN "done" ELSE "open"]
          BY <1>5, <3>2 DEF A!SendData
        <4> QED
          BY <1>4, <2>2, <3>1, <4>1
      <3> QED
        BY <1>3, <1>8, <2>1, <2>2, <3>3, <3>4 DEF A!Next, A!Peer
    <2>3. CASE e.op = "finish"
      <3>1. a_adaptor[s].chunk = Chunks
        BY <1>3, <1>4, <2>0, <2>3, ConstAssumption
      <3>2. A!SendData(s, 0)
        BY <2>3 DEF Forward
      <3>3. A!write_finish(s)
        BY <2>0, <3>1, <3>2 DEF A!write_finish, A!mapVars
      <3>4. a_adaptor'[s].state = "done"
        BY <1>5, <3>2 DEF A!SendData
      <3> QED
        BY <1>8, <2>1, <2>3, <3>3, <3>4 DEF A!Next, A!Peer
    <2>4. CASE e.op = "cancel"
      <3>1. write_cancel(s)
        BY <2>4 DEF Forward
      <3>2. A!write_cancel(s)
        BY <2>0, <3>1 DEF A!write_cancel, write_cancel, A!mapVars
      <3>3. a_adaptor'[s].state = "done"
        BY <1>5, <2>0, <3>1 DEF write_cancel
      <3> QED
        BY <1>8, <2>1, <2>4, <3>2, <3>3 DEF A!Next, A!Peer
    <2> QED
      BY <2>2, <2>3, <2>4 DEF Forward
  <1>10. CASE B!Ended(s)
    <2>1. PICK i \in DOMAIN b_out[s] : b_out[s][i].op # "content"
      BY <1>10 DEF B!Ended
    <2>2. /\ i = n - 1 /\ e = BP!Cancel("timeout")
          /\ \A j \in DOMAIN b_out[s] : b_out[s][j].op # "content" => j = n - 1
      BY <1>3, <1>4, <2>1
    <2>3. EndedLast(s)
      <3>1. Len(b_out[s]) = n - 1
        BY <1>1 DEF n
      <3> QED
        BY <2>2, <3>1 DEF EndedLast
    <2>4. a_adaptor[s].state = "done"
      BY <1>4, <1>10, <2>3 DEF Chain, Coupled
    <2>5. e.op = "cancel"
      BY <2>2 DEF BP!Cancel
    <2>6. write_cancel(s)
      BY <2>5 DEF Forward
    <2>7. A!write_cancel(s)
      BY <2>4, <2>6 DEF A!write_cancel, write_cancel, A!mapVars
    <2>8. B!Ended(s)' /\ ~EndedLast(s)'
      <3>1. i \in DOMAIN b_out'[s] /\ b_out'[s][i].op # "content" /\ i # Len(b_out'[s])
        BY <1>3, <2>1
      <3> QED
        BY <3>1 DEF B!Ended, EndedLast
    <2> QED
      BY <1>8, <2>7, <2>8 DEF A!Next, A!Peer
  <1> QED
    BY <1>9, <1>10

\* Bob's io thread in the callbacks of his own transfers.
LEMMA RelayedChain ==
    ASSUME Chain, BP!Inv', BP!StreamInv', B!IoThread, Relayed
    PROVE  [A!Next]_(A!vars) /\ Coupled'
  <1>1. b_pc' = b_pc /\ UNCHANGED <<a_link, a_requests, a_pc, a_m_sid2ss, a_m_conn2sid,
                                    a_m_timer, a_headers, a_out, a_io, a_crashed>>
    BY Tells DEF Relayed, Chain
  <1>2. CASE b_out' = b_out /\ UNCHANGED <<a_inbox, a_adaptor>>
    <2>1. Coupled'
      BY <1>1, <1>2, CoupledSame DEF Chain
    <2> QED
      BY <1>1, <1>2, <2>1 DEF A!vars
  <1>3. ASSUME NEW s \in Transfer, b_out'[s] # b_out[s],
               Forward(s, b_out'[s][Len(b_out'[s])])
        PROVE  [A!Next]_(A!vars) /\ Coupled'
    <2>0. PICK t \in Transfer : \E w : b_out' = [b_out EXCEPT ![t] = Append(@, w)]
      BY <1>3, Tells DEF Chain
    <2>1. PICK w : b_out' = [b_out EXCEPT ![t] = Append(@, w)]
      BY <2>0
    <2>2. b_out \in [Transfer -> Seq(BP!Event)] /\ b_out' \in [Transfer -> Seq(BP!Event)]
      BY DEF Chain, BP!Inv, BP!OutputOK
    <2>3. t = s /\ b_out'[s] = Append(b_out[s], w)
      BY <1>3, <2>1, <2>2
    <2>4. b_out'[s][Len(b_out'[s])] = w
      BY <2>2, <2>3
    <2> QED
      BY <1>1, <1>3, <2>1, <2>3, <2>4, Forwarded
  <1> QED
    BY <1>2, <1>3 DEF Relayed

\* Bob starts a transfer for a request of Alice, or answers at once.
LEMMA RequestChain ==
    ASSUME Chain, NEW c \in Conn, handle_sidrequest(c)
    PROVE  A!Next /\ Coupled'
  <1>1. PICK s \in Transfer : s = Head(a_requests[c])
    BY DEF handle_sidrequest, Chain, AP!Inv, AP!NetOK
  <1>2. /\ B!handle_sidrequest(s) /\ A!PeerRequest(c)
        /\ \/ b_pc'[s] = "refused"
           \/ b_pc'[s] = "started" /\ b_out' = b_out /\ a_adaptor'[s].state = "open"
           \/ b_out' # b_out /\ a_adaptor'[s].state = "done"
    BY <1>1 DEF handle_sidrequest
  <1>3. /\ a_adaptor \in [Transfer -> [state : {"none", "open", "done", "late"},
                                       m_sentfirst : BOOLEAN, chunk : 0..Chunks]]
        /\ b_pc \in [Transfer -> BP!Place]
        /\ b_out \in [Transfer -> Seq(BP!Event)]
    BY DEF Chain, AP!Inv, AP!NetOK, AP!Adaptor, AP!AdaptorState,
       BP!Inv, BP!ThreadsOK, BP!OutputOK
  <1>4. a_adaptor[s].chunk = 0 /\ b_out[s] = <<>>
    <2>1. a_requests[c] \in Seq(Transfer) /\ a_requests[c] # <<>>
      BY DEF handle_sidrequest, Chain, AP!Inv, AP!NetOK
    <2>2. 1 \in DOMAIN a_requests[c] /\ a_requests[c][1] = s
      BY <1>1, <2>1
    <2>3. a_adaptor[s].state = "none"
      BY <2>2 DEF Chain, AP!StreamInv, AP!Waiting
    <2>4. AP!Sending(s) /\ BP!Stage(s)
      BY DEF Chain, AP!StreamInv, AP!Sound, BP!StreamInv, BP!Sound
    <2>5. b_pc[s] = "none"
      BY <1>2 DEF B!handle_sidrequest
    <2> QED
      BY <2>3, <2>4, <2>5 DEF AP!Sending, BP!Stage, BP!Early
  <1>5. /\ a_adaptor'[s].chunk = a_adaptor[s].chunk
        /\ \A t \in Transfer : t # s => a_adaptor'[t] = a_adaptor[t]
    <2>1. a_adaptor' = a_adaptor \/ \E x : a_adaptor' = [a_adaptor EXCEPT ![s].state = x]
      BY <1>1, <1>2 DEF A!PeerRequest
    <2> QED
      BY <1>3, <2>1
  <1>6. \A t \in Transfer : t # s => b_pc'[t] = b_pc[t] /\ b_out'[t] = b_out[t]
    <2>1. PICK p : b_pc' = [b_pc EXCEPT ![s] = p]
      BY <1>2 DEF B!handle_sidrequest
    <2>2. b_out' = b_out \/ \E w : b_out' = [b_out EXCEPT ![s] = Append(@, w)]
      BY <1>2 DEF B!handle_sidrequest, B!cancel_handler, B!Write
    <2>3. \A t \in Transfer : t # s => b_pc'[t] = b_pc[t]
      BY <1>3, <2>1, Zenon
    <2>4. \A t \in Transfer : t # s => b_out'[t] = b_out[t]
      BY <1>3, <2>2, Zenon
    <2> QED
      BY <2>3, <2>4, Zenon
  <1>7. ASSUME NEW t \in Transfer, t # s, b_pc'[t] \notin {"none", "refused"}
        PROVE  /\ ~B!Ended(t)' => /\ a_adaptor'[t].state = "open"
                                  /\ a_adaptor'[t].chunk = Len(b_out'[t])
               /\ B!Ended(t)' /\ EndedLast(t)' => a_adaptor'[t].state = "done"
    <2>1. b_pc[t] \notin {"none", "refused"}
      BY <1>6, <1>7
    <2>2. (B!Ended(t)' <=> B!Ended(t)) /\ (EndedLast(t)' <=> EndedLast(t))
      BY <1>6, <1>7 DEF B!Ended, EndedLast
    <2> QED
      BY <1>5, <1>6, <1>7, <2>1, <2>2 DEF Chain, Coupled
  <1>8. ASSUME b_pc'[s] \notin {"none", "refused"} =>
                   /\ ~B!Ended(s)' => /\ a_adaptor'[s].state = "open"
                                      /\ a_adaptor'[s].chunk = Len(b_out'[s])
                   /\ B!Ended(s)' => a_adaptor'[s].state = "done"
        PROVE  A!Next /\ Coupled'
    <2>1. Coupled'
      BY <1>7, <1>8 DEF Coupled
    <2> QED
      BY <1>2, <2>1 DEF A!Next, A!Peer
  <1>9. CASE b_out' = b_out
    <2>1. ~B!Ended(s)' /\ Len(b_out'[s]) = 0
      BY <1>4, <1>9 DEF B!Ended
    <2> QED
      BY <1>2, <1>4, <1>5, <1>8, <1>9, <2>1
  <1>10. CASE b_out' # b_out /\ b_pc'[s] # "refused"
    <2>1. PICK w : w = B!Cancel("not ready")
      OBVIOUS
    <2>2. w.op = "cancel" /\ B!Write(s, w)
      BY <1>2, <1>10, <2>1 DEF B!handle_sidrequest, B!cancel_handler, B!Cancel
    <2>3. B!Ended(s)'
      <3>1. b_out'[s] = Append(<<>>, w)
        BY <1>3, <1>4, <2>2 DEF B!Write
      <3>2. Append(<<>>, w) = <<w>>
        OBVIOUS
      <3>3. 1 \in DOMAIN b_out'[s] /\ b_out'[s][1] = w
        BY <3>1, <3>2
      <3> QED
        BY <2>2, <3>3 DEF B!Ended
    <2> QED
      BY <1>2, <1>8, <1>10, <2>3
  <1> QED
    BY <1>8, <1>9, <1>10

\* Whatever happens, Alice's transfers take a step of Streaming or none.
LEMMA AliceSteps ==
    ASSUME Chain, BP!Inv', BP!StreamInv', [Next]_vars
    PROVE  [A!Next]_(A!vars) /\ Coupled'
  <1>1. Coupled
    BY DEF Chain
  <1>2. CASE UNCHANGED vars
    BY <1>1, <1>2, CoupledSame DEF vars, aVars, bVars, A!vars
  <1>3. CASE AliceThread
    <2>1. a_adaptor' = a_adaptor
      BY <1>3 DEF AliceThread, A!IoThread, A!unregister_sidtransfer, A!erase_sid,
                  A!cancel_next, A!message_received, A!connection_terminated,
                  A!timeout_cb, A!netVars
    <2>2. Coupled'
      BY <1>1, <1>3, <2>1, CoupledSame DEF AliceThread, bVars
    <2> QED
      BY <1>3, <2>2 DEF AliceThread, A!Next
  <1>4. ASSUME NEW s \in Transfer, AliceWeb(s)
        PROVE  A!Next /\ Coupled'
    <2>1. a_adaptor' = a_adaptor
      BY <1>4 DEF AliceWeb, A!WebThread, A!start_reply, A!cancel_loop,
                  A!cancel_erase, A!register_ss, A!register_conn,
                  A!start_sidrequest, A!make_timer, A!start_timer, A!netVars
    <2>2. Coupled'
      BY <1>1, <1>4, <2>1, CoupledSame DEF AliceWeb, bVars
    <2> QED
      BY <1>4, <2>2 DEF AliceWeb, A!Next
  <1>5. ASSUME NEW s \in Transfer, factory(s)
        PROVE  A!Next /\ Coupled'
    <2>1. A!factory(s)
      <3>1. CASE get_conn(s) = {}
        <4>1. a_link[ConnOf[s]] = "closed"
          BY <3>1, ConnFound
        <4> QED
          BY <1>5, <3>1, <4>1 DEF factory, A!factory, A!netVars, A!mapVars
      <3> QED
        BY <1>5, <3>1 DEF factory
    <2>2. a_adaptor' = a_adaptor /\ UNCHANGED bVars
      BY <1>5, <2>1 DEF factory, A!factory, A!netVars
    <2>3. Coupled'
      BY <1>1, <2>2, CoupledSame DEF bVars
    <2> QED
      BY <2>1, <2>3 DEF A!Next
  <1>6. ASSUME NEW c \in Conn, sid_unknown(c)
        PROVE  A!Next /\ Coupled'
    <2>1. Coupled'
      BY <1>1, <1>6, CoupledSame DEF sid_unknown, bVars
    <2> QED
      BY <1>6, <2>1 DEF sid_unknown, A!Next, A!Peer
  <1>7. CASE Charlie
    <2>1. UNCHANGED <<b_pc, b_out>>
      BY <1>7 DEF Charlie, B!Peer, B!PeerRequest, B!write_content, B!write_finish,
                  B!write_cancel
    <2>2. Coupled'
      BY <1>1, <1>7, <2>1, CoupledSame DEF Charlie, aVars
    <2> QED
      BY <1>7, <2>2 DEF Charlie, aVars, A!vars
  <1>8. ASSUME NEW c \in Conn, Drop(c)
        PROVE  [A!Next]_(A!vars) /\ Coupled'
    <2>1. UNCHANGED <<a_adaptor, b_pc, b_out>>
      BY <1>8 DEF Drop, A!Drop, B!Drop, aVars, bVars
    <2>2. Coupled'
      BY <1>1, <2>1, CoupledSame
    <2>3. [A!Next]_(A!vars)
      BY <1>8 DEF Drop, A!Next, aVars, A!vars
    <2> QED
      BY <2>2, <2>3
  <1>9. ASSUME NEW s \in Transfer, Expires(s)
        PROVE  [A!Next]_(A!vars) /\ Coupled'
    <2>1. UNCHANGED <<a_adaptor, b_pc, b_out>>
      BY <1>9 DEF Expires, A!expire, B!expire, A!netVars, aVars, bVars
    <2>2. Coupled'
      BY <1>1, <2>1, CoupledSame
    <2>3. [A!Next]_(A!vars)
      BY <1>9 DEF Expires, A!Next, aVars, A!vars
    <2> QED
      BY <2>2, <2>3
  <1> QED
    BY <1>2, <1>3, <1>4, <1>5, <1>6, <1>7, <1>8, <1>9, RelayedChain, RequestChain
       DEF Next, BobThread

-----------------------------------------------------------------------------
(* The theorems.                                                           *)

LEMMA ChainInit == ASSUME SidsDiffer, Init PROVE Chain /\ A!Promise!Init
  <1>1. AP!Init /\ BP!Init
    BY SameInit DEF Init
  <1>2. AP!Inv /\ AP!StreamInv /\ AP!Promise!Init
    BY <1>1, Receivers, AP!InitInv, AP!StreamInit, AP!RefinesInit
  <1>3. BP!Inv /\ BP!StreamInv
    BY <1>1, Receivers, BP!InitInv, BP!StreamInit
  <1>4. Coupled
    BY DEF Init, B!Init, Coupled
  <1> QED
    BY <1>2, <1>3, <1>4, SamePromise DEF Chain

LEMMA ChainNext ==
    ASSUME SidsDiffer, Chain, [Next]_vars
    PROVE  Chain' /\ [A!Promise!Next]_(A!Promise!vars)
  <1>1. [BP!Next]_(BP!vars)
    BY BobSteps, SameBob DEF Chain
  <1>2. BP!Inv' /\ BP!StreamInv'
    BY <1>1, Receivers, BP!NextInv, BP!StreamNext DEF Chain
  <1>3. [A!Next]_(A!vars) /\ Coupled'
    BY <1>2, AliceSteps
  <1>4. [AP!Next]_(AP!vars)
    BY <1>3, SameAlice
  <1>5. AP!Inv' /\ AP!StreamInv'
    BY <1>4, Receivers, AP!NextInv, AP!StreamNext DEF Chain
  <1>6. [AP!Promise!Next]_(AP!Promise!vars)
    BY <1>4, Receivers, AP!RefinesNext DEF Chain
  <1> QED
    BY <1>2, <1>3, <1>5, <1>6, SamePromise DEF Chain

\* However many transfers, connections and chunks there are and however late
\* the timers of either node: what Alice sees of a file that Bob fetches from
\* Charlie is what Stream allows of one hop, that is headers, Charlie's chunks
\* in order and completely, one end which a late timer may repeat, or her
\* death, whatever is lost on either connection (the safety part of EndToEnd;
\* siddata_handler writing to a greynet_asyncadaptor).
THEOREM ChainImplements == ASSUME SidsDiffer PROVE Spec => A!ImplementsStream
  <1>1. Init => Chain /\ A!Promise!Init
    BY ChainInit
  <1>2. Chain /\ [Next]_vars => Chain' /\ [A!Promise!Next]_(A!Promise!vars)
    BY ChainNext
  <1> QED
    BY <1>1, <1>2, PTL DEF Spec, A!Promise!Safe, A!ImplementsStream
=============================================================================
