-------------------------------- MODULE Relay --------------------------------
(***************************************************************************)
(* Alice plays a file that Charlie has and that she found through Bob: her *)
(* ss_greynet asks Bob, and Bob's handle_sidrequest starts an ss_greynet   *)
(* of his own, whose m_aa is the greynet_asyncadaptor towards Alice.       *)
(*                                                                         *)
(* Two instances of Streaming: A is Alice as a receiver, B is Bob as one.  *)
(* B's peer is Charlie.  A's peer is Bob, so what Streaming lets a peer do *)
(* at will is here what Bob's io thread does in the callbacks of B.        *)
(***************************************************************************)
EXTENDS Integers, Sequences

CONSTANTS
    Transfer, Conn, Sid, ConnOf, SidOf, Chunks, None,   \* as in Streaming
    Name        \* [Conn -> texts], the jids of Alice's connections

ASSUME ConstAssumption ==
    /\ Conn \subseteq Nat
    /\ ConnOf \in [Transfer -> Conn]
    /\ SidOf \in [Transfer -> Sid]
    /\ Chunks \in Nat
    /\ None \notin Transfer

ASSUME NameAssumption ==
    /\ Name \in [Conn -> Seq(STRING)]
    /\ \A c, d \in Conn : Name[c] = Name[d] => c = d
    /\ \A c \in Conn : \A i \in DOMAIN Name[c] : Name[c][i] # ";"

VARIABLES
    a_link, a_requests, a_inbox, a_adaptor, a_pc, a_m_sid2ss, a_m_conn2sid,
    a_m_timer, a_headers, a_out, a_io, a_crashed,
    b_link, b_requests, b_inbox, b_adaptor, b_pc, b_m_sid2ss, b_m_conn2sid,
    b_m_timer, b_headers, b_out, b_io, b_crashed

aVars == <<a_link, a_requests, a_inbox, a_adaptor, a_pc, a_m_sid2ss, a_m_conn2sid,
           a_m_timer, a_headers, a_out, a_io, a_crashed>>
bVars == <<b_link, b_requests, b_inbox, b_adaptor, b_pc, b_m_sid2ss, b_m_conn2sid,
           b_m_timer, b_headers, b_out, b_io, b_crashed>>
vars == <<aVars, bVars>>

\* Alice's transfers are started by her web server.
A == INSTANCE Streaming WITH
    Http <- Transfer,
    link <- a_link, requests <- a_requests, inbox <- a_inbox, adaptor <- a_adaptor,
    pc <- a_pc, m_sid2ss <- a_m_sid2ss, m_conn2sid <- a_m_conn2sid,
    m_timer <- a_m_timer, headers <- a_headers, out <- a_out, io <- a_io,
    crashed <- a_crashed

\* Bob's are started by his io thread.
B == INSTANCE Streaming WITH
    Http <- {},
    link <- b_link, requests <- b_requests, inbox <- b_inbox, adaptor <- b_adaptor,
    pc <- b_pc, m_sid2ss <- b_m_sid2ss, m_conn2sid <- b_m_conn2sid,
    m_timer <- b_m_timer, headers <- b_headers, out <- b_out, io <- b_io,
    crashed <- b_crashed

Url == INSTANCE GreynetUrl

Init == A!Init /\ B!Init

-----------------------------------------------------------------------------
(* Alice's web server.                                                     *)

\* greynet::get_conn with the name in the url of the result.
get_conn(s) ==
    LET name == Url!username(Url!greynet_url(Name[ConnOf[s]], <<SidOf[s]>>))
    IN  {c \in Conn : a_link[c] # "closed" /\ Name[c] = name}

\* The transfer goes to the connection of that name, if there is one.
factory(s) ==
    /\ \/ ConnOf[s] \in get_conn(s) /\ A!factory(s)
       \/ /\ get_conn(s) = {}
          /\ a_pc[s] = "none" /\ ~a_crashed
          /\ a_pc' = [a_pc EXCEPT ![s] = "refused"]
          /\ UNCHANGED <<a_link, a_requests, a_inbox, a_adaptor, a_m_sid2ss,
                         a_m_conn2sid, a_m_timer, a_headers, a_out, a_io, a_crashed>>
    /\ UNCHANGED bVars

-----------------------------------------------------------------------------
(* Bob's adaptor towards Alice.                                            *)

write_cancel_Silent(s) ==
    /\ a_adaptor' = [a_adaptor EXCEPT ![s].state = IF @ = "open" THEN "done" ELSE "late"]
    /\ UNCHANGED a_inbox

\* The loss of Charlie is told as a SIDFAIL, and so is what a late timer of
\* Bob's says after the end.
write_cancel(s) ==
    /\ a_adaptor' = [a_adaptor EXCEPT ![s].state = IF @ = "open" THEN "done" ELSE "late"]
    /\ a_inbox' = [a_inbox EXCEPT ![ConnOf[s]] =
                      A!Sent(a_inbox, ConnOf[s], A!CancelMessage(s))]

Forward_Finishes(s, e) == A!SendData(s, IF e.op = "content" THEN e.chunk ELSE 0)

\* What B is told by its ss_greynet goes to Alice: headers are not passed on
\* by themselves, but with the first chunk or the end.
Forward(s, e) ==
    \/ e.op = "content" /\ A!SendData(s, e.chunk)
    \/ e.op = "finish"  /\ A!SendData(s, 0)
    \/ e.op = "cancel"  /\ write_cancel(s)

\* A step of Bob's transfers and what his adaptors make of it.
Relayed ==
    /\ \/ b_out' = b_out /\ UNCHANGED <<a_inbox, a_adaptor>>
       \/ \E s \in Transfer :
             b_out'[s] # b_out[s] /\ Forward(s, b_out'[s][Len(b_out'[s])])
    /\ UNCHANGED <<a_link, a_requests, a_pc, a_m_sid2ss, a_m_conn2sid, a_m_timer,
                   a_headers, a_out, a_io, a_crashed>>

-----------------------------------------------------------------------------
(* Bob's io thread.                                                        *)

\* m_pap->get_ss finds nothing: the sid is not known any more.
sid_unknown(c) ==
    /\ B!Idle
    /\ A!PeerRequest(c) /\ a_adaptor' = a_adaptor
    /\ UNCHANGED bVars

\* Bob asks Charlie in his turn, at once.
handle_sidrequest(c) ==
    /\ a_requests[c] # <<>>
    /\ LET s == Head(a_requests[c]) IN
       /\ B!handle_sidrequest(s)
       /\ \/ b_pc'[s] = "refused" /\ A!PeerRequest(c) /\ a_adaptor' = a_adaptor
          \/ /\ b_pc'[s] = "started" /\ b_out' = b_out
             /\ A!PeerRequest(c) /\ a_adaptor'[s].state = "open"
          \/ b_out' # b_out /\ A!PeerRequest(c) /\ a_adaptor'[s].state = "done"

BobThread ==
    \/ B!IoThread /\ Relayed
    \/ \E c \in Conn : sid_unknown(c) \/ handle_sidrequest(c)

-----------------------------------------------------------------------------
AliceThread == A!IoThread /\ UNCHANGED bVars
AliceWeb(s) == A!WebThread(s) /\ UNCHANGED bVars
Charlie == B!Peer /\ UNCHANGED aVars

\* The header timer of either node runs out.
Expires(s) ==
    \/ A!expire(s) /\ UNCHANGED bVars
    \/ B!expire(s) /\ UNCHANGED aVars

\* Bob's own connection_terminated finds no transfer under Alice's
\* connection: her leaving does not stop what he gets from Charlie.
Drop(c) ==
    \/ A!Drop(c) /\ UNCHANGED bVars
    \/ B!Drop(c) /\ UNCHANGED aVars

Next ==
    \/ AliceThread
    \/ \E s \in Transfer : AliceWeb(s) \/ factory(s) \/ Expires(s)
    \/ BobThread
    \/ Charlie
    \/ \E c \in Conn : Drop(c)

Spec == Init /\ [][Next]_vars

\* The threads of Alice and Bob run and their clocks tick; Charlie and the
\* network owe nothing.
FairSpec ==
    /\ Spec
    /\ WF_vars(AliceThread) /\ WF_vars(BobThread)
    /\ \A s \in Transfer : WF_vars(AliceWeb(s)) /\ WF_vars(Expires(s))

-----------------------------------------------------------------------------
(* Properties.                                                             *)

\* The url that handle_queryresult gave to a result leads ss_greynet::factory
\* back to the connection the result came from, for as long as that is open:
\* a transfer is refused only when it is closed.
UrlFindsPeer ==
    \A s \in Transfer : a_pc[s] = "refused" => a_link[ConnOf[s]] = "closed"

\* End to end, Alice gets the stream that Streaming promises for one hop:
\* Charlie's chunks in his order, all of them before the end, and an answer
\* in time, for as long as she lives, whatever is lost on either connection,
\* whichever of the two nodes' timers runs out first and however late it is
\* called (siddata_handler writing to a greynet_asyncadaptor).
EndToEnd == A!AnswersInTime

\* When Bob's transfer ends, for whatever reason (SIDFAIL, a bad status, his
\* timer, his connection to Charlie, no connection at all), Alice's ends too,
\* though she waits without a timer once she has her headers.
EndIsPassedOn == \A s \in Transfer : B!Ended(s) ~> (A!Ended(s) \/ a_crashed)

\* If Charlie goes on with what he started, and as long as Alice's and Bob's
\* processes live, every transfer of Alice ends, and Bob keeps none, also when
\* Alice left (her data then goes nowhere: there is no message that tells Bob,
\* or Charlie, to stop).
EveryStreamEnds == WF_vars(Charlie) =>
    \A s \in Transfer :
        /\ a_pc[s] = "started" ~> (A!Ended(s) \/ a_crashed \/ b_crashed)
        /\ s \in B!Mapped(b_m_sid2ss) ~> (s \notin B!Mapped(b_m_sid2ss) \/ b_crashed)

=============================================================================
