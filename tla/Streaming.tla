------------------------------ MODULE Streaming ------------------------------
(***************************************************************************)
(* How a node fetches files from its peers: ss_greynet, the transfer       *)
(* tables m_sid2ss and m_conn2sid of greynet, the SID* messages, and the   *)
(* greynet_asyncadaptor with which the peers send.                         *)
(*                                                                         *)
(* One receiving node.  Its io_service thread runs every libf2f and timer  *)
(* callback; io is what that thread still has to do before it returns from *)
(* the callback it is in.  A transfer in Http is started by a thread of    *)
(* the web server that runs beside the io thread, any other (a relay) by   *)
(* handle_sidrequest on the io thread.                                     *)
(*                                                                         *)
(* Nothing is locked: a step is one access to a map, one message written   *)
(* or one timer operation.  Two groups of accesses stay together.  What    *)
(* the io thread reads or inserts in one loop over m_conn2sid is one step, *)
(* as an insertion by another thread leaves its iterators valid.  And the  *)
(* calls of handle_sidrequest are one step: what other threads do between  *)
(* them touches one of the two maps only, and can be done before or after  *)
(* with the same result.                                                   *)
(*                                                                         *)
(* Only shared_ptrs keep a transfer alive: the one in m_sid2ss and the one *)
(* of the caller of start_reply.  The timer's handler is bound to a bare   *)
(* this; the destructor of the timer aborts it unless it is queued.        *)
(***************************************************************************)
EXTENDS Integers, SequencesExt

CONSTANTS
    Transfer,   \* ss_greynet objects, each started once
    Conn,       \* connections, in the order of their pointers
    Sid,        \* source ids
    ConnOf,     \* [Transfer -> Conn]
    SidOf,      \* [Transfer -> Sid]
    Http,       \* transfers started by the web server
    Chunks,     \* how many chunks a file has
    None        \* no entry in m_sid2ss

ASSUME ConstAssumption ==
    /\ Conn \subseteq Nat
    /\ ConnOf \in [Transfer -> Conn]
    /\ SidOf \in [Transfer -> Sid]
    /\ Http \subseteq Transfer
    /\ Chunks \in Nat
    /\ None \notin Transfer

VARIABLES
    link,       \* a connection is "ready", "lost" (libf2f will report it), "closed"
    requests,   \* SIDREQUESTs on their way to the peer
    inbox,      \* messages from the peer, not yet read
    adaptor,    \* the peer's greynet_asyncadaptor for a transfer
    pc,         \* where start_reply is
    m_sid2ss,   \* [Sid -> Transfer], None where there is no entry
    m_conn2sid, \* the multimap: its entries [conn, sid] in the order of conn
    m_timer,    \* "null", "armed", "queued" (handler posted) or "off"
    headers,    \* transfers whose headers arrived
    out,        \* what the transfer wrote to its m_aa
    io,         \* what the io thread has still to do
    crashed     \* the process died of undefined behaviour

netVars  == <<link, requests, inbox, adaptor>>
mapVars  == <<m_sid2ss, m_conn2sid>>
vars == <<link, requests, inbox, adaptor, pc, m_sid2ss, m_conn2sid, m_timer,
          headers, out, io, crashed>>

-----------------------------------------------------------------------------
SidMessage == [type : {"SIDHEADERS"}, sid : Sid, status : {200, 404}]
         \cup [type : {"SIDDATA"}, sid : Sid, chunk : 0..Chunks]
         \cup [type : {"SIDFAIL"}, sid : Sid]

\* Chunk 0 is the payload of length zero.
Data(s, chunk)   == [type |-> "SIDDATA", sid |-> SidOf[s], chunk |-> chunk]
Header(s, status) == [type |-> "SIDHEADERS", sid |-> SidOf[s], status |-> status]

\* What m_aa is told: a chunk, or the end and what brought it about.
Content(chunk) == [op |-> "content", chunk |-> chunk]
Finish         == [op |-> "finish", why |-> "data"]
Cancel(why)    == [op |-> "cancel", why |-> why]

Why == {"not ready", "timeout", "fail", "status", "terminated"}

Event == [op : {"content"}, chunk : 1..Chunks]
    \cup [op : {"finish", "cancel"}, why : Why \cup {"data"}]

Write(s, w) == out' = [out EXCEPT ![s] = Append(@, w)]

Ended(s) == \E i \in DOMAIN out[s] : out[s][i].op # "content"

\* The io thread is free to take its next callback.
Idle == io = <<>> /\ ~crashed

\* unregister_sidtransfer on the io thread: first the loop, then the erasure.
Unregister(s) == [call |-> "unregister_sidtransfer", arg |-> s]
Erase(s)      == [call |-> "erase", arg |-> s]
CancelSid(x)  == [call |-> "cancel_handler", arg |-> x]

Task == [call : {"unregister_sidtransfer", "erase"}, arg : Transfer]
   \cup [call : {"cancel_handler"}, arg : Sid]

\* libf2f loses what is written to a connection that is down.
Sent(queue, c, m) == IF link[c] = "ready" THEN Append(queue[c], m) ELSE queue[c]

\* The timers once only the transfers in held are referenced.
Released(timer, held) ==
    [s \in Transfer |-> IF timer[s] = "armed" /\ s \notin held THEN "off" ELSE timer[s]]

\* Transfers with an entry in m_sid2ss, and those whose start_reply is being
\* called from a web server thread.
Mapped(map) == {s \in Transfer : map[SidOf[s]] = s}
Starting == {s \in Http : pc[s] \notin {"none", "refused", "started"}}

-----------------------------------------------------------------------------
Init ==
    /\ link = [c \in Conn |-> "ready"]
    /\ requests = [c \in Conn |-> <<>>]
    /\ inbox = [c \in Conn |-> <<>>]
    /\ adaptor = [s \in Transfer |-> [state |-> "none", m_sentfirst |-> FALSE, chunk |-> 0]]
    /\ pc = [s \in Transfer |-> "none"]
    /\ m_sid2ss = [x \in Sid |-> None]
    /\ m_conn2sid = <<>>
    /\ m_timer = [s \in Transfer |-> "null"]
    /\ headers = {}
    /\ out = [s \in Transfer |-> <<>>]
    /\ io = <<>>
    /\ crashed = FALSE

-----------------------------------------------------------------------------
(* The transfer tables.                                                    *)

\* multimap::find: the first entry of a connection, 0 for end().
find(c) == SelectInSeq(m_conn2sid, LAMBDA e : e.conn = c)

\* multimap::insert: after the entries with the same or a smaller key.
Inserted(e) ==
    InsertAt(m_conn2sid, SelectLastInSeq(m_conn2sid, LAMBDA f : f.conn <= e.conn) + 1, e)

\* register_sidtransfer is these two, in this order.
register_sidtransfer(s) == m_sid2ss' = [m_sid2ss EXCEPT ![SidOf[s]] = s]

insert_Skipped(s) == UNCHANGED m_conn2sid

insert(s) == m_conn2sid' = Inserted([conn |-> ConnOf[s], sid |-> SidOf[s]])

unregister_loop_Forgets(s) ==
    LET it == find(ConnOf[s]) IN
    /\ it # 0 => m_conn2sid[it].sid = SidOf[s]
    /\ UNCHANGED m_conn2sid

\* unregister_sidtransfer is this loop and an erasure.  The loop only ever
\* looks at the first entry of the connection: with another sid there it
\* turns until some other thread removes that entry.
unregister_loop(s) ==
    LET it == find(ConnOf[s]) IN
    \/ it = 0 /\ UNCHANGED m_conn2sid
    \/ /\ it # 0 /\ m_conn2sid[it].sid = SidOf[s]
       /\ m_conn2sid' = RemoveAt(m_conn2sid, it)

erase_Skipped(s) == UNCHANGED m_sid2ss

erase(s) == m_sid2ss' = [m_sid2ss EXCEPT ![SidOf[s]] = None]

\* A refused relay is held by handle_sidrequest; any other transfer that
\* neither map nor caller holds is freed memory, whoever still works on it.
Freed(s) ==
    /\ s \notin Mapped(m_sid2ss) \cup Starting
    /\ Cancel("not ready") \notin Range(out[s])

\* On the io thread, at the end of siddata_handler and cancel_handler.
unregister_sidtransfer ==
    /\ ~crashed
    /\ io # <<>> /\ Head(io).call = "unregister_sidtransfer"
    /\ \/ /\ unregister_loop(Head(io).arg)
          /\ io' = <<Erase(Head(io).arg)>> \o Tail(io)
          /\ UNCHANGED crashed
       \/ /\ Freed(Head(io).arg)
          /\ crashed' = TRUE
          /\ UNCHANGED <<m_conn2sid, io>>
    /\ UNCHANGED <<netVars, m_sid2ss, pc, m_timer, headers, out>>

erase_sid ==
    /\ ~crashed
    /\ io # <<>> /\ Head(io).call = "erase"
    /\ \/ /\ erase(Head(io).arg)
          /\ m_timer' = Released(m_timer, Mapped(m_sid2ss') \cup Starting)
          /\ io' = Tail(io)
          /\ UNCHANGED crashed
       \/ /\ Freed(Head(io).arg)
          /\ crashed' = TRUE
          /\ UNCHANGED <<m_sid2ss, m_timer, io>>
    /\ UNCHANGED <<netVars, m_conn2sid, pc, headers, out>>

\* cancel_handler on the io thread, with the calls it leaves to be done.
cancel_handler(s, why, rest) ==
    /\ Write(s, Cancel(why))
    /\ io' = <<Unregister(s)>> \o rest

-----------------------------------------------------------------------------
(* Starting a transfer.                                                    *)

\* ss_greynet::factory, called by the web server: no transfer without a
\* connection of that name.
factory(s) ==
    /\ s \in Http /\ pc[s] = "none" /\ ~crashed
    /\ pc' = [pc EXCEPT ![s] = IF link[ConnOf[s]] = "closed" THEN "refused" ELSE "made"]
    /\ UNCHANGED <<netVars, mapVars, m_timer, headers, out, io, crashed>>

\* start_reply up to the test of the connection.
start_reply(s) ==
    /\ s \in Http /\ pc[s] = "made" /\ ~crashed
    /\ \/ /\ link[ConnOf[s]] = "ready"
          /\ pc' = [pc EXCEPT ![s] = "checked"]
          /\ UNCHANGED out
       \/ /\ link[ConnOf[s]] # "ready"
          /\ pc' = [pc EXCEPT ![s] = "cancelling"]
          /\ Write(s, Cancel("not ready"))
    /\ UNCHANGED <<netVars, mapVars, m_timer, headers, io, crashed>>

\* The rest of cancel_handler on the web server's thread.
cancel_loop(s) ==
    /\ pc[s] = "cancelling" /\ ~crashed
    /\ unregister_loop(s)
    /\ pc' = [pc EXCEPT ![s] = "erasing"]
    /\ UNCHANGED <<netVars, m_sid2ss, m_timer, headers, out, io, crashed>>

cancel_erase(s) ==
    /\ pc[s] = "erasing" /\ ~crashed
    /\ erase(s)
    /\ pc' = [pc EXCEPT ![s] = "started"]
    /\ m_timer' = Released(m_timer, Mapped(m_sid2ss') \cup (Starting \ {s}))
    /\ UNCHANGED <<netVars, m_conn2sid, headers, out, io, crashed>>

\* start_sidrequest registers the transfer ...
register_ss(s) ==
    /\ pc[s] = "checked" /\ ~crashed
    /\ register_sidtransfer(s)
    /\ pc' = [pc EXCEPT ![s] = "mapped"]
    /\ m_timer' = Released(m_timer, Mapped(m_sid2ss') \cup Starting)
    /\ UNCHANGED <<netVars, m_conn2sid, headers, out, io, crashed>>

register_conn(s) ==
    /\ pc[s] = "mapped" /\ ~crashed
    /\ insert(s)
    /\ pc' = [pc EXCEPT ![s] = "tracked"]
    /\ UNCHANGED <<netVars, m_sid2ss, m_timer, headers, out, io, crashed>>

\* ... and asks the peer for the file.
WriteRequest(s) ==
    requests' = [requests EXCEPT ![ConnOf[s]] = Sent(requests, ConnOf[s], s)]

start_sidrequest(s) ==
    /\ pc[s] = "tracked" /\ ~crashed
    /\ WriteRequest(s)
    /\ pc' = [pc EXCEPT ![s] = "requested"]
    /\ UNCHANGED <<link, inbox, adaptor, mapVars, m_timer, headers, out, io, crashed>>

\* The timer is there, and cancel() on it has nothing to cancel yet.
make_timer(s) ==
    /\ pc[s] = "requested" /\ ~crashed
    /\ pc' = [pc EXCEPT ![s] = "timed"]
    /\ m_timer' = [m_timer EXCEPT ![s] = "off"]
    /\ UNCHANGED <<netVars, mapVars, headers, out, io, crashed>>

async_wait_Missing(s) == [m_timer EXCEPT ![s] = "off"]

\* timeout_cb is to be called.
async_wait(s) == [m_timer EXCEPT ![s] = "armed"]

\* The end of start_reply, after which its caller lets go of the transfer.
start_timer(s) ==
    /\ pc[s] = "timed" /\ ~crashed
    /\ pc' = [pc EXCEPT ![s] = "started"]
    /\ m_timer' = Released(async_wait(s),
                           Mapped(m_sid2ss) \cup (Starting \ {s}))
    /\ UNCHANGED <<netVars, mapVars, headers, out, io, crashed>>

\* A peer of ours asks for a file that another peer has: the whole of
\* factory and start_reply within the callback.
handle_sidrequest(s) ==
    /\ Idle /\ s \notin Http /\ pc[s] = "none"
    /\ \/ /\ link[ConnOf[s]] = "closed"
          /\ pc' = [pc EXCEPT ![s] = "refused"]
          /\ UNCHANGED <<netVars, mapVars, m_timer, out, io>>
       \/ /\ link[ConnOf[s]] = "lost"
          /\ pc' = [pc EXCEPT ![s] = "started"]
          /\ cancel_handler(s, "not ready", <<>>)
          /\ UNCHANGED <<netVars, mapVars, m_timer>>
       \/ /\ link[ConnOf[s]] = "ready"
          /\ pc' = [pc EXCEPT ![s] = "started"]
          /\ register_sidtransfer(s) /\ insert(s) /\ WriteRequest(s)
          /\ m_timer' = Released(async_wait(s),
                                 Mapped(m_sid2ss') \cup Starting)
          /\ UNCHANGED <<link, inbox, adaptor, out, io>>
    /\ UNCHANGED <<headers, crashed>>

-----------------------------------------------------------------------------
(* The peer: its handle_sidrequest, and the adaptor that its streaming     *)
(* strategy writes to.                                                     *)

CancelMessage_Empty(s) == Data(s, 0)

CancelMessage(s) == [type |-> "SIDFAIL", sid |-> SidOf[s]]

\* The sid is unknown, or the strategy starts, or its start_reply cancels.
PeerRequest(c) ==
    /\ requests[c] # <<>>
    /\ requests' = [requests EXCEPT ![c] = Tail(@)]
    /\ LET s == Head(requests[c]) IN
       \/ /\ inbox' = [inbox EXCEPT ![c] = Sent(inbox, c, Header(s, 404))]
          /\ UNCHANGED adaptor
       \/ /\ adaptor' = [adaptor EXCEPT ![s].state = "open"]
          /\ UNCHANGED inbox
       \/ /\ adaptor' = [adaptor EXCEPT ![s].state = "done"]
          /\ inbox' = [inbox EXCEPT ![c] = Sent(inbox, c, CancelMessage(s))]
    /\ UNCHANGED <<link, pc, mapVars, m_timer, headers, out, io, crashed>>

send_headers_Never(s) == <<>>

\* The first thing that is sent is the headers.
send_headers(s) == IF adaptor[s].m_sentfirst THEN <<>> ELSE <<Header(s, 200)>>

SendData(s, chunk) ==
    /\ inbox' = [inbox EXCEPT ![ConnOf[s]] =
           IF link[ConnOf[s]] # "ready" THEN @
           ELSE @ \o send_headers(s) \o <<Data(s, chunk)>>]
    /\ adaptor' = [adaptor EXCEPT ![s] = [m_sentfirst |-> TRUE, chunk |-> chunk,
                       state |-> IF chunk = 0 THEN "done" ELSE "open"]]

write_content(s) ==
    /\ adaptor[s].state = "open" /\ adaptor[s].chunk < Chunks
    /\ SendData(s, adaptor[s].chunk + 1)
    /\ UNCHANGED <<link, requests, pc, mapVars, m_timer, headers, out, io, crashed>>

write_finish(s) ==
    /\ adaptor[s].state = "open" /\ adaptor[s].chunk = Chunks
    /\ SendData(s, 0)
    /\ UNCHANGED <<link, requests, pc, mapVars, m_timer, headers, out, io, crashed>>

\* A peer that relays may cancel once more when it is done: its header timer
\* can be late (see timeout_cb).
write_cancel(s) ==
    /\ adaptor[s].state \in {"open", "done"}
    /\ inbox' = [inbox EXCEPT ![ConnOf[s]] = Sent(inbox, ConnOf[s], CancelMessage(s))]
    /\ adaptor' = [adaptor EXCEPT ![s].state = IF @ = "open" THEN "done" ELSE "late"]
    /\ UNCHANGED <<link, requests, pc, mapVars, m_timer, headers, out, io, crashed>>

-----------------------------------------------------------------------------
(* The io thread: messages of the peers.                                   *)

EndOfStream_Never(m) == FALSE

\* A payload of length zero ends the transfer.
EndOfStream(m) == m.chunk = 0

\* The data of an unknown sid is discarded.
handle_siddata(m) ==
    /\ m.type = "SIDDATA"
    /\ LET s == m_sid2ss[m.sid] IN
       \/ s = None /\ UNCHANGED <<out, io>>
       \/ s # None /\ EndOfStream(m) /\ Write(s, Finish) /\ io' = <<Unregister(s)>>
       \/ s # None /\ ~EndOfStream(m) /\ Write(s, Content(m.chunk)) /\ UNCHANGED io
    /\ UNCHANGED <<m_timer, headers, crashed>>

\* The headers stop the timer, which start_reply may not have made yet.
handle_sidheaders(m) ==
    /\ m.type = "SIDHEADERS"
    /\ LET s == m_sid2ss[m.sid] IN
       \/ s = None /\ UNCHANGED <<m_timer, headers, out, io, crashed>>
       \/ /\ s # None /\ m_timer[s] = "null"
          /\ crashed' = TRUE
          /\ UNCHANGED <<m_timer, headers, out, io>>
       \/ /\ s # None /\ m_timer[s] # "null"
          /\ m_timer' = [m_timer EXCEPT ![s] = IF @ = "armed" THEN "off" ELSE @]
          /\ \/ /\ m.status = 200
                /\ headers' = headers \cup {s}
                /\ UNCHANGED <<out, io>>
             \/ /\ m.status # 200
                /\ cancel_handler(s, "status", <<>>)
                /\ UNCHANGED headers
          /\ UNCHANGED crashed

handle_sidfail(m) ==
    /\ m.type = "SIDFAIL"
    /\ LET s == m_sid2ss[m.sid] IN
       \/ s = None /\ UNCHANGED <<out, io>>
       \/ s # None /\ cancel_handler(s, "fail", <<>>)
    /\ UNCHANGED <<m_timer, headers, crashed>>

\* The handlers look a sid up twice: an erasure of it between the two by a
\* thread of the web server leaves the second with a null pointer.
Vanishes(m) ==
    /\ m_sid2ss[m.sid] # None
    /\ \E s \in Http : pc[s] = "erasing" /\ SidOf[s] = m.sid
    /\ crashed' = TRUE
    /\ UNCHANGED <<m_timer, headers, out, io>>

message_received(c) ==
    /\ Idle /\ inbox[c] # <<>>
    /\ inbox' = [inbox EXCEPT ![c] = Tail(@)]
    /\ LET m == Head(inbox[c]) IN
       handle_siddata(m) \/ handle_sidheaders(m) \/ handle_sidfail(m) \/ Vanishes(m)
    /\ UNCHANGED <<link, requests, adaptor, pc, mapVars>>

-----------------------------------------------------------------------------
(* The io thread: timers and lost connections.                             *)

\* Five seconds are over: the handler is queued behind those of messages that
\* are there, and cancel() is too late.
expire(s) ==
    /\ m_timer[s] = "armed" /\ ~crashed
    /\ m_timer' = [m_timer EXCEPT ![s] = "queued"]
    /\ UNCHANGED <<netVars, pc, mapVars, headers, out, io, crashed>>

\* The handler was bound to this: when no shared_ptr kept the transfer, it
\* runs on freed memory, which is fatal or goes unnoticed.
timeout_cb(s) ==
    /\ Idle /\ m_timer[s] = "queued"
    /\ m_timer' = [m_timer EXCEPT ![s] = "off"]
    /\ \/ cancel_handler(s, "timeout", <<>>) /\ UNCHANGED crashed
       \/ /\ s \notin Mapped(m_sid2ss) \cup Starting
          /\ crashed' = TRUE
          /\ UNCHANGED <<out, io>>
    /\ UNCHANGED <<netVars, pc, mapVars, headers>>

Drop(c) ==
    /\ link[c] = "ready"
    /\ link' = [link EXCEPT ![c] = "lost"]
    /\ inbox' = [inbox EXCEPT ![c] = <<>>]
    /\ requests' = [requests EXCEPT ![c] = <<>>]
    /\ UNCHANGED <<adaptor, pc, mapVars, m_timer, headers, out, io, crashed>>

Remaining_SkipsLast(c, it) ==
    [i \in 1..(Len(m_conn2sid) - it) |-> CancelSid(m_conn2sid[it + i - 1].sid)]

\* The sids connection_terminated gathers: from the first entry of the
\* connection to the end of the multimap.
Remaining(c, it) ==
    [i \in 1..(Len(m_conn2sid) + 1 - it) |-> CancelSid(m_conn2sid[it + i - 1].sid)]

connection_terminated(c) ==
    /\ Idle /\ link[c] = "lost"
    /\ link' = [link EXCEPT ![c] = "closed"]
    /\ io' = IF find(c) = 0 THEN <<>> ELSE Remaining(c, find(c))
    /\ UNCHANGED <<requests, inbox, adaptor, pc, mapVars, m_timer, headers, out, crashed>>

\* connection_terminated goes on to its next sid; a missing entry of
\* m_sid2ss is a null pointer.
cancel_next ==
    /\ ~crashed
    /\ io # <<>> /\ Head(io).call = "cancel_handler"
    /\ LET s == m_sid2ss[Head(io).arg] IN
       \/ s = None /\ crashed' = TRUE /\ UNCHANGED <<out, io>>
       \/ s # None /\ cancel_handler(s, "terminated", Tail(io)) /\ UNCHANGED crashed
    /\ UNCHANGED <<netVars, pc, mapVars, m_timer, headers>>

-----------------------------------------------------------------------------
IoThread ==
    \/ unregister_sidtransfer
    \/ erase_sid
    \/ cancel_next
    \/ \E c \in Conn : message_received(c) \/ connection_terminated(c)
    \/ \E s \in Transfer : timeout_cb(s)

WebThread(s) ==
    \/ start_reply(s)
    \/ cancel_loop(s) \/ cancel_erase(s)
    \/ register_ss(s) \/ register_conn(s) \/ start_sidrequest(s)
    \/ make_timer(s) \/ start_timer(s)

Peer ==
    \/ \E c \in Conn : PeerRequest(c)
    \/ \E s \in Transfer : write_content(s) \/ write_finish(s) \/ write_cancel(s)

Next ==
    \/ IoThread
    \/ Peer
    \/ \E c \in Conn : Drop(c)
    \/ \E s \in Transfer :
          factory(s) \/ handle_sidrequest(s) \/ WebThread(s) \/ expire(s)

Spec == Init /\ [][Next]_vars

\* The threads of this node run and its clock ticks; peers, the network and
\* those who ask for files owe nothing.
FairSpec ==
    /\ Spec
    /\ WF_vars(IoThread)
    /\ \A s \in Http : WF_vars(WebThread(s))
    /\ \A s \in Transfer : WF_vars(expire(s))

-----------------------------------------------------------------------------
(* Properties.                                                             *)

\* Every variable keeps its type.
TypeOK ==
    /\ link \in [Conn -> {"ready", "lost", "closed"}]
    /\ requests \in [Conn -> Seq(Transfer)]
    /\ inbox \in [Conn -> Seq(SidMessage)]
    /\ adaptor \in [Transfer -> [state : {"none", "open", "done", "late"},
                                 m_sentfirst : BOOLEAN, chunk : 0..Chunks]]
    /\ pc \in [Transfer -> {"none", "refused", "made", "checked", "mapped", "tracked",
                            "requested", "timed", "cancelling", "erasing", "started"}]
    /\ m_sid2ss \in [Sid -> Transfer \cup {None}]
    /\ m_conn2sid \in Seq([conn : Conn, sid : Sid])
    /\ m_timer \in [Transfer -> {"null", "armed", "queued", "off"}]
    /\ headers \subseteq Transfer
    /\ out \in [Transfer -> Seq(Event)]
    /\ io \in Seq(Task)
    /\ crashed \in BOOLEAN

\* Some thread is between the two calls with which it registers s, or with
\* which it unregisters a transfer of the same sid.
HalfWay(s) ==
    \/ pc[s] = "mapped"
    \/ \E t \in Transfer :
          /\ SidOf[t] = SidOf[s]
          /\ pc[t] = "erasing" \/ (io # <<>> /\ Head(io) = Erase(t))

\* Whatever transfers share a connection or a sid, and whatever threads
\* start and end them: a transfer that data can be delivered to (m_sid2ss)
\* is entered under its connection (m_conn2sid), so that the loss of the
\* connection finds it; it is missing there only while a thread is between
\* the two halves of register_sidtransfer or unregister_sidtransfer.
Tracked ==
    \A s \in Mapped(m_sid2ss) :
        [conn |-> ConnOf[s], sid |-> SidOf[s]] \in Range(m_conn2sid) \/ HalfWay(s)

\* For transfers of different sids: a sid that connection_terminated has
\* gathered still has its transfer when its turn comes to be cancelled,
\* whatever threads registered or unregistered in the meantime.
CancelsFindTransfer ==
    \A i \in DOMAIN io : io[i].call = "cancel_handler" => m_sid2ss[io[i].arg] # None

\* A transfer passes on the chunks of its file in order and completely: it
\* tells m_aa of the end of the file only after the last chunk
\* (write_finish and siddata_handler: a payload of length zero is the end).
Faithful ==
    \A s \in Transfer : \A i \in DOMAIN out[s] :
        /\ out[s][i].op = "content" => out[s][i].chunk = i
        /\ out[s][i].op = "finish" => i = Chunks + 1

\* m_aa gets nothing more after write_finish or write_cancel, whichever of
\* data, failure, timeout and lost connection is first, except for one cancel
\* from a header timer whose handler was queued by then.
EndsOnce ==
    \A s \in Transfer : \A i \in DOMAIN out[s] :
        out[s][i].op # "content" =>
            \/ i = Len(out[s])
            \/ i = Len(out[s]) - 1 /\ out[s][i + 1] = Cancel("timeout")

\* No chunk is passed on before the headers were (send_headers on the first
\* write of greynet_asyncadaptor).
HeadersFirst ==
    \A s \in Transfer : \A i \in DOMAIN out[s] :
        out[s][i].op = "content" => s \in headers

\* The loop of unregister_sidtransfer finds another transfer than s first.
Behind(s) ==
    /\ io # <<>> /\ Head(io) = Unregister(s)
    /\ find(ConnOf[s]) # 0
    /\ \E t \in Mapped(m_sid2ss) \ {s} :
          m_conn2sid[find(ConnOf[s])] = [conn |-> ConnOf[s], sid |-> SidOf[t]]

\* The io thread hangs there.
Hangs == \E s \in Transfer : Behind(s)

\* A transfer that was started gets its headers or is given up, even when
\* the connection is lost between the test in start_reply and the request,
\* unless the process dies or its io thread hangs.
GivesUp ==
    \A s \in Transfer :
        pc[s] = "started" ~> (s \in headers \/ Ended(s) \/ crashed \/ Hangs)

\* A transfer that has its headers, and so no timer to help it, ends when its
\* connection is lost: connection_terminated finds it, unless the process
\* dies or its io thread hangs.
LostConnectionEnds ==
    \A s \in Transfer :
        (s \in headers \cap Mapped(m_sid2ss) /\ link[ConnOf[s]] = "lost")
            ~> (Ended(s) \/ crashed \/ Hangs)

\* With several transfers on a connection, ended in any order: the loop of
\* unregister_sidtransfer turns for ever only behind the entry of a transfer
\* that was registered earlier and has not ended (see CallbacksReturn); it
\* never meets an entry that some end has left behind.
HangsOnlyBehind ==
    \A s \in Transfer :
        io # <<>> /\ Head(io) = Unregister(s) =>
            \/ find(ConnOf[s]) = 0
            \/ m_conn2sid[find(ConnOf[s])].sid = SidOf[s]
            \/ Behind(s)

\* The io thread gets out of every callback, the loop of
\* unregister_sidtransfer included.
CallbacksReturn == (io # <<>>) ~> (io = <<>> \/ crashed)

\* What a transfer told its m_aa, without what brought about the end.
Told(s) == [i \in DOMAIN out[s] |->
               IF out[s][i].op = "content" THEN out[s][i] ELSE [op |-> out[s][i].op]]

Promise == INSTANCE Stream WITH
    Client  <- Transfer,
    up      <- ~crashed,
    asked   <- {s \in Transfer : pc[s] \notin {"none", "refused"}},
    out     <- [s \in Transfer |-> Told(s)]

\* Whatever the interleaving of web server, timers, messages and losses, a
\* transfer behaves as an abstract stream does: headers, chunks in order, one
\* end (repeated at most by a late timer), for as long as the process lives
\* (start_reply, siddata_handler, sidheaders_handler, cancel_handler and
\* timeout_cb together).
ImplementsStream == Promise!Safe

\* It also answers in time, as an abstract stream does.
AnswersInTime == Promise!Spec

\* connection_terminated cancels the transfers of that connection only.
OnlyOwnTransfers ==
    \A s \in Transfer : \A i \in DOMAIN out[s] :
        out[s][i] = Cancel("terminated") => link[ConnOf[s]] # "ready"


=============================================================================
