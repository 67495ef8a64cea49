# Greynet in TLA+

Greynet is a plugin of the Playdar music resolver: a node logs in to XMPP,
finds friends who run it too, makes direct TCP connections to them, floods
searches over the resulting mesh, returns results the way the search came and
streams files hop by hop. This directory holds TLA+ models of its stateful
parts and of how they are composed, TLC configurations that check them on small
instances, and proofs of some of their properties for all instances.

Paths such as `greynet.cpp:417` are in `src/src/`.

## 1. Inventory

| Component | State | Operations | Module |
| --- | --- | --- | --- |
| Peer detection (`jbot.cpp`) | `m_playdarpeers` | roster presence, disco answers and errors, `m_new_peer_cb` | `Jbot` |
| Handshake (`greynet.cpp:134-406`) | `m_peer_cookies`, per connection: handler, ready flag, name, watchdog | `jabber_new_peer`, `jabber_msg_received`, `connect_to_peer`, `new_incoming_connection`, `new_outgoing_connection`, watchdog, `expect_ident`, `send_ident`, PING/PONG | `Handshake` |
| Query routing (`greynet.cpp:255-262, 459-706`, `greynet.h:91-121`) | `m_qidorigins`, `m_seen_guids`, pending 100 ms timers | `start_resolving`, `handle_query`, `fwd_search`, `send_response`, `handle_queryresult`, `handle_querystop` | `QueryRouting` |
| File transfers (`ss_greynet.cpp`, `greynet_asyncadaptor.hpp`, `greynet.cpp:408-457, 715-790`) | `m_sid2ss`, `m_conn2sid`, per transfer: `m_timer`, `m_aa`; per sender: `m_sentfirst` | `factory`, `start_reply`, SID* handlers, `cancel_handler`, `timeout_cb`, `register_`/`unregister_sidtransfer`, `connection_terminated`, `write_*` | `Streaming` |
| XMPP session (`jbot.cpp:26-87, 130-186, 223-235`) | the client `j`, its thread | `start`, `stop`, `get_roster`, "quit", loss of the session | `Lifecycle` |
| Life cycle (`greynet.cpp:28-93, 152-171`) | the io thread, `m_jbot`, `m_pf` | `init`, `jabber_start`, the destructor | `Lifecycle` |
| External address, port forward (`greynet.cpp:96-132`) | `m_publicip`, the forward in the NAT router | `detect_ip`, removal | `Lifecycle`; constant `Public` of `Handshake` |
| `greynet://` urls (`ss_greynet.cpp:58-66`, `greynet.cpp:698-702`) | none | compose, parse | `GreynetUrl`, used by `Relay` |
| HTTP pages (`greynet.cpp:802-905`) | none of their own | connect by address, pingall, `get_roster`, pages | `Handshake`, `Lifecycle` |
| Message layout (`greynet_messages.hpp`) | none | constructors | records of the modules that send them |

**How they interact.** gloox calls `jbot` on its own thread; `jbot` reports a new
peer to `greynet::jabber_new_peer`, which sends an advertisement (address and
cookie) as an XMPP message. The receiver's `jabber_msg_received` dials. libf2f
calls `new_*_connection`, then `expect_ident` for the first message of a
connection; after the IDENT exchange all messages go to
`greynet::message_received`, which dispatches QUERY* to query routing and SID*
to transfers. Query routing calls the Playdar core (`query_exists`, `dispatch`,
`report_results`) and is called back by it (`start_resolving`, `send_response`).
A result's url `greynet://<peer>;<sid>` leads `ss_greynet::factory` back to a
connection by its peer's name. When a connection is lost libf2f calls
`connection_terminated`, which cancels its transfers. A node that is asked
for a file it does not have itself starts a transfer of its own and forwards
what comes in. The destructor stops the router and the io thread, then the jbot.

**Threads.** One io_service thread per node (`greynet.cpp:48`), the jbot thread,
and threads of the Playdar core and its web server. Nothing in `greynet` is
locked; `jbot` locks `m_playdarpeers`.

**What is hard.** Copies of one query racing through a mesh; stops racing with
queries; a connection lost between two steps of `start_reply`; a timer handler
queued behind the message that cancels it; several transfers on one connection
or of one sid; two nodes dialling each other; a restart while advertisements are
under way; presence and disco answers of overlapping sessions; a relay between
two timers and two connections; a shutdown at any point of the XMPP session, with
a web thread in the middle of the roster. `PROJECT.json`
lists each hazard at its line with the properties aimed at it.

**What makes each part correct.** Peer detection: the list is current, each
login is reported once. Handshake: one connection per peer, only invited peers,
IDENT before everything else, nobody waits for ever, friends become neighbours.
Routing: origins form no cycle and are never overwritten, each result arrives
once and its url leads to the file, stops come from the origin; queries, results
and stops get where they should. Transfers: the file arrives in order, complete,
after its headers, and ends once; the tables agree; a transfer that cannot go on
is ended; callbacks return; all of this also end to end, over a relay. Life
cycle: a shutdown ends and leaves nothing behind, no lock blocks anybody, and an
advertised address has its port forward.

## 2. Modules

Each component is a module with its constants and their assumption, variables,
`Init`, an action per handler, `Next`, `Spec`, fairness and its properties.
`MC<module>.tla` gives the small instances, each `.cfg` is one run, and
`<module>Proofs.tla` has the theorems (those of QueryRouting about results are
in `QueryResultProofs`). Names ending in `_Something` next to an
operator (`IsNew_Unchecked`) are wrong variants of it, which a property must
reject; nothing uses them in the specification.

### QueryRouting

A connection is the name of the peer (justified by `OneConnPerPeer` of
Handshake), a channel a FIFO per direction. A guid is named after the only step
that can draw it, so fresh uuids need no counter; the guid of a QUERYSTOP is the
query id, as in the code. `handle_query`, `handle_queryresult` and
`handle_querystop` are the disjuncts of `message_received` after its duplicate
check. The core's pipeline is `RunPipeline` and `start_resolving` on its
threads, `LocalMatch` on another resolver's. A result reported for a query that
has an origin is sent on in the same step, as the callback does.
`Disconnect` turns every weak pointer to the connection into `Gone`: the entry
stays in `m_qidorigins` and no peer matches it. (A pending `fwd_search` timer
keeps the dead connection object alive until it fires; a dead object matches no
live peer and loses what is written to it, as `Gone` does.) Unparsable payloads
are left out: `conn->fin()` there is one more cause of `Disconnect`.

### Streaming

One receiving node. Nothing is locked, so a step is one access to a map, one
message written or one timer operation. A web server thread goes through
`factory`, `start_reply` (test of `ready()`), `register_ss` and `register_conn`
(the two calls of `register_sidtransfer`), `start_sidrequest`, `make_timer` and
`start_timer`, or through `cancel_loop` and `cancel_erase` (the two halves of
`unregister_sidtransfer`); the io thread runs between any two. The io thread runs
a callback as a sequence of steps kept in `io`: what `connection_terminated` has
gathered, one `cancel_handler` after the other, and after each the loop
(`unregister_sidtransfer`) and the erasure (`erase_sid`). A relay does all of
`start_reply` in `handle_sidrequest` on the io thread; that stays one step because
what a web thread can do to one of the maps in between has the same result before
or after it.

The loop is enabled only when it would end, so a loop that spins shows as a
thread that never returns. `m_conn2sid` is a sequence of entries in the order of
connection pointers, with the multimap's `find` and `insert`. The headers stop an
armed timer (`"off"`), but not one whose handler is queued: asio calls that one
all the same.

Ownership matters: a transfer lives while `m_sid2ss` or the caller of
`start_reply` holds it, its destruction disarms its timer, and a handler already
queued then runs on freed memory. The undefined steps may set `crashed`: headers
before `m_timer` exists (`handle_sidheaders`); an entry of `m_conn2sid` without one
in `m_sid2ss` (`cancel_next`); a sid that another thread erases between the two
look-ups of a handler (`Vanishes`); the late handler of a freed transfer
(`timeout_cb`); and a transfer that is freed while the io thread is still in its
unregistration (`Freed`). The last two may also go unnoticed. The sending side is
`PeerRequest` and the three `write_*` operations of the adaptor, in whatever order
a streaming strategy may legally call them; a peer that relays may cancel once
more after its end, since its own header timer may be late.

### Stream

The abstract specification of a transfer: who asks is given headers, the chunks
in order and one end; it may be given up at any time; a late timer may repeat the
end with one cancel (`Repeat`), and the node may die (`Die`), after which it owes
nothing. Who waits for headers is answered. `Streaming` implements the safety part
(`ImplementsStream`), and with it the answers in time, in `Relay` (`EndToEnd`):
`asked` are the transfers that got past `factory`, `out` what `m_aa` was told,
without the cause of an end, and `up` is the absence of a fatal step.

### Relay

Alice, Bob and Charlie: two instances of `Streaming`, `A` (Alice receives from
Bob) and `B` (Bob receives from Charlie). Bob's peer actions in `A` are no longer
arbitrary: what `B` writes to `out` is what `greynet_asyncadaptor` sends to Alice
(`Forward`), in the same step, because `siddata_handler` calls
`m_aa->write_content` before it returns. Bob passes on no headers by themselves:
`sidheaders_handler` gives the adaptor a mime type and the adaptor writes
SIDHEADERS before its first data. `handle_sidrequest` is Bob's whole callback
with `B`'s `factory` and `start_reply` in it. Alice's `factory` goes through the
url of the result. The header timers of both nodes run (`Expires`), and either may
be late; what Bob's late timer writes reaches Alice as a SIDFAIL. `EndToEnd` says
that the chain implements `Stream` as one hop does.

### GreynetUrl

A url as a sequence of characters, composed by `greynet_url` and parsed by
`username` and `sid` at the first `;` after the scheme.

### Handshake

Any number of nodes; a connection has an `"out"` and an `"in"` end that go
through `none`, `new`, `expect`, `ready`, `closed`. Cookies are drawn in
`jabber_new_peer` and travel in `adverts`; `expect_ident` accepts or closes.
`CookieVerified` is what the code tests, which is that this process has issued
the cookie: the jid is stored and not compared. Failures: an end may be lost
(`Break`), the loss may be noticed late or never (`peer_closed`), a node may
restart with empty tables while its old connections linger at its peers.
`PING` stands for anything a ready end may write.

### Jbot

Each session of a friend causes stanzas that arrive in order; disco requests are
counted per session and answered by whoever has the session then, or by the
server with an error. The test for a bare jid is modelled as what it is: a look
for an element that the set of full jids never has.

### Lifecycle

Three threads and those of the web server. `main` is where the core's thread is
in `init` or in the destructor; `io` is the io thread; `jbot` is where
`jbot::start` is and `j` what the pointer is worth. The sessions of friends are
an instance of `Jbot` whose stanzas are handled only while our session is up,
nobody has disconnected the client and `stop` has not removed the handlers
(`Deaf`). A `disconnect()` while the client exists but `connect` has not got far
may find nothing to disconnect (`"missed"`); `start` keeps nothing of it, so the
session comes up. `m_playdarpeers_mut` is held over a step in one place only, while
`m_new_peer_cb` runs with it (`"reporting"`); `get_roster` takes it and then the
router's lock, one at a time and again for each resource it walks over. A use of
`j` by another thread than its own (`Use`: by `stop`, and by `get_roster` at the
start of its walk and after each resource) may be fatal at any time, since nothing
is locked, and goes unnoticed otherwise; before `j` is set, and without an `m_jbot`,
it is fatal. `detect_ip` is its four outcomes: no address, an address behind a
forward, a forward refused, and an address of the node's own.

## 3. Runs

All runs set `CHECK_DEADLOCK FALSE`: queries, transfers and handshakes are
finite, and a node with nothing to do really stops. Bounds are constants, named
in the modules.

| Run | Instance | Shows |
| --- | --- | --- |
| `QuerySafe` | triangle, 1 query, asker may give up, one loss of a connection | `TypeOK AskerHasNoOrigin OriginsAcyclic UrlsLeadToHolder StopsFollowOrigins ResultsOnce OriginIsKept`; while nothing is lost `ResultsReachAsker` |
| `QueryLine` | line of 4 nodes, the last one has the file, asker may give up | `QueryIsPassedOn` |
| `QueryStop` | triangle | **violates** `StopReachesFrontier` |
| `StreamSafe` | 2 transfers (web server, io thread), 1 connection, 1 chunk, either timer late | `TypeOK Tracked Faithful EndsOnce HeadersFirst CancelsFindTransfer HangsOnlyBehind GivesUp LostConnectionEnds`, the refinement `ImplementsStream` |
| `StreamTerminate` | 2 transfers, 2 connections | **violates** `OnlyOwnTransfers` |
| `StreamLoop` | 2 transfers, 1 connection | **violates** `CallbacksReturn` |
| `HandshakeSafe` | 2 reachable nodes, 2 connections, an unnoticed failure, a restart, a ping | `TypeOK OneConnPerPeer IdentComesFirst VerifiedFirst ReadyPeerWasInvited AuthOrDrop` |
| `HandshakeMesh` | 1 reachable node, 2 repeated reports, a connection made by hand without a cookie | `MeshFormed` |
| `HandshakeCross` | 2 reachable nodes | **violates** `MeshFormed` |
| `JbotPeers` | 2 sessions, 2 logins and a change of status each | `TypeOK ListIsCurrent ReportedOncePerLogin CapablePeersListed` |
| `RelayChain` | 1 transfer over 1 relay, 1 chunk, either connection may be lost, either timer late | `UrlFindsPeer EndToEnd EndIsPassedOn EveryStreamEnds` |
| `Lifecycle` | 1 friend with 2 logins and a change of status, 2 requests, 2 resources in the roster, unload and quit at any time | `TypeOK AdvertisedPortIsForwarded NothingOutlives ShutdownEnds RosterAnswered` |

**Why the bounds are enough.** A triangle is the smallest mesh in which a query
comes back to its asker, a node gets it twice, and a result may have to take two
hops. It is too small for relaying, as the asker reaches everybody itself: the
line of `QueryLine` has two nodes that only a relay reaches, the second through
two of them. `QueryIsPassedOn` is stated for each hop, so that a node is excused by
what it has itself solved or stopped and by nothing else. One query suffices, since
queries share no state but the channels and `m_seen_guids`, whose guids differ. The
liveness properties begin with `[](breaks = 0)`: they are claimed for the
behaviours in which no connection is lost. Two transfers on one connection are the
least for which the loop of `unregister_sidtransfer` meets a foreign entry, in
either order of registration, and one of each kind puts a web server thread beside
the io thread; one chunk tells data from the end. Transfers on different
connections meet in the order of `m_conn2sid` only, which `StreamTerminate` runs,
and transfers that share a sid are left to the theorem about `Tracked` (see below).
Two connections give crossing dials and
a connection before and after a restart; the third of `HandshakeMesh` is made by
hand. Sessions of different peers share nothing in `Jbot`, so one that only the
disco answer shows and one that its resource name shows too stand for all; two
logins are the least with which answers get mixed up. One relay gives all there is
to a chain, since each node of it knows only the hop before and the hop after it.
In `Lifecycle` one friend is enough to hold the lock, two requests to have one
before and one during the shutdown, and two resources to go round the walk again.
The proofs of section 5 carry the state invariants (but `CancelsFindTransfer`
and `HangsOnlyBehind`) and the safety of both refinements beyond these bounds.

### What the violations say

* **StreamTerminate**: the loop of `connection_terminated` (`greynet.cpp:417`)
  ends at `end()`, so the loss of one connection cancels transfers of others.
* **StreamLoop**: `unregister_sidtransfer` (439-446) looks at the first entry of
  the connection again and again; with two transfers on a connection, ending the
  later one hangs the io thread.
* **QueryStop**: a stop that took a side path uses up the guid in
  `m_seen_guids`, and the accepted one from the origin is dropped.
* **HandshakeCross**: two reachable friends dial each other and each drops the
  connection it dialled, as "already connected" through the other.

### Where the passing runs stop short

More places where the code does less than one would expect; the models contain
them unless said otherwise, and the passing runs are bounded accordingly.

* After the end of a transfer one cancel of a late header timer is allowed, in
  `EndsOnce`, `Stream` and all that rests on them: cancelling an asio timer does not
  stop a handler that is queued, so `timeout_cb` (`ss_greynet.cpp:98`) may cancel a
  transfer that has its headers by then, write a second end after the end of the
  file, or run on a freed object.
* `Tracked` holds except while a thread is between two calls on the maps
  (`greynet.cpp:454, 456` and `443, 447`). A loss handled between the two calls of
  `register_sidtransfer` finds no transfer to cancel. `GivesUp` shows that its header
  timer gives it up nevertheless, and `LostConnectionEnds` that one which has its
  headers, and so was registered completely, needs no timer.
* `register_sidtransfer` overwrites a running transfer of the same sid, which
  dies with its timer and without telling its client. `GivesUp` and
  `CancelsFindTransfer` are claimed for distinct sids.
* Messages of a transfer carry its sid and nothing else. When a client asks again
  after its five seconds, late chunks or the end of the first attempt go to the
  second one. `Faithful` and the refinement are claimed for one request per sid.
* `GivesUp` and `LostConnectionEnds` hold up to a fatal step (`crashed`) and up to a
  hang. The first can happen in `StreamSafe`: `start_reply` asks for the file
  (`ss_greynet.cpp:89`) before it makes `m_timer` (91), which `sidheaders_handler`
  dereferences (138). The second is what `StreamLoop` shows; `HangsOnlyBehind` says
  that there is no other way to it.
* `StopsFollowOrigins` says where a stop comes from, not that it ends the forwarding:
  `start_resolving` (`greynet.cpp:255-262`) sends without looking whether the query
  was stopped before the core's pipeline came to greynet; only `fwd_search` looks.
* A relay writes SIDHEADERS with the first data only (`greynet_asyncadaptor.hpp:35`),
  so a client may give up though the relay had its headers in time. `EndToEnd`
  allows that, and asks that it be told as an end.
* Nothing tells a sender to stop (`greynet.cpp:758`). When Alice leaves, Bob keeps
  his transfer until Charlie is done: `EveryStreamEnds` assumes that he goes on.
* `jbot::stop` and `get_roster` use `j` without asking whether the session has
  ended or begun (`jbot.cpp:80, 135`) and without a lock, and `get_roster` and
  `send_ident` use `m_jbot` without asking whether there is one
  (`greynet.cpp:400, 883`). Nothing is claimed about when that goes well:
  `ShutdownEnds` and `RosterAnswered` hold up to a fatal use, and `ShutdownEnds`
  up to a lost disconnect: a `disconnect()` between `new Client` (`jbot.cpp:44`) and
  `connect` (64) has no effect, `start` goes on to connect, and the destructor waits
  for a session that nobody ends.
* The destructor stops the router and the io thread before the jbot
  (`greynet.cpp:75, 83`), which may still advertise an address nobody listens on.
  `AdvertisedPortIsForwarded` is about the forward alone.
* A jid whose resource contains a `;` is cut short by `factory`
  (`ss_greynet.cpp:63`). `Relay` assumes names without one (`NameAssumption`), as
  does the theorem.
* A peer reported before its old connection is known to be lost is not
  advertised to (`greynet.cpp:229`), and is not reported again. `MeshFormed` is
  claimed without restarts.
* The used cookie stays in `m_peer_cookies`: the call that should "nuke" it
  (`greynet.cpp:377`) clears a property of the connection.
* The "already online" test of `handleRosterPresence` (`jbot.cpp:388`) compares
  a bare jid with full ones, so every change of status sends a disco request.

## 4. Fairness

* `QueryRouting`: weak fairness of each node's io thread and of its core's
  threads; clients, other resolvers and connections owe nothing.
* `Streaming`: weak fairness of the io thread, of each web server thread in
  `start_reply` and of the clock (`expire`); peers owe nothing, which is why
  `GivesUp` says something.
* `Handshake`: the jbot and io threads run and TCP delivers what was written.
  `FairSpec` does not assume that a closed connection is ever noticed, so
  `AuthOrDrop` rests on the watchdog. `FairNetSpec` does, so that the
  violation of `MeshFormed` is not blamed on the network. `Prompt` (links are
  faster than the two-second watchdog) is assumed for `MeshFormed` only.
* `Jbot`: the jbot thread runs, disco requests are answered.
* `Stream`: a client without headers is answered. In `Streaming` this follows
  from the timer and the threads.
* `Relay`: the threads of Alice (her timers with them), her web server and Bob's
  io thread. Charlie owes nothing, except where `EveryStreamEnds` says so.
* `Lifecycle`: the main thread, the io thread once it is told to stop, the jbot's
  thread and the web server's. A disconnected client's `recv` returns; friends,
  the XMPP server and the users owe nothing.

No strong fairness is used. A thread's weak fairness is the scheduler's; queues
inside a thread are finite in every run.

## 5. Proofs

Every state invariant that a run checks is also a theorem, but for two that
`StreamSafe` alone shows (named below): `Spec => []P`, for every value of the
constants that satisfies the assumptions below, checked by `tlapm`. The fair specifications imply `Spec`, so the theorems hold of them too.
None of the interesting properties is inductive; each module of proofs begins
with the invariant that is (`Inv`, and where a second one rests on the first,
`ResultInv`, `StreamInv`, `ExchangeInv`), all of which TLC checked before they
were proved. A step has a lemma of its own, and under it a step per part that
it can disturb.

**QueryRoutingProofs** - `TypeOK`, `OriginsAcyclic`, `AskerHasNoOrigin`,
`StopsFollowOrigins` and the action property `OriginIsKept`, for any mesh and any
losses and reconnections. A query could come from a node that does not know it,
so `Inv` adds that what is in flight is known (and a stop in flight obeyed) by
its writer (`InFlight`), that timers and pipelines hold known queries
(`WorkIsKnown`), that a query known anywhere is known to its asker (`AskerKnows`)
and that a recorded origin knows the query (`OriginsKnow`). A new origin is
recorded only at a node that did not know the query, so no node's origin can be
that node, and no cycle can close.

**QueryResultProofs** - `ResultsOnce`, `UrlsLeadToHolder`. Duplicate guids alone do
not give the first: each hop draws a fresh guid for a result. The reason is that
a node hands a result to one peer only, the origin it has or had, so that those
who know it form a line that starts at its holder. `ResultInv` says where each
known result came from (`ItemsOK`), what may be on a channel (`ToldUpwards`), that
of those who know a result one at most still has anybody to tell (`OneLast`), and
that origins form no cycle even with those that were lost (`UpAcyclic`); without
the last, a result could come round to a node whose origin has become `Gone`.

**StreamingProofs** - without a hypothesis, `TypeOK` and `Tracked`, for any
transfers, connections and sids. `Inv` is `Tracked` with the types of everything the
steps read. Lemmas state what `find`, insertion and removal do to the set of
entries. `Tracked` says how far the tables may be apart while their two entries are
changed one by one: only where some thread is half way (`HalfWay`).

Under the hypothesis `StreamsApart`, a sid per transfer, `EndsOnce`,
`HeadersFirst`, `Faithful`, and that every step of `Streaming` is a step of `Stream`
or a stutter (`StreamsImplement`: `ImplementsStream`). Late timers are in all of
them. Section 3 says what happens to transfers that share a sid. `StreamInv`
follows the stream from the sender's adaptor to `m_aa`: with the headers at
position 0 and the end at `Chunks + 1`, what is on the connection is exactly the
interval between what was passed on and what was sent, in order (`FlowOK`). The
rest is about one transfer against its threads: it is registered and asked for
once (`Stage`), its timer runs only after `start_reply` (`TimerOK`), an ended
transfer that is still mapped is the one the io thread unregisters or erases next
(`Leaving`), and what follows an end is the cancel of a timer that is spent then
(`Repeated`), which is why there is one of them.

**HandshakeProofs** - `TypeOK` and `OneConnPerPeer`, for any nodes, connections,
failures and restarts; `Inv` adds that an end has a state only when its
connection exists (`Linked`), and `IdentStep` is the one step that makes an end
ready. From `ExchangeInv`, `IdentComesFirst`, `VerifiedFirst` and
`ReadyPeerWasInvited`: the IDENTs of a connection go in turn (`Turns`, `Queue`), the
one of the dialling end bears its name and the cookie it was sent
(`Introduces`), and a cookie is only ever where it was drawn for (`CookiesFit`).
The last is what stands in for the comparison of jids that `expect_ident` does not
make; it needs that a cookie is drawn once.

**JbotProofs** - `TypeOK`, `ListIsCurrent`, `ReportedOncePerLogin`, for any
sessions, logins and changes of status. `Inv` reads the stanzas under way: a
session that went has its logout behind whatever could list it
(`LogoutFollows`), one that should be listed will be (`NotForgotten`), and each
stanza belongs to a login, in their order (`Numbered`, an existential over the
numbers).

**LifecycleProofs** - `TypeOK`, `AdvertisedPortIsForwarded`, `NothingOutlives`.
`Inv` says where the threads can be relative to each other: the client exists as
the jbot's thread says (`ClientOfJbot`), the main thread joins the io thread and
then the jbot (`MainAndIo`, `MainAndJbot`), and what is forwarded is what the address
was found with (`Forwarding`).

**GreynetUrlProofs** - `UrlRoundTrip`: for any name without a `;` and any sid,
`username` and `sid` of the composed url are the two. `UrlLayout` says where the
characters are, `FirstSeparator` that the first `;` after the scheme is the
one that was put there, whatever the sid contains. **RelayProofs** -
`UrlFindsPeer`, from that theorem, different names and closed connections staying
closed. Then `ChainImplements`, the safety part of `EndToEnd`, for any transfers
(with a sid each, `SidsDiffer`), connections and chunks: every step of the chain
is, for Alice, a step of `Stream` or a stutter. A step of the chain is a step of
`Streaming` for Bob (`BobSteps`) and for Alice (`AliceSteps`), so what
StreamingProofs shows of one node holds of each, cited through two instances of
that module (`AP`, `BP`; `SameAlice` and `SameBob` say that they are `A` and `B`).
What has to be shown is that Bob's io thread sends Alice only what a streaming
strategy may send (`Forwarded`): the next chunk, the end after the last one, or a
failure. That needs `Coupled` - while Bob's transfer goes on, his adaptor is open and
has sent what the transfer passed on, and after its end only one late cancel can
follow - and, of Bob, that what he passes on is in order and ends once
(`EndedLast`).

**Assumptions.** Each module's `ConstAssumption` gives the constants their types.
Beyond types: in `Jbot`, no full jid is a bare one (`BareJidAssumption`: a
resource is never empty in what gloox reports); in `Relay`, names are different
(`OneConnPerPeer`) and have no `;` (`NameAssumption`). `StreamsApart` and
`SidsDiffer` say that transfers have different sids; they are hypotheses of the
theorems that name them, not of the models.

**Only model-checked.** `CancelsFindTransfer`, `HangsOnlyBehind`; liveness under fairness
(`ResultsReachAsker`, `QueryIsPassedOn`, `GivesUp`, `LostConnectionEnds`,
`AuthOrDrop`, `MeshFormed`, `CapablePeersListed`, `EndIsPassedOn`,
`EveryStreamEnds`, `ShutdownEnds`, `RosterAnswered`), and the fairness part of
`EndToEnd`: the prover has no rule for `ENABLED`, from which fairness is made.

## 6. What is assumed and what is left out

* libf2f: messages go only to ready connections in `foreach_conns*`; `fin()`
  unregisters at once; writes to a connection that is down are lost; callbacks of
  one node are serial. `get_connection_by_name` finds ready connections only.
* The Playdar core never forgets a query; a streaming strategy writes no empty
  content chunk; XMPP delivers a message at most once and keeps the order between
  two parties.
* The core unloads the plugin when no request is inside it, and sends none
  before `init` has returned or after the unload. A `disconnect()` ends a gloox
  client that is connected, has no effect on one that has not begun to connect,
  and may or may not have one in between. gloox's roster, which `get_roster` walks
  while the jbot's thread may update it, is inside gloox: a walk looks at it once
  per resource, and each look may be fatal.
* A call on a `std::map` is one step, as are the calls of one loop over
  `m_conn2sid`. The maps are shared between threads
  without locks, so a torn access is undefined behaviour that these models do
  not show.
* Left out: parsing, JSON and message layout, logging, statistics, pages of the
  web interface, the inside of the NAT library, and the growth of
  `m_seen_guids`, `m_qidorigins` and `m_peer_cookies`.

## 7. Plan

In this order; done as described above, except for the last item.

1. `QueryRouting`, with proofs.
2. `Streaming`, with proofs of its tables.
3. `Handshake`, with the proof of `OneConnPerPeer`.
4. `Jbot`.
5. `Stream`, implemented by `Streaming`, and `Relay`, a chain built from it.
6. `Lifecycle`.
7. `GreynetUrl`, with the proof that parsing undoes composing.
8. Proofs of all invariants, and of the safety part of `ImplementsStream` and of
   `EndToEnd`.
9. `Membership`: `Jbot` and `Handshake` composed, with reports produced by
   sessions instead of the environment. What it would add is small: `Handshake`
   lets every friend be reported whenever a session of it may begin, which covers
   what `Jbot` reports.
