--------------------------- MODULE StreamingProofs ---------------------------
(***************************************************************************)
(* Proofs about Streaming for any transfers, connections and sids, any web *)
(* threads, timers however late and files of any length.                   *)
(*                                                                         *)
(* Whether transfers share sids or not: the types, and that m_sid2ss and   *)
(* m_conn2sid stay in step except while a thread is half way.  For         *)
(* transfers that share no sid: what a transfer passes on, and that        *)
(* Streaming implements the safety part of Stream.                         *)
(***************************************************************************)
EXTENDS Streaming, SequenceTheorems, WellFoundedInduction, TLAPS

-----------------------------------------------------------------------------
(* The multimap m_conn2sid.                                                *)

\* Every non-empty set of naturals has a least element.
LEMMA Least ==
    ASSUME NEW I \in SUBSET Nat, I # {}
    PROVE  \E x \in I : \A y \in I : x =< y
  <1>1. PICK x \in I : \A y \in I : ~(<<y, x>> \in OpToRel(<, Nat))
    BY NatLessThanWellFounded, WFMin
  <1>2. ASSUME NEW y \in I PROVE x =< y
    <2>1. y < x => <<y, x>> \in OpToRel(<, Nat)
      BY Zenon DEF OpToRel
    <2>2. ~(y < x)
      BY <2>1, <1>1
    <2>3. x \in Nat /\ y \in Nat
      OBVIOUS
    <2> HIDE <1>1, <2>1
    <2> QED
      BY <2>2, <2>3
  <1> QED
    BY <1>2

LEMMA MinIn ==
    ASSUME NEW I \in SUBSET Nat, I # {}
    PROVE  Min(I) \in I
  BY Least DEF Min

LEMMA MaxIn ==
    ASSUME NEW n \in Nat, NEW I \in SUBSET (1..n), I # {}
    PROVE  Max(I) \in I
  <1> DEFINE J == {n - i : i \in I}
  <1>1. J \in SUBSET Nat
    OBVIOUS
  <1>2. J # {}
    OBVIOUS
  <1>3. PICK x \in J : \A y \in J : x =< y
    BY <1>1, <1>2, Least
  <1>4. PICK i \in I : x = n - i
    OBVIOUS
  <1>5. ASSUME NEW k \in I PROVE i >= k
    <2>1. n - k \in J
      OBVIOUS
    <2>2. n - i =< n - k
      BY <2>1, <1>3, <1>4
    <2>3. i \in 1..n /\ k \in 1..n
      OBVIOUS
    <2> QED
      BY <2>2, <2>3
  <1> QED
    BY <1>5 DEF Max

Entry == [conn : Conn, sid : Sid]

\* find yields the position of an entry of the connection, or 0.
LEMMA FindRange ==
    ASSUME m_conn2sid \in Seq(Entry), NEW c, find(c) # 0
    PROVE  find(c) \in 1..Len(m_conn2sid)
  <1> DEFINE I == {i \in 1..Len(m_conn2sid) : m_conn2sid[i].conn = c}
  <1>1. find(c) = IF I # {} THEN Min(I) ELSE 0
    BY DEF find, SelectInSeq
  <1>2. I \in SUBSET Nat
    OBVIOUS
  <1> HIDE DEF I
  <1>3. I # {} /\ find(c) = Min(I)
    BY <1>1
  <1>4. find(c) \in I
    BY <1>2, <1>3, MinIn
  <1> QED
    BY <1>4 DEF I

\* A stretch of a sequence, possibly empty.
LEMMA Stretch ==
    ASSUME NEW E, NEW q \in Seq(E), NEW a \in 1..(Len(q) + 1), NEW b \in (a - 1)..Len(q)
    PROVE  /\ SubSeq(q, a, b) \in Seq(E)
           /\ Len(SubSeq(q, a, b)) = b + 1 - a
           /\ \A i \in 1..(b + 1 - a) : SubSeq(q, a, b)[i] = q[a + i - 1]
  <1>1. a \in Int /\ b \in Int /\ \A i \in a..b : q[i] \in E
    OBVIOUS
  <1>2. /\ SubSeq(q, a, b) \in Seq(E)
        /\ Len(SubSeq(q, a, b)) = IF a <= b THEN b - a + 1 ELSE 0
        /\ \A i \in 1..b - a + 1 : SubSeq(q, a, b)[i] = q[a + i - 1]
    BY <1>1, SubSeqProperties
  <1> QED
    BY <1>1, <1>2

\* erase takes out one entry and no other.
LEMMA Erased ==
    ASSUME NEW E, NEW q \in Seq(E), NEW k \in 1..Len(q)
    PROVE  /\ RemoveAt(q, k) \in Seq(E)
           /\ Range(q) \ {q[k]} \subseteq Range(RemoveAt(q, k))
  <1> DEFINE A == SubSeq(q, 1, k - 1)
             B == SubSeq(q, k + 1, Len(q))
  <1>1. A \in Seq(E) /\ Len(A) = k - 1 /\ \A i \in 1..(k - 1) : A[i] = q[i]
    BY Stretch
  <1>2. B \in Seq(E) /\ Len(B) = Len(q) - k /\ \A i \in 1..(Len(q) - k) : B[i] = q[k + i]
    BY Stretch
  <1>3. RemoveAt(q, k) = A \o B
    BY DEF RemoveAt
  <1> HIDE DEF A, B
  <1>4. /\ A \o B \in Seq(E)
        /\ Len(A \o B) = Len(q) - 1
        /\ \A i \in 1..(Len(q) - 1) : (A \o B)[i] = IF i < k THEN A[i] ELSE B[i - (k - 1)]
    <2>1. /\ A \o B \in Seq(E)
          /\ Len(A \o B) = Len(A) + Len(B)
          /\ \A i \in 1..Len(A) + Len(B) : (A \o B)[i] =
                IF i <= Len(A) THEN A[i] ELSE B[i - Len(A)]
      BY <1>1, <1>2, ConcatProperties
    <2>2. Len(q) \in Nat /\ k \in Nat
      OBVIOUS
    <2>3. Len(A) + Len(B) = Len(q) - 1
      BY <1>1, <1>2, <2>2
    <2>4. ASSUME NEW i \in 1..(Len(q) - 1)
          PROVE  (A \o B)[i] = IF i < k THEN A[i] ELSE B[i - (k - 1)]
      BY <2>1, <2>2, <2>3, <1>1
    <2> QED
      BY <2>1, <2>3, <2>4
  <1> DEFINE t == A \o B
  <1> HIDE DEF t
  <1>5. ASSUME NEW i \in 1..Len(q), i < k
        PROVE  i \in 1..Len(t) /\ t[i] = q[i]
    BY <1>1, <1>4, <1>5 DEF t
  <1>6. ASSUME NEW i \in 1..Len(q), i > k
        PROVE  i - 1 \in 1..Len(t) /\ t[i - 1] = q[i]
    <2>1. /\ i - 1 \in 1..(Len(q) - 1) /\ ~(i - 1 < k) /\ i - 1 - (k - 1) = i - k
          /\ i - k \in 1..(Len(q) - k) /\ k + (i - k) = i
      BY <1>6
    <2> QED
      BY <1>2, <1>4, <2>1 DEF t
  <1>7. Range(q) \ {q[k]} \subseteq Range(t)
    <2> SUFFICES ASSUME NEW i \in 1..Len(q), q[i] # q[k]
                 PROVE  q[i] \in Range(t)
      BY DEF Range
    <2>1. i < k \/ i > k
      OBVIOUS
    <2>2. \E j \in 1..Len(t) : t[j] = q[i]
      BY <1>5, <1>6, <2>1
    <2>3. t \in Seq(E)
      BY <1>4 DEF t
    <2> QED
      BY <2>2, <2>3 DEF Range
  <1> QED
    BY <1>3, <1>4, <1>7 DEF t

\* Insertion at a position adds one element and keeps all others.
LEMMA InsertKeeps ==
    ASSUME NEW E, NEW q \in Seq(E), NEW k \in 1..(Len(q) + 1), NEW e \in E
    PROVE  /\ InsertAt(q, k, e) \in Seq(E)
           /\ Range(q) \cup {e} \subseteq Range(InsertAt(q, k, e))
  <1> DEFINE A == SubSeq(q, 1, k - 1)
             B == SubSeq(q, k, Len(q))
             C == A \o <<e>>
             D == C \o B
  <1>1. A \in Seq(E) /\ Len(A) = k - 1 /\ \A i \in 1..(k - 1) : A[i] = q[i]
    BY Stretch
  <1>2. /\ B \in Seq(E) /\ Len(B) = Len(q) + 1 - k
        /\ \A i \in 1..(Len(q) + 1 - k) : B[i] = q[k + i - 1]
    BY Stretch
  <1>3. InsertAt(q, k, e) = D
    BY DEF InsertAt
  <1>4. <<e>> \in Seq(E) /\ Len(<<e>>) = 1 /\ <<e>>[1] = e
    OBVIOUS
  <1> HIDE DEF A, B
  <1>5. /\ C \in Seq(E) /\ Len(C) = k
        /\ \A i \in 1..k : C[i] = IF i < k THEN A[i] ELSE e
    BY <1>1, <1>4, ConcatProperties
  <1> HIDE DEF C
  <1>6. /\ D \in Seq(E) /\ Len(D) = Len(q) + 1
        /\ \A i \in 1..(Len(q) + 1) : D[i] = IF i <= k THEN C[i] ELSE B[i - k]
    BY <1>2, <1>5, ConcatProperties
  <1> HIDE DEF D
  <1>7. D[k] = e /\ k \in 1..Len(D)
    BY <1>5, <1>6
  <1>8. ASSUME NEW i \in 1..Len(q), i < k
        PROVE  i \in 1..Len(D) /\ D[i] = q[i]
    <2>1. i \in 1..(Len(q) + 1) /\ i <= k /\ i \in 1..k /\ i \in 1..(k - 1)
      BY <1>8
    <2>2. D[i] = C[i] /\ C[i] = A[i] /\ A[i] = q[i]
      BY <1>1, <1>5, <1>6, <1>8, <2>1
    <2> QED
      BY <1>6, <2>1, <2>2
  <1>9. ASSUME NEW i \in 1..Len(q), i >= k
        PROVE  i + 1 \in 1..Len(D) /\ D[i + 1] = q[i]
    <2>1. /\ i + 1 \in 1..(Len(q) + 1) /\ ~(i + 1 <= k)
          /\ i + 1 - k \in 1..(Len(q) + 1 - k) /\ k + (i + 1 - k) - 1 = i
      BY <1>9
    <2>2. D[i + 1] = B[i + 1 - k]
      BY <1>6, <2>1
    <2>3. B[i + 1 - k] = q[k + (i + 1 - k) - 1]
      BY <1>2, <2>1
    <2> QED
      BY <1>6, <2>1, <2>2, <2>3
  <1>10. Range(q) \cup {e} \subseteq Range(D)
    <2>1. e \in Range(D)
      BY <1>6, <1>7 DEF Range
    <2> SUFFICES ASSUME NEW i \in 1..Len(q) PROVE q[i] \in Range(D)
      BY <2>1 DEF Range
    <2>2. \E j \in 1..Len(D) : D[j] = q[i]
      BY <1>8, <1>9
    <2> QED
      BY <1>6, <2>2 DEF Range
  <1> QED
    BY <1>3, <1>6, <1>7, <1>10

\* insert adds one entry and keeps all others.
LEMMA InsertedKeeps ==
    ASSUME m_conn2sid \in Seq(Entry), NEW e \in Entry
    PROVE  /\ Inserted(e) \in Seq(Entry)
           /\ Range(m_conn2sid) \cup {e} \subseteq Range(Inserted(e))
  <1> DEFINE I == {i \in 1..Len(m_conn2sid) : m_conn2sid[i].conn <= e.conn}
             last == SelectLastInSeq(m_conn2sid, LAMBDA f : f.conn <= e.conn)
             k == last + 1
  <1>1. last = IF I # {} THEN Max(I) ELSE 0
    BY DEF SelectLastInSeq
  <1>2. I \in SUBSET (1..Len(m_conn2sid)) /\ Len(m_conn2sid) \in Nat
    OBVIOUS
  <1>3. Inserted(e) = InsertAt(m_conn2sid, k, e)
    BY DEF Inserted
  <1> HIDE DEF I, last
  <1>4. k \in 1..(Len(m_conn2sid) + 1)
    <2>1. CASE I = {}
      BY <1>1, <1>2, <2>1
    <2>2. CASE I # {}
      <3>1. Max(I) \in I
        BY <1>2, <2>2, MaxIn
      <3>2. Max(I) \in 1..Len(m_conn2sid)
        BY <1>2, <3>1
      <3>3. last = Max(I)
        BY <1>1, <2>2
      <3> QED
        BY <1>2, <3>2, <3>3
    <2> QED
      BY <2>1, <2>2
  <1>5. PICK at \in 1..(Len(m_conn2sid) + 1) : Inserted(e) = InsertAt(m_conn2sid, at, e)
    BY <1>3, <1>4
  <1> QED
    BY <1>5, InsertKeeps

-----------------------------------------------------------------------------
(* The tables m_sid2ss and m_conn2sid.                                     *)

TablesOK ==
    /\ m_sid2ss \in [Sid -> Transfer \cup {None}]
    /\ m_conn2sid \in Seq(Entry)

EntryOf(s) == [conn |-> ConnOf[s], sid |-> SidOf[s]]

\* insert enters a transfer under its connection, and no other transfer loses
\* its entry.
LEMMA InsertTables ==
    ASSUME TablesOK, NEW s \in Transfer, insert(s)
    PROVE  /\ m_conn2sid' \in Seq(Entry)
           /\ Range(m_conn2sid) \cup {EntryOf(s)} \subseteq Range(m_conn2sid')
  <1>1. EntryOf(s) \in Entry
    BY ConstAssumption DEF EntryOf, Entry
  <1>2. m_conn2sid' = Inserted(EntryOf(s))
    BY DEF insert, EntryOf
  <1> QED
    BY <1>1, <1>2, InsertedKeeps DEF TablesOK

\* Whichever entry the loop removes is one of the sid that is to be erased.
LEMMA LoopTables ==
    ASSUME TablesOK, NEW s \in Transfer, unregister_loop(s)
    PROVE  /\ m_conn2sid' \in Seq(Entry)
           /\ \A e \in Range(m_conn2sid) : e.sid # SidOf[s] => e \in Range(m_conn2sid')
  <1> DEFINE it == find(ConnOf[s])
  <1>1. CASE it = 0
    BY <1>1 DEF unregister_loop, TablesOK
  <1>2. CASE it # 0
    <2>1. it \in 1..Len(m_conn2sid)
      BY <1>2, FindRange DEF TablesOK
    <2>2. m_conn2sid[it].sid = SidOf[s] /\ m_conn2sid' = RemoveAt(m_conn2sid, it)
      BY <1>2 DEF unregister_loop
    <2>3. /\ m_conn2sid' \in Seq(Entry)
          /\ Range(m_conn2sid) \ {m_conn2sid[it]} \subseteq Range(m_conn2sid')
      BY <2>1, <2>2, Erased DEF TablesOK
    <2> QED
      BY <2>2, <2>3
  <1> QED
    BY <1>1, <1>2

LEMMA SameTables ==
    ASSUME TablesOK, UNCHANGED mapVars
    PROVE  TablesOK'
  BY DEF TablesOK, mapVars

\* An entry may go only while a thread is half way.
LEMMA Untouched ==
    ASSUME Tracked, UNCHANGED mapVars,
           \A t \in Transfer : pc[t] \in {"mapped", "erasing"} => pc'[t] = pc[t],
           io # <<>> /\ Head(io).call = "erase" => io' = io
    PROVE  Tracked'
  <1> SUFFICES ASSUME NEW s \in Transfer, m_sid2ss[SidOf[s]] = s, HalfWay(s)
               PROVE  HalfWay(s)'
    BY DEF Tracked, Mapped, mapVars
  <1>1. CASE pc[s] = "mapped"
    BY <1>1 DEF HalfWay
  <1>2. ASSUME NEW t \in Transfer, SidOf[t] = SidOf[s], pc[t] = "erasing"
        PROVE  HalfWay(s)'
    BY <1>2 DEF HalfWay
  <1>3. ASSUME NEW t \in Transfer, SidOf[t] = SidOf[s], io # <<>>, Head(io) = Erase(t)
        PROVE  HalfWay(s)'
    <2>1. io' = io
      BY <1>3 DEF Erase
    <2> QED
      BY <1>3, <2>1 DEF HalfWay
  <1> QED
    BY <1>1, <1>2, <1>3 DEF HalfWay

\* A transfer other than those of a sid is half way as before.
LEMMA HalfWayKept ==
    ASSUME NEW s \in Transfer, NEW r \in Transfer, SidOf[r] # SidOf[s] \/ pc[s] # "erasing",
           r # s,
           \A t \in Transfer \ {s} : pc'[t] = pc[t],
           io' = io,
           HalfWay(r)
    PROVE  HalfWay(r)'
  BY DEF HalfWay

-----------------------------------------------------------------------------
(* The types.                                                              *)

AdaptorState == {"none", "open", "done", "late"}

Adaptor == [state : AdaptorState, m_sentfirst : BOOLEAN, chunk : 0..Chunks]

NetOK ==
    /\ link \in [Conn -> {"ready", "lost", "closed"}]
    /\ requests \in [Conn -> Seq(Transfer)]
    /\ inbox \in [Conn -> Seq(SidMessage)]
    /\ adaptor \in [Transfer -> Adaptor]

Timers == [Transfer -> {"null", "armed", "queued", "off"}]

Place == {"none", "refused", "made", "checked", "mapped", "tracked",
          "requested", "timed", "cancelling", "erasing", "started"}

ThreadsOK ==
    /\ pc \in [Transfer -> Place]
    /\ m_timer \in Timers
    /\ headers \subseteq Transfer
    /\ crashed \in BOOLEAN

OutputOK ==
    /\ out \in [Transfer -> Seq(Event)]
    /\ io \in Seq(Task)

Inv == NetOK /\ TablesOK /\ ThreadsOK /\ OutputOK /\ Tracked

LEMMA ReleasedType ==
    ASSUME NEW timer \in Timers, NEW held
    PROVE  Released(timer, held) \in Timers
  BY DEF Released, Timers

LEMMA WriteType ==
    ASSUME OutputOK, NEW s \in Transfer, NEW w \in Event, Write(s, w)
    PROVE  out' \in [Transfer -> Seq(Event)]
  BY DEF OutputOK, Write

LEMMA CancelType ==
    ASSUME OutputOK, NEW s \in Transfer, NEW why \in Why, NEW rest \in Seq(Task),
           cancel_handler(s, why, rest)
    PROVE  OutputOK'
  <1>1. Cancel(why) \in Event
    BY DEF Cancel, Event
  <1>2. <<Unregister(s)>> \in Seq(Task)
    BY DEF Unregister, Task
  <1>3. io' \in Seq(Task)
    BY <1>2, ConcatProperties DEF cancel_handler
  <1>4. out' \in [Transfer -> Seq(Event)]
    BY <1>1, WriteType DEF cancel_handler
  <1> QED
    BY <1>3, <1>4 DEF OutputOK

\* What is written to a connection arrives or is lost.
LEMMA SentType ==
    ASSUME NEW S, NEW queue \in [Conn -> Seq(S)], NEW c \in Conn, NEW m \in S
    PROVE  Sent(queue, c, m) \in Seq(S)
  BY DEF Sent

LEMMA RequestType ==
    ASSUME NetOK, NEW s \in Transfer, WriteRequest(s)
    PROVE  requests' \in [Conn -> Seq(Transfer)]
  <1>1. ConnOf[s] \in Conn
    BY ConstAssumption
  <1>2. Sent(requests, ConnOf[s], s) \in Seq(Transfer)
    BY <1>1, SentType DEF NetOK
  <1> QED
    BY <1>2 DEF WriteRequest, NetOK

LEMMA SameParts ==
    /\ NetOK /\ UNCHANGED netVars => NetOK'
    /\ ThreadsOK /\ UNCHANGED <<pc, m_timer, headers, crashed>> => ThreadsOK'
    /\ OutputOK /\ UNCHANGED <<out, io>> => OutputOK'
  BY DEF NetOK, netVars, ThreadsOK, OutputOK

LEMMA SameTracked ==
    ASSUME Tracked, UNCHANGED <<mapVars, pc, io>>
    PROVE  Tracked'
  BY Untouched

LEMMA InitInv == Init => Inv
  <1> SUFFICES ASSUME Init PROVE Inv
    OBVIOUS
  <1> USE ConstAssumption DEF Init
  <1>1. NetOK
    BY DEF NetOK, Adaptor, AdaptorState
  <1>2. TablesOK
    BY DEF TablesOK
  <1>3. ThreadsOK
    BY DEF ThreadsOK, Timers, Place
  <1>4. OutputOK
    BY DEF OutputOK
  <1>5. Tracked
    BY DEF Tracked, Mapped
  <1> QED
    BY <1>1, <1>2, <1>3, <1>4, <1>5 DEF Inv

\* The steps of the web server's threads.
LEMMA WebTypes ==
    ASSUME Inv, NEW s \in Transfer, factory(s) \/ WebThread(s)
    PROVE  NetOK' /\ TablesOK' /\ ThreadsOK' /\ OutputOK'
  <1> USE DEF Inv
  <1>1. CASE factory(s)
    <2>1. ThreadsOK'
      BY <1>1 DEF factory, ThreadsOK, Place
    <2> QED
      BY <1>1, <2>1, SameTables, SameParts DEF factory
  <1>2. CASE start_reply(s)
    <2>1. ThreadsOK'
      BY <1>2 DEF start_reply, ThreadsOK, Place
    <2>2. OutputOK'
      <3>1. Cancel("not ready") \in Event
        BY DEF Cancel, Event, Why
      <3>2. out' \in [Transfer -> Seq(Event)]
        BY <1>2, <3>1, WriteType DEF start_reply, OutputOK
      <3> QED
        BY <1>2, <3>2 DEF start_reply, OutputOK
    <2> QED
      BY <1>2, <2>1, <2>2, SameTables, SameParts DEF start_reply
  <1>3. CASE cancel_loop(s)
    <2>1. TablesOK'
      BY <1>3, LoopTables DEF cancel_loop, TablesOK
    <2>2. ThreadsOK'
      BY <1>3 DEF cancel_loop, ThreadsOK, Place
    <2> QED
      BY <1>3, <2>1, <2>2, SameParts DEF cancel_loop
  <1>4. CASE cancel_erase(s)
    <2>1. TablesOK'
      BY <1>4 DEF cancel_erase, erase, TablesOK
    <2>2. ThreadsOK'
      BY <1>4, ReleasedType DEF cancel_erase, ThreadsOK, Place
    <2> QED
      BY <1>4, <2>1, <2>2, SameParts DEF cancel_erase
  <1>5. CASE register_ss(s)
    <2>1. TablesOK'
      BY <1>5 DEF register_ss, register_sidtransfer, TablesOK
    <2>2. ThreadsOK'
      BY <1>5, ReleasedType DEF register_ss, ThreadsOK, Place
    <2> QED
      BY <1>5, <2>1, <2>2, SameParts DEF register_ss
  <1>6. CASE register_conn(s)
    <2>1. TablesOK'
      BY <1>6, InsertTables DEF register_conn, TablesOK
    <2>2. ThreadsOK'
      BY <1>6 DEF register_conn, ThreadsOK, Place
    <2> QED
      BY <1>6, <2>1, <2>2, SameParts DEF register_conn
  <1>7. CASE start_sidrequest(s)
    <2>1. NetOK'
      BY <1>7, RequestType DEF start_sidrequest, NetOK
    <2>2. ThreadsOK'
      BY <1>7 DEF start_sidrequest, ThreadsOK, Place
    <2> QED
      BY <1>7, <2>1, <2>2, SameTables, SameParts DEF start_sidrequest
  <1>8. CASE make_timer(s)
    <2>1. ThreadsOK'
      BY <1>8 DEF make_timer, ThreadsOK, Place, Timers
    <2> QED
      BY <1>8, <2>1, SameTables, SameParts DEF make_timer
  <1>9. CASE start_timer(s)
    <2>1. async_wait(s) \in Timers
      BY DEF async_wait, ThreadsOK, Timers
    <2>2. ThreadsOK'
      BY <1>9, <2>1, ReleasedType DEF start_timer, ThreadsOK, Place
    <2> QED
      BY <1>9, <2>2, SameTables, SameParts DEF start_timer
  <1> QED
    BY <1>1, <1>2, <1>3, <1>4, <1>5, <1>6, <1>7, <1>8, <1>9 DEF WebThread

LEMMA WebTracked ==
    ASSUME Inv, NEW s \in Transfer, factory(s) \/ WebThread(s)
    PROVE  Tracked'
  <1> USE DEF Inv
  <1>0. /\ io' = io
        /\ \A t \in Transfer \ {s} : pc'[t] = pc[t]
    <2>1. io' = io /\ \E at \in Place : pc' = [pc EXCEPT ![s] = at]
      BY DEF factory, WebThread, start_reply, cancel_loop, cancel_erase, register_ss,
             register_conn, start_sidrequest, make_timer, start_timer, Place
    <2> QED
      BY <2>1 DEF ThreadsOK
  <1>1. CASE UNCHANGED mapVars /\ pc[s] \notin {"mapped", "erasing"}
    BY <1>0, <1>1, Untouched
  <1>2. CASE cancel_loop(s)
    <2> SUFFICES ASSUME NEW r \in Transfer, m_sid2ss[SidOf[r]] = r
                 PROVE  EntryOf(r) \in Range(m_conn2sid') \/ HalfWay(r)'
      BY <1>2 DEF cancel_loop, Tracked, Mapped, EntryOf
    <2>1. pc'[s] = "erasing" /\ pc[s] = "cancelling"
      BY <1>2 DEF cancel_loop, ThreadsOK
    <2>2. CASE SidOf[r] = SidOf[s]
      BY <2>1, <2>2 DEF HalfWay
    <2>3. CASE SidOf[r] # SidOf[s]
      <3>1. EntryOf(r) \in Range(m_conn2sid) => EntryOf(r) \in Range(m_conn2sid')
        BY <1>2, <2>3, LoopTables DEF cancel_loop, EntryOf
      <3>2. HalfWay(r) => HalfWay(r)'
        BY <1>0, <2>3, HalfWayKept
      <3> QED
        BY <3>1, <3>2 DEF Tracked, Mapped, EntryOf
    <2> QED
      BY <2>2, <2>3
  <1>3. CASE cancel_erase(s)
    <2> SUFFICES ASSUME NEW r \in Transfer, m_sid2ss'[SidOf[r]] = r
                 PROVE  EntryOf(r) \in Range(m_conn2sid) \/ HalfWay(r)'
      BY <1>3 DEF cancel_erase, Tracked, Mapped, EntryOf
    <2>1. SidOf[r] # SidOf[s] /\ m_sid2ss[SidOf[r]] = r
      BY <1>3, ConstAssumption DEF cancel_erase, erase, TablesOK
    <2>2. HalfWay(r) => HalfWay(r)'
      BY <1>0, <2>1, HalfWayKept
    <2> QED
      BY <2>1, <2>2 DEF Tracked, Mapped, EntryOf
  <1>4. CASE register_ss(s)
    <2> SUFFICES ASSUME NEW r \in Transfer, m_sid2ss'[SidOf[r]] = r
                 PROVE  EntryOf(r) \in Range(m_conn2sid) \/ HalfWay(r)'
      BY <1>4 DEF register_ss, Tracked, Mapped, EntryOf
    <2>1. CASE r = s
      BY <1>4, <2>1 DEF register_ss, HalfWay, ThreadsOK
    <2>2. CASE r # s
      <3>1. m_sid2ss[SidOf[r]] = r
        BY <1>4, <2>2, ConstAssumption DEF register_ss, register_sidtransfer, TablesOK
      <3>2. HalfWay(r) => HalfWay(r)'
        BY <1>0, <1>4, <2>2, HalfWayKept DEF register_ss
      <3> QED
        BY <3>1, <3>2 DEF Tracked, Mapped, EntryOf
    <2> QED
      BY <2>1, <2>2
  <1>5. CASE register_conn(s)
    <2> SUFFICES ASSUME NEW r \in Transfer, m_sid2ss[SidOf[r]] = r
                 PROVE  EntryOf(r) \in Range(m_conn2sid') \/ HalfWay(r)'
      BY <1>5 DEF register_conn, Tracked, Mapped, EntryOf
    <2>1. Range(m_conn2sid) \cup {EntryOf(s)} \subseteq Range(m_conn2sid')
      BY <1>5, InsertTables DEF register_conn
    <2>2. CASE r = s
      BY <2>1, <2>2
    <2>3. CASE r # s
      <3>1. HalfWay(r) => HalfWay(r)'
        BY <1>0, <1>5, <2>3, HalfWayKept DEF register_conn
      <3> QED
        BY <2>1, <3>1 DEF Tracked, Mapped, EntryOf
    <2> QED
      BY <2>2, <2>3
  <1>6. CASE factory(s) \/ start_reply(s) \/ start_sidrequest(s) \/ make_timer(s) \/ start_timer(s)
    BY <1>1, <1>6 DEF factory, start_reply, start_sidrequest, make_timer, start_timer
  <1> QED
    BY <1>2, <1>3, <1>4, <1>5, <1>6 DEF WebThread

LEMMA WebInv ==
    ASSUME Inv, NEW s \in Transfer, factory(s) \/ WebThread(s)
    PROVE  Inv'
  BY WebTypes, WebTracked DEF Inv

\* What a relay does within handle_sidrequest.
LEMMA HandleSidrequestCases ==
    ASSUME NEW s \in Transfer, handle_sidrequest(s)
    PROVE  \/ /\ pc' = [pc EXCEPT ![s] = "refused"]
              /\ UNCHANGED <<netVars, mapVars, m_timer, out, io>>
           \/ /\ pc' = [pc EXCEPT ![s] = "started"]
              /\ cancel_handler(s, "not ready", <<>>)
              /\ UNCHANGED <<netVars, mapVars, m_timer>>
           \/ /\ link[ConnOf[s]] = "ready"
              /\ pc' = [pc EXCEPT ![s] = "started"]
              /\ register_sidtransfer(s) /\ insert(s) /\ WriteRequest(s)
              /\ m_timer' = Released(async_wait(s), Mapped(m_sid2ss') \cup Starting)
              /\ UNCHANGED <<link, inbox, adaptor, out, io>>
  BY DEF handle_sidrequest

LEMMA HandleSidrequestInv ==
    ASSUME Inv, NEW s \in Transfer, handle_sidrequest(s)
    PROVE  Inv'
  <1> USE DEF Inv
  <1>2. Idle /\ s \notin Http /\ pc[s] = "none" /\ UNCHANGED <<headers, crashed>>
    BY DEF handle_sidrequest
  <1>3. async_wait(s) \in Timers
    BY DEF async_wait, ThreadsOK, Timers
  <1>4. ThreadsOK'
    <2>1. m_timer' \in Timers
      <3>1. m_timer' = m_timer \/ \E held : m_timer' = Released(async_wait(s), held)
        BY HandleSidrequestCases
      <3> QED
        BY <1>3, <3>1, ReleasedType DEF ThreadsOK
    <2>2. \E at \in Place : pc' = [pc EXCEPT ![s] = at]
      BY HandleSidrequestCases DEF Place
    <2> QED
      BY <1>2, <2>1, <2>2 DEF ThreadsOK
  <1>5. OutputOK'
    <2>1. "not ready" \in Why /\ <<>> \in Seq(Task)
      BY DEF Why
    <2> QED
      BY <2>1, HandleSidrequestCases, CancelType, SameParts
  <1>6. TablesOK'
    <2>1. register_sidtransfer(s) /\ insert(s) => TablesOK'
      BY InsertTables DEF register_sidtransfer, TablesOK
    <2> QED
      BY <2>1, HandleSidrequestCases, SameTables
  <1>7. NetOK'
    <2>1. requests' \in [Conn -> Seq(Transfer)] /\ UNCHANGED <<link, inbox, adaptor>>
      BY HandleSidrequestCases, RequestType DEF NetOK, netVars
    <2> QED
      BY <2>1 DEF NetOK
  <1>8. Tracked'
    <2>1. CASE UNCHANGED mapVars
      <3>1. \A t \in Transfer \ {s} : pc'[t] = pc[t]
        BY HandleSidrequestCases DEF ThreadsOK
      <3> QED
        BY <1>2, <2>1, <3>1, Untouched DEF Idle
    <2>2. CASE register_sidtransfer(s) /\ insert(s) /\ pc' = [pc EXCEPT ![s] = "started"] /\ UNCHANGED io
      <3> SUFFICES ASSUME NEW r \in Transfer, m_sid2ss'[SidOf[r]] = r
                   PROVE  EntryOf(r) \in Range(m_conn2sid') \/ HalfWay(r)'
        BY DEF Tracked, Mapped, EntryOf
      <3>1. Range(m_conn2sid) \cup {EntryOf(s)} \subseteq Range(m_conn2sid')
        BY <2>2, InsertTables
      <3>2. CASE r = s
        BY <3>1, <3>2
      <3>3. CASE r # s
        <4>1. m_sid2ss[SidOf[r]] = r
          BY <2>2, <3>3, ConstAssumption DEF register_sidtransfer, TablesOK
        <4>2. \A t \in Transfer \ {s} : pc'[t] = pc[t]
          BY <2>2 DEF ThreadsOK
        <4>3. HalfWay(r) => HalfWay(r)'
          BY <1>2, <2>2, <3>3, <4>2, HalfWayKept
        <4> QED
          BY <3>1, <4>1, <4>3 DEF Tracked, Mapped, EntryOf
      <3> QED
        BY <3>2, <3>3
    <2> QED
      BY <2>1, <2>2, HandleSidrequestCases
  <1> QED
    BY <1>4, <1>5, <1>6, <1>7, <1>8

\* The steps of the peers, and of the network.
\* What the adaptor of the peer may send.
LEMMA Messages ==
    ASSUME NEW s \in Transfer
    PROVE  /\ \A chunk \in 0..Chunks : Data(s, chunk) \in SidMessage
           /\ Header(s, 200) \in SidMessage /\ Header(s, 404) \in SidMessage
           /\ CancelMessage(s) \in SidMessage
  BY ConstAssumption DEF Data, Header, CancelMessage, SidMessage

LEMMA PeerInv ==
    ASSUME Inv, Peer \/ \E c \in Conn : Drop(c)
    PROVE  Inv'
  <1> USE ConstAssumption DEF Inv, Adaptor, AdaptorState
  <1>1. \A s \in Transfer, chunk \in 0..Chunks :
            /\ Data(s, chunk) \in SidMessage
            /\ Header(s, 200) \in SidMessage /\ Header(s, 404) \in SidMessage
            /\ CancelMessage(s) \in SidMessage
    BY Messages
  <1>2. ASSUME NEW c \in Conn, PeerRequest(c) PROVE Inv'
    <2> DEFINE s == Head(requests[c])
    <2>1. s \in Transfer /\ Tail(requests[c]) \in Seq(Transfer)
      BY <1>2 DEF PeerRequest, NetOK
    <2>2. \A m \in {Header(s, 404), CancelMessage(s)} : Sent(inbox, c, m) \in Seq(SidMessage)
      <3> HIDE DEF s
      <3>1. inbox[c] \in Seq(SidMessage)
        BY DEF NetOK
      <3>2. \A m \in SidMessage : Append(inbox[c], m) \in Seq(SidMessage)
        BY <3>1
      <3>3. \A m \in SidMessage : Sent(inbox, c, m) \in Seq(SidMessage)
        BY <3>1, <3>2 DEF Sent
      <3>4. Header(s, 404) \in SidMessage /\ CancelMessage(s) \in SidMessage
        BY <1>1, <2>1, ConstAssumption
      <3> QED
        BY <3>3, <3>4
    <2>3. requests' \in [Conn -> Seq(Transfer)] /\ inbox' \in [Conn -> Seq(SidMessage)]
      <3>1. /\ requests' = [requests EXCEPT ![c] = Tail(@)]
            /\ \/ \E m \in {Header(s, 404), CancelMessage(s)} :
                     inbox' = [inbox EXCEPT ![c] = Sent(inbox, c, m)]
               \/ inbox' = inbox
        BY <1>2 DEF PeerRequest
      <3>2. requests' \in [Conn -> Seq(Transfer)]
        BY <2>1, <3>1 DEF NetOK
      <3> HIDE DEF s
      <3> DEFINE Box == Seq(SidMessage)
      <3>3. inbox \in [Conn -> Box]
        BY DEF NetOK
      <3>4. inbox' = inbox \/ \E box \in Box : inbox' = [inbox EXCEPT ![c] = box]
        BY <2>2, <3>1
      <3> HIDE DEF Box
      <3>5. inbox' \in [Conn -> Box]
        BY <3>3, <3>4
      <3> QED
        BY <3>2, <3>5 DEF Box
    <2>4. adaptor' = adaptor \/ \E at \in {"open", "done"} : adaptor' = [adaptor EXCEPT ![s].state = at]
      BY <1>2 DEF PeerRequest
    <2>5. adaptor' \in [Transfer -> Adaptor]
      <3> DEFINE R == Adaptor
      <3> HIDE DEF s
      <3>1. adaptor \in [Transfer -> R]
        BY DEF NetOK
      <3>2. \A at \in {"open", "done"} : [adaptor[s] EXCEPT !.state = at] \in R
        BY <2>1, <3>1
      <3> HIDE DEF R
      <3>3. adaptor' \in [Transfer -> R]
        BY <2>1, <2>4, <3>1, <3>2
      <3> QED
        BY <3>3 DEF R
    <2>6. NetOK'
      BY <1>2, <2>3, <2>5 DEF PeerRequest, NetOK
    <2> QED
      BY <1>2, <2>6, SameTables, SameTracked, SameParts DEF PeerRequest
  <1>3. ASSUME NEW s \in Transfer, NEW chunk \in 0..Chunks, SendData(s, chunk),
               UNCHANGED <<link, requests, pc, mapVars, m_timer, headers, out, io, crashed>>
        PROVE  Inv'
    <2>1. send_headers(s) \in Seq(SidMessage) /\ <<Data(s, chunk)>> \in Seq(SidMessage)
      BY <1>1 DEF send_headers
    <2>2. inbox[ConnOf[s]] \in Seq(SidMessage)
      BY DEF NetOK
    <2>3. inbox[ConnOf[s]] \o send_headers(s) \in Seq(SidMessage)
      BY <2>1, <2>2, ConcatProperties
    <2>4. inbox[ConnOf[s]] \o send_headers(s) \o <<Data(s, chunk)>> \in Seq(SidMessage)
      BY <2>1, <2>3, ConcatProperties
    <2>5. inbox' \in [Conn -> Seq(SidMessage)]
      BY <1>3, <2>4 DEF SendData, NetOK
    <2>6. adaptor' \in [Transfer -> Adaptor]
      BY <1>3 DEF SendData, NetOK
    <2>7. NetOK'
      BY <1>3, <2>5, <2>6 DEF NetOK
    <2> QED
      BY <1>3, <2>7, SameTables, SameTracked, SameParts
  <1>4. ASSUME NEW s \in Transfer, write_content(s) PROVE Inv'
    <2>1. adaptor[s].chunk + 1 \in 0..Chunks
      BY <1>4 DEF write_content, NetOK
    <2> QED
      BY <1>3, <1>4, <2>1 DEF write_content
  <1>5. ASSUME NEW s \in Transfer, write_finish(s) PROVE Inv'
    BY <1>3, <1>5 DEF write_finish
  <1>6. ASSUME NEW s \in Transfer, write_cancel(s) PROVE Inv'
    <2>1. Sent(inbox, ConnOf[s], CancelMessage(s)) \in Seq(SidMessage)
      <3>1. ConnOf[s] \in Conn /\ CancelMessage(s) \in SidMessage
        BY <1>1
      <3> QED
        BY <3>1, SentType DEF NetOK
    <2>2. inbox' \in [Conn -> Seq(SidMessage)]
      BY <1>6, <2>1 DEF write_cancel, NetOK
    <2>3. adaptor' \in [Transfer -> Adaptor]
      <3>1. PICK at \in AdaptorState : adaptor' = [adaptor EXCEPT ![s].state = at]
        BY <1>6 DEF write_cancel, AdaptorState
      <3>2. adaptor \in [Transfer -> Adaptor]
        BY DEF NetOK
      <3> QED
        BY <3>1, <3>2 DEF Adaptor
    <2>4. NetOK'
      <3>1. UNCHANGED <<link, requests>>
        BY <1>6 DEF write_cancel
      <3> QED
        BY <2>2, <2>3, <3>1 DEF NetOK
    <2> QED
      BY <1>6, <2>4, SameTables, SameTracked, SameParts DEF write_cancel
  <1>7. ASSUME NEW c \in Conn, Drop(c) PROVE Inv'
    <2>1. NetOK'
      BY <1>7 DEF Drop, NetOK
    <2> QED
      BY <1>7, <2>1, SameTables, SameTracked, SameParts DEF Drop
  <1> QED
    BY <1>2, <1>4, <1>5, <1>6, <1>7 DEF Peer

LEMMA MessageReceivedInv ==
    ASSUME Inv, NEW c \in Conn, message_received(c)
    PROVE  Inv'
  <1> USE ConstAssumption DEF Inv
  <1> DEFINE m == Head(inbox[c])
             s == m_sid2ss[m.sid]
  <1>1. m \in SidMessage /\ Tail(inbox[c]) \in Seq(SidMessage)
    BY DEF message_received, NetOK
  <1>2. m.sid \in Sid /\ s \in Transfer \cup {None}
    <2>1. m.sid \in Sid
      BY <1>1 DEF SidMessage
    <2> QED
      BY <2>1 DEF TablesOK
  <1>3. NetOK'
    BY <1>1 DEF message_received, NetOK
  <1>4. TablesOK'
    BY SameTables DEF message_received
  <1>5. handle_siddata(m) \/ handle_sidheaders(m) \/ handle_sidfail(m) \/ Vanishes(m)
    BY DEF message_received
  <1>6. UNCHANGED pc
    BY DEF message_received
  <1>14. Tracked'
    BY Untouched DEF message_received, Idle
  <1>7. {"timeout", "fail", "status"} \subseteq Why /\ <<>> \in Seq(Task)
    BY DEF Why
  <1>8. s # None => <<Unregister(s)>> \in Seq(Task)
    BY <1>2 DEF Unregister, Task
  <1>9. m.type = "SIDDATA" /\ m.chunk # 0 => Content(m.chunk) \in Event
    BY <1>1 DEF SidMessage, Content, Event
  <1>10. Finish \in Event
    BY DEF Finish, Event
  <1> HIDE DEF m
  <1>11. CASE handle_siddata(m)
    <2>1. ThreadsOK'
      BY <1>6, <1>11, SameParts DEF handle_siddata
    <2>2. OutputOK'
      <3>1. CASE s = None
        BY <1>11, <3>1, SameParts DEF handle_siddata
      <3>2. CASE s # None /\ EndOfStream(m)
        <4>1. Write(s, Finish) /\ io' = <<Unregister(s)>>
          BY <1>11, <3>2 DEF handle_siddata
        <4> QED
          BY <1>2, <1>8, <1>10, <3>2, <4>1, WriteType DEF OutputOK
      <3>3. CASE s # None /\ ~EndOfStream(m)
        <4>1. Write(s, Content(m.chunk)) /\ UNCHANGED io
          BY <1>11, <3>3 DEF handle_siddata
        <4>2. Content(m.chunk) \in Event
          BY <1>9, <1>11, <3>3 DEF handle_siddata, EndOfStream
        <4> QED
          BY <1>2, <3>3, <4>1, <4>2, WriteType DEF OutputOK
      <3> QED
        BY <3>1, <3>2, <3>3
    <2> QED
      BY <1>3, <1>4, <1>14, <2>1, <2>2
  <1>12. CASE handle_sidheaders(m)
    <2>1. ThreadsOK'
      <3>1. m_timer' = m_timer \/ m_timer' = [m_timer EXCEPT ![s] = IF @ = "armed" THEN "off" ELSE @]
        BY <1>12 DEF handle_sidheaders
      <3>2. m_timer' \in Timers
        BY <3>1 DEF ThreadsOK, Timers
      <3>3. headers' = headers \/ (s # None /\ headers' = headers \cup {s})
        BY <1>12 DEF handle_sidheaders
      <3>4. headers' \subseteq Transfer
        BY <1>2, <3>3 DEF ThreadsOK
      <3>5. crashed' \in BOOLEAN
        <4>1. crashed' = crashed \/ crashed' = TRUE
          BY <1>12 DEF handle_sidheaders
        <4> QED
          BY <4>1 DEF ThreadsOK
      <3> QED
        BY <1>6, <3>2, <3>4, <3>5 DEF ThreadsOK
    <2>2. OutputOK'
      <3>1. UNCHANGED <<out, io>> \/ (s # None /\ cancel_handler(s, "status", <<>>))
        BY <1>12 DEF handle_sidheaders
      <3> QED
        BY <1>2, <1>7, <3>1, CancelType, SameParts
    <2> QED
      BY <1>3, <1>4, <1>14, <2>1, <2>2
  <1>13. CASE handle_sidfail(m)
    <2>1. ThreadsOK'
      BY <1>6, <1>13, SameParts DEF handle_sidfail
    <2>2. OutputOK'
      <3>1. UNCHANGED <<out, io>> \/ (s # None /\ cancel_handler(s, "fail", <<>>))
        BY <1>13 DEF handle_sidfail
      <3> QED
        BY <1>2, <1>7, <3>1, CancelType, SameParts
    <2> QED
      BY <1>3, <1>4, <1>14, <2>1, <2>2
  <1>15. CASE Vanishes(m)
    <2>1. ThreadsOK'
      BY <1>6, <1>15 DEF Vanishes, ThreadsOK
    <2>2. OutputOK'
      BY <1>15, SameParts DEF Vanishes
    <2> QED
      BY <1>3, <1>4, <1>14, <2>1, <2>2
  <1> QED
    BY <1>5, <1>11, <1>12, <1>13, <1>15

\* The two halves of unregister_sidtransfer on the io thread.
LEMMA UnregisterInv ==
    ASSUME Inv, unregister_sidtransfer \/ erase_sid
    PROVE  Inv'
  <1> USE DEF Inv
  <1> DEFINE s == Head(io).arg
  <1>1. Head(io) \in Task /\ Tail(io) \in Seq(Task) /\ io # <<>> /\ io \in Seq(Task)
    BY DEF unregister_sidtransfer, erase_sid, OutputOK
  <1>2. s \in Transfer /\ SidOf[s] \in Sid
    BY <1>1, ConstAssumption DEF unregister_sidtransfer, erase_sid, Task
  <1>3. crashed' \in BOOLEAN
    <2>1. crashed' = crashed \/ crashed' = TRUE
      BY DEF unregister_sidtransfer, erase_sid
    <2> QED
      BY <2>1 DEF ThreadsOK
  <1>4. UNCHANGED <<netVars, pc, headers, out>>
    BY DEF unregister_sidtransfer, erase_sid
  <1> HIDE DEF s
  <1>5. CASE UNCHANGED <<mapVars, m_timer, io>>
    <2>1. ThreadsOK'
      BY <1>3, <1>4, <1>5 DEF ThreadsOK
    <2> QED
      BY <1>4, <1>5, <2>1, SameTables, SameTracked, SameParts
  <1>6. CASE /\ unregister_loop(s) /\ io' = <<Erase(s)>> \o Tail(io)
             /\ UNCHANGED <<m_sid2ss, m_timer>>
             /\ Head(io).call # "erase"
    <2>1. TablesOK'
      BY <1>2, <1>6, LoopTables DEF TablesOK
    <2>2. ThreadsOK'
      BY <1>3, <1>4, <1>6 DEF ThreadsOK
    <2>3. io' \in Seq(Task) /\ io' # <<>> /\ Head(io') = Erase(s)
      <3>1. Erase(s) \in Task
        BY <1>2 DEF Erase, Task
      <3> QED
        BY <1>1, <1>6, <3>1
    <2>4. Tracked'
      <3> SUFFICES ASSUME NEW r \in Transfer, m_sid2ss[SidOf[r]] = r
                   PROVE  EntryOf(r) \in Range(m_conn2sid') \/ HalfWay(r)'
        BY <1>6 DEF Tracked, Mapped, EntryOf
      <3>1. CASE SidOf[r] = SidOf[s]
        BY <1>2, <2>3, <3>1 DEF HalfWay, Erase
      <3>2. CASE SidOf[r] # SidOf[s]
        <4>1. EntryOf(r) \in Range(m_conn2sid) => EntryOf(r) \in Range(m_conn2sid')
          BY <1>2, <1>6, <3>2, LoopTables DEF EntryOf
        <4>2. HalfWay(r) => HalfWay(r)'
          BY <1>4, <1>6 DEF HalfWay, Erase
        <4> QED
          BY <4>1, <4>2 DEF Tracked, Mapped, EntryOf
      <3> QED
        BY <3>1, <3>2
    <2> QED
      BY <1>4, <2>1, <2>2, <2>3, <2>4, SameParts DEF OutputOK
  <1>7. CASE /\ erase(s) /\ io' = Tail(io) /\ Head(io).call = "erase"
             /\ m_timer' = Released(m_timer, Mapped(m_sid2ss') \cup Starting)
             /\ UNCHANGED m_conn2sid
    <2>1. TablesOK'
      BY <1>2, <1>7 DEF erase, TablesOK
    <2>2. ThreadsOK'
      BY <1>3, <1>4, <1>7, ReleasedType DEF ThreadsOK
    <2>3. io' \in Seq(Task)
      BY <1>1, <1>7
    <2>4. Tracked'
      <3> SUFFICES ASSUME NEW r \in Transfer, m_sid2ss'[SidOf[r]] = r
                   PROVE  EntryOf(r) \in Range(m_conn2sid) \/ HalfWay(r)'
        BY <1>7 DEF Tracked, Mapped, EntryOf
      <3>1. SidOf[r] # SidOf[s] /\ m_sid2ss[SidOf[r]] = r
        BY <1>2, <1>7, ConstAssumption DEF erase, TablesOK
      <3>2. ~\E t \in Transfer : SidOf[t] = SidOf[r] /\ Head(io) = Erase(t)
        BY <3>1 DEF Erase, s
      <3>3. HalfWay(r) => HalfWay(r)'
        BY <1>4, <3>2 DEF HalfWay
      <3> QED
        BY <3>1, <3>3 DEF Tracked, Mapped, EntryOf
    <2> QED
      BY <1>4, <2>1, <2>2, <2>3, <2>4, SameParts DEF OutputOK
  <1> QED
    <2>1. CASE unregister_sidtransfer
      BY <1>5, <1>6, <2>1 DEF unregister_sidtransfer, mapVars, s
    <2>2. CASE erase_sid
      BY <1>5, <1>7, <2>2 DEF erase_sid, mapVars, s
    <2> QED
      BY <2>1, <2>2

\* The other steps of the io thread, and the clock.
LEMMA CallbackInv ==
    ASSUME Inv,
           \/ cancel_next
           \/ \E c \in Conn : connection_terminated(c)
           \/ \E s \in Transfer : timeout_cb(s) \/ expire(s)
    PROVE  Inv'
  <1> USE DEF Inv
  <1>2. CASE cancel_next
    <2> DEFINE s == m_sid2ss[Head(io).arg]
    <2>1. Head(io) \in Task /\ Head(io).call = "cancel_handler" /\ Tail(io) \in Seq(Task)
      BY <1>2 DEF cancel_next, OutputOK
    <2>2. s \in Transfer \cup {None}
      <3>1. Head(io).arg \in Sid
        BY <2>1 DEF Task
      <3> QED
        BY <3>1 DEF TablesOK
    <2>3. UNCHANGED <<out, io>> \/ (s # None /\ cancel_handler(s, "terminated", Tail(io)))
      BY <1>2 DEF cancel_next
    <2>4. OutputOK'
      <3>1. "terminated" \in Why
        BY DEF Why
      <3> HIDE DEF s
      <3> QED
        BY <2>1, <2>2, <2>3, <3>1, CancelType, SameParts
    <2>5. ThreadsOK'
      <3>1. crashed' = crashed \/ crashed' = TRUE
        BY <1>2 DEF cancel_next
      <3> QED
        BY <1>2, <3>1 DEF cancel_next, ThreadsOK
    <2>6. Tracked'
      BY <1>2, <2>1, Untouched DEF cancel_next
    <2> QED
      BY <1>2, <2>4, <2>5, <2>6, SameTables, SameParts DEF cancel_next
  <1>3. ASSUME NEW c \in Conn, connection_terminated(c) PROVE Inv'
    <2>1. NetOK'
      BY <1>3 DEF connection_terminated, NetOK
    <2>2. io' \in Seq(Task)
      <3>1. CASE find(c) = 0
        BY <1>3, <3>1 DEF connection_terminated
      <3>2. CASE find(c) # 0
        <4>1. find(c) \in 1..Len(m_conn2sid) /\ m_conn2sid \in Seq(Entry)
          BY <3>2, FindRange DEF TablesOK
        <4> DEFINE n == Len(m_conn2sid) + 1 - find(c)
        <4>2. n \in Nat
          BY <4>1
        <4>3. ASSUME NEW i \in 1..n
              PROVE  CancelSid(m_conn2sid[find(c) + i - 1].sid) \in Task
          <5>1. find(c) + i - 1 \in 1..Len(m_conn2sid)
            BY <4>1
          <5>2. m_conn2sid[find(c) + i - 1] \in Entry
            BY <4>1, <5>1
          <5> QED
            BY <5>2 DEF Entry, CancelSid, Task
        <4>4. Remaining(c, find(c)) \in Seq(Task)
          BY <4>2, <4>3 DEF Remaining
        <4> QED
          BY <1>3, <3>2, <4>4 DEF connection_terminated
      <3> QED
        BY <3>1, <3>2
    <2>3. OutputOK'
      BY <1>3, <2>2 DEF connection_terminated, OutputOK
    <2>4. Tracked'
      BY <1>3, Untouched DEF connection_terminated, Idle
    <2> QED
      BY <1>3, <2>1, <2>3, <2>4, SameTables, SameParts DEF connection_terminated
  <1>4. ASSUME NEW s \in Transfer, timeout_cb(s) PROVE Inv'
    <2>1. OutputOK'
      <3>1. "timeout" \in Why /\ <<>> \in Seq(Task)
        BY DEF Why
      <3> QED
        BY <1>4, <3>1, CancelType, SameParts DEF timeout_cb
    <2>2. ThreadsOK'
      <3>1. crashed' = crashed \/ crashed' = TRUE
        BY <1>4 DEF timeout_cb
      <3> QED
        BY <1>4, <3>1 DEF timeout_cb, ThreadsOK, Timers
    <2>3. Tracked'
      BY <1>4, Untouched DEF timeout_cb, Idle
    <2> QED
      BY <1>4, <2>1, <2>2, <2>3, SameTables, SameParts DEF timeout_cb
  <1>5. ASSUME NEW s \in Transfer, expire(s) PROVE Inv'
    <2>1. ThreadsOK'
      BY <1>5 DEF expire, ThreadsOK, Timers
    <2> QED
      BY <1>5, <2>1, SameTables, SameTracked, SameParts DEF expire
  <1> QED
    BY <1>2, <1>3, <1>4, <1>5

-----------------------------------------------------------------------------
(* The theorems.                                                           *)

LEMMA NextInv == Inv /\ [Next]_vars => Inv'
  <1> SUFFICES ASSUME Inv, [Next]_vars PROVE Inv'
    OBVIOUS
  <1>1. CASE UNCHANGED vars
    BY <1>1, SameTables, SameTracked, SameParts DEF vars, netVars, mapVars, Inv
  <1>2. CASE IoThread
    BY <1>2, UnregisterInv, CallbackInv, MessageReceivedInv DEF IoThread
  <1>3. CASE Peer \/ \E c \in Conn : Drop(c)
    BY <1>3, PeerInv
  <1>4. ASSUME NEW s \in Transfer,
               factory(s) \/ handle_sidrequest(s) \/ WebThread(s) \/ expire(s)
        PROVE  Inv'
    BY <1>4, WebInv, HandleSidrequestInv, CallbackInv
  <1> QED
    BY <1>1, <1>2, <1>3, <1>4 DEF Next

\* The types of what the steps read, and Tracked, whoever shares what.
THEOREM Invariance == Spec => []Inv
  BY InitInv, NextInv, PTL DEF Spec

\* Every variable of Streaming keeps its type, whatever the transfers.
THEOREM TypeCorrect == Spec => []TypeOK
  <1>1. Inv => TypeOK
    BY DEF Inv, NetOK, Adaptor, AdaptorState, TablesOK, Entry, ThreadsOK, Place, Timers,
           OutputOK, TypeOK
  <1> QED
    BY <1>1, Invariance, PTL

\* However transfers share connections and sids, and in whatever order their
\* two table entries are made, overwritten and erased by the threads: a
\* transfer with an entry in m_sid2ss has one in m_conn2sid under its
\* connection, except while a thread is between two such steps.
THEOREM TransfersTracked == Spec => []Tracked
  <1>1. Inv => Tracked
    BY DEF Inv
  <1> QED
    BY <1>1, Invariance, PTL

-----------------------------------------------------------------------------
(* What a transfer passes on.  Of two transfers that share a sid, each may *)
(* be given the data of the other, or lose its place in m_sid2ss: the rest *)
(* is about transfers that each have a sid of their own.                   *)

StreamsApart == \A s, t \in Transfer : SidOf[s] = SidOf[t] => s = t

\* Where start_reply is before it has tested the connection, before it has
\* registered the transfer, and before it has asked the peer.
Early == {"none", "refused", "made", "checked"}

Before == Early \cup {"cancelling", "erasing"}

Silent == Before \cup {"mapped", "tracked"}

\* The peer has not heard of s.
Unheard(s) ==
    /\ s \notin headers
    /\ m_timer[s] = "null"
    /\ adaptor[s] = [state |-> "none", m_sentfirst |-> FALSE, chunk |-> 0]
    /\ \A i \in DOMAIN requests[ConnOf[s]] : requests[ConnOf[s]][i] # s
    /\ \A i \in DOMAIN inbox[ConnOf[s]] : inbox[ConnOf[s]][i].sid # SidOf[s]

\* A transfer is registered and asked for once, in start_sidrequest or
\* handle_sidrequest.
Stage(s) ==
    /\ pc[s] \in Early => out[s] = <<>>
    /\ pc[s] \in Before => s \notin Mapped(m_sid2ss)
    /\ pc[s] \in Silent => Unheard(s)

\* The timer is started by the last step of start_reply.
TimerOK(s) == m_timer[s] \in {"armed", "queued"} => pc[s] = "started"

\* The io thread is between the end of s and the erasure of its entry.
Gone(tasks, s) == tasks # <<>> /\ Head(tasks) \in {Unregister(s), Erase(s)}

\* The io thread ends a transfer and unregisters it before anything else.
Leaving(s) == s \in Mapped(m_sid2ss) /\ Ended(s) => Gone(io, s)

\* The adaptor has a chunk once it has sent one, and is done after the end.
Sending(s) ==
    /\ adaptor[s].state = "none" => ~adaptor[s].m_sentfirst
    /\ ~adaptor[s].m_sentfirst => adaptor[s].chunk = 0
    /\ adaptor[s].m_sentfirst /\ adaptor[s].chunk = 0 => adaptor[s].state \in {"done", "late"}

\* A header timer can repeat the end, and is spent then.
Repeated(s) ==
    /\ out[s][Len(out[s])] = Cancel("timeout")
    /\ m_timer[s] = "off" /\ pc[s] = "started"

\* What is passed on: the chunks in order, after the headers, and one end,
\* which a header timer can repeat once.
OutOK(s) ==
    \A i \in DOMAIN out[s] :
        /\ out[s][i].op = "content" => out[s][i].chunk = i /\ s \in headers
        /\ out[s][i].op = "finish" => i = Chunks + 1
        /\ out[s][i].op # "content" =>
              i = Len(out[s]) \/ (i = Len(out[s]) - 1 /\ Repeated(s))

\* The stream of s: the headers at 0, the chunks, the end at Chunks + 1.
InStream(s, m) ==
    /\ m.sid = SidOf[s]
    /\ m.type = "SIDDATA" \/ (m.type = "SIDHEADERS" /\ m.status = 200)

At(m) == IF m.type = "SIDHEADERS" THEN 0
         ELSE IF m.chunk = 0 THEN Chunks + 1 ELSE m.chunk

\* box holds, in order, the stream of s from next to last.
Flow(s, box, next, last) ==
    /\ next <= last + 1
    /\ \A i \in DOMAIN box : InStream(s, box[i]) =>
          next <= At(box[i]) /\ At(box[i]) <= last
    /\ \A i, j \in DOMAIN box :
          (InStream(s, box[i]) /\ InStream(s, box[j]) /\ i < j) => At(box[i]) < At(box[j])
    /\ \A v \in next..last : \E i \in DOMAIN box : InStream(s, box[i]) /\ At(box[i]) = v

\* The last position that was sent, and the next to be passed on.
LastSent(s) == IF ~adaptor[s].m_sentfirst THEN -1
               ELSE IF adaptor[s].chunk = 0 THEN Chunks + 1 ELSE adaptor[s].chunk

NextTold(s) == IF s \in headers THEN Len(out[s]) + 1 ELSE 0

\* s can still be told something.
Live(s) == ~crashed /\ s \in Mapped(m_sid2ss) /\ ~Ended(s) /\ link[ConnOf[s]] = "ready"

\* What was sent and not passed on yet is on its way.
FlowOK(s) == Live(s) => Flow(s, inbox[ConnOf[s]], NextTold(s), LastSent(s))

Sound(s) == Stage(s) /\ TimerOK(s) /\ Leaving(s) /\ Sending(s) /\ OutOK(s) /\ FlowOK(s)

\* What waits on a connection belongs to transfers over it, and a request is
\* the first the peer hears of a transfer.
Waiting(c) ==
    /\ link[c] # "ready" => inbox[c] = <<>>
    /\ \A i \in DOMAIN inbox[c] : \E s \in Transfer :
          ConnOf[s] = c /\ SidOf[s] = inbox[c][i].sid
    /\ \A i \in DOMAIN requests[c] :
          /\ ConnOf[requests[c][i]] = c
          /\ adaptor[requests[c][i]].state = "none"
    /\ \A i, j \in DOMAIN requests[c] : requests[c][i] = requests[c][j] => i = j

Keyed == \A x \in Sid : m_sid2ss[x] # None => SidOf[m_sid2ss[x]] = x

StreamInv ==
    /\ Keyed
    /\ \A s \in Transfer : Sound(s)
    /\ \A c \in Conn : Waiting(c)

-----------------------------------------------------------------------------
(* The stream on its way.                                                  *)

\* Reading the first message of the stream of s.
LEMMA FlowHead ==
    ASSUME NEW s \in Transfer, NEW box \in Seq(SidMessage), NEW next \in Int, NEW last \in Int,
           Flow(s, box, next, last), box # <<>>, InStream(s, Head(box))
    PROVE  At(Head(box)) = next /\ Flow(s, Tail(box), next + 1, last)
  <1> USE ConstAssumption
  <1>1. \A m \in SidMessage : InStream(s, m) => At(m) \in Int
    BY DEF SidMessage, InStream, At
  <1>2. /\ Head(box) = box[1] /\ 1 \in DOMAIN box /\ Tail(box) \in Seq(SidMessage)
        /\ \A i \in DOMAIN box : box[i] \in SidMessage /\ i \in Int /\ i >= 1
        /\ \A i \in DOMAIN Tail(box) : i + 1 \in DOMAIN box /\ Tail(box)[i] = box[i + 1]
        /\ \A i \in DOMAIN box : i # 1 => i - 1 \in DOMAIN Tail(box)
        /\ \A i \in DOMAIN Tail(box) : i \in Int /\ i >= 1
    OBVIOUS
  <1>3. next <= At(box[1]) /\ At(box[1]) <= last /\ At(box[1]) \in Int
    BY <1>1, <1>2 DEF Flow
  <1>4. At(box[1]) = next
    <2> SUFFICES ASSUME next < At(box[1]) PROVE FALSE
      BY <1>3
    <2>1. next \in next..last
      BY <1>3
    <2>2. PICK i \in DOMAIN box : InStream(s, box[i]) /\ At(box[i]) = next
      BY <2>1 DEF Flow
    <2>3. i # 1
      BY <2>2
    <2>4. 1 < i
      BY <1>2, <2>3
    <2>5. At(box[1]) < At(box[i])
      BY <1>2, <2>2, <2>4 DEF Flow
    <2> QED
      BY <1>3, <2>2, <2>5
  <1> DEFINE t == Tail(box)
  <1>5. \A i \in DOMAIN t : InStream(s, t[i]) => next + 1 <= At(t[i]) /\ At(t[i]) <= last
    <2> SUFFICES ASSUME NEW i \in DOMAIN t, InStream(s, t[i])
                 PROVE  next + 1 <= At(t[i]) /\ At(t[i]) <= last
      OBVIOUS
    <2>1. t[i] = box[i + 1] /\ i + 1 \in DOMAIN box /\ 1 < i + 1
      BY <1>2
    <2>2. At(box[1]) < At(box[i + 1]) /\ At(box[i + 1]) <= last /\ At(box[i + 1]) \in Int
      BY <1>1, <1>2, <2>1 DEF Flow
    <2> QED
      BY <1>4, <2>1, <2>2
  <1>6. ASSUME NEW i \in DOMAIN t, NEW j \in DOMAIN t,
               InStream(s, t[i]), InStream(s, t[j]), i < j
        PROVE  At(t[i]) < At(t[j])
    <2>1. /\ t[i] = box[i + 1] /\ t[j] = box[j + 1] /\ i + 1 < j + 1
          /\ i + 1 \in DOMAIN box /\ j + 1 \in DOMAIN box
      BY <1>2, <1>6
    <2> QED
      BY <1>6, <2>1 DEF Flow
  <1>7. ASSUME NEW v \in (next + 1)..last
        PROVE  \E i \in DOMAIN t : InStream(s, t[i]) /\ At(t[i]) = v
    <2>1. v \in next..last /\ v # next
      OBVIOUS
    <2>2. PICK i \in DOMAIN box : InStream(s, box[i]) /\ At(box[i]) = v
      BY <2>1 DEF Flow
    <2>3. i # 1
      BY <1>4, <2>1, <2>2
    <2>4. i - 1 \in DOMAIN t /\ t[i - 1] = box[i]
      BY <1>2, <2>3
    <2> QED
      BY <2>2, <2>4
  <1>8. next + 1 <= last + 1
    BY <1>3
  <1> HIDE DEF t
  <1>9. Flow(s, t, next + 1, last)
    BY <1>5, <1>6, <1>7, <1>8 DEF Flow
  <1> QED
    BY <1>2, <1>4, <1>9 DEF t

\* box2 holds what box holds of s.
Same(s, box, box2) ==
    /\ \A next, last \in Int : Flow(s, box, next, last) => Flow(s, box2, next, last)
    /\ (\A i \in DOMAIN box : box[i].sid # SidOf[s])
       => \A i \in DOMAIN box2 : box2[i].sid # SidOf[s]

\* Reading a message that is not of the stream of s.
LEMMA SameTail ==
    ASSUME NEW s \in Transfer, NEW box \in Seq(SidMessage),
           box # <<>>, ~InStream(s, Head(box))
    PROVE  Same(s, box, Tail(box))
  <1> DEFINE t == Tail(box)
  <1>1. /\ Head(box) = box[1] /\ 1 \in DOMAIN box
        /\ \A i \in DOMAIN box : i \in Int
        /\ \A i \in DOMAIN t : i + 1 \in DOMAIN box /\ t[i] = box[i + 1] /\ i \in Int
        /\ \A i \in DOMAIN box : i # 1 => i - 1 \in DOMAIN t /\ t[i - 1] = box[i]
    OBVIOUS
  <1> HIDE DEF t
  <1>2. ASSUME NEW next \in Int, NEW last \in Int, Flow(s, box, next, last)
        PROVE  Flow(s, t, next, last)
    <2>1. \A i \in DOMAIN t : InStream(s, t[i]) => next <= At(t[i]) /\ At(t[i]) <= last
      BY <1>1, <1>2 DEF Flow
    <2>2. ASSUME NEW i \in DOMAIN t, NEW j \in DOMAIN t,
                 InStream(s, t[i]), InStream(s, t[j]), i < j
          PROVE  At(t[i]) < At(t[j])
      <3>1. /\ t[i] = box[i + 1] /\ t[j] = box[j + 1] /\ i + 1 < j + 1
            /\ i + 1 \in DOMAIN box /\ j + 1 \in DOMAIN box
        BY <1>1, <2>2
      <3> QED
        BY <1>2, <2>2, <3>1 DEF Flow
    <2>3. ASSUME NEW v \in next..last
          PROVE  \E i \in DOMAIN t : InStream(s, t[i]) /\ At(t[i]) = v
      <3>1. PICK i \in DOMAIN box : InStream(s, box[i]) /\ At(box[i]) = v
        BY <1>2 DEF Flow
      <3>2. i # 1
        BY <1>1, <3>1
      <3> QED
        BY <1>1, <3>1, <3>2
    <2>4. next <= last + 1
      BY <1>2 DEF Flow
    <2> QED
      BY <2>1, <2>2, <2>3, <2>4 DEF Flow
  <1>3. (\A i \in DOMAIN box : box[i].sid # SidOf[s]) => \A i \in DOMAIN t : t[i].sid # SidOf[s]
    BY <1>1
  <1> QED
    BY <1>2, <1>3 DEF Same, t

\* What a message at the end adds.
LEMMA Longer ==
    ASSUME NEW S, NEW box \in Seq(S), NEW m \in S
    PROVE  LET b == Append(box, m) IN
           /\ b \in Seq(S)
           /\ Len(box) + 1 \in DOMAIN b /\ b[Len(box) + 1] = m
           /\ \A i \in DOMAIN box : i \in DOMAIN b /\ b[i] = box[i] /\ i < Len(box) + 1
           /\ \A i \in DOMAIN b : (i \in DOMAIN box /\ b[i] = box[i]) \/ i = Len(box) + 1
           /\ \A i \in DOMAIN b : i \in Int
  OBVIOUS

\* Writing a message of another transfer.
LEMMA SameAppend ==
    ASSUME NEW s \in Transfer, NEW box \in Seq(SidMessage), NEW m \in SidMessage,
           m.sid # SidOf[s]
    PROVE  Same(s, box, Append(box, m))
  <1> DEFINE b == Append(box, m)
             n == Len(box) + 1
  <1>1. /\ n \in DOMAIN b /\ b[n] = m
        /\ \A i \in DOMAIN box : i \in DOMAIN b /\ b[i] = box[i] /\ i < n
        /\ \A i \in DOMAIN b : (i \in DOMAIN box /\ b[i] = box[i]) \/ i = n
        /\ \A i \in DOMAIN b : i \in Int
    BY Longer
  <1> HIDE DEF b, n
  <1>2. ~InStream(s, m)
    BY DEF InStream
  <1>3. ASSUME NEW next \in Int, NEW last \in Int, Flow(s, box, next, last)
        PROVE  Flow(s, b, next, last)
    <2>1. \A i \in DOMAIN b : InStream(s, b[i]) => i \in DOMAIN box /\ b[i] = box[i]
      BY <1>1, <1>2
    <2>2. \A i \in DOMAIN b : InStream(s, b[i]) => next <= At(b[i]) /\ At(b[i]) <= last
      BY <1>3, <2>1 DEF Flow
    <2>3. \A i, j \in DOMAIN b :
              (InStream(s, b[i]) /\ InStream(s, b[j]) /\ i < j) => At(b[i]) < At(b[j])
      BY <1>3, <2>1 DEF Flow
    <2>4. \A v \in next..last : \E i \in DOMAIN b : InStream(s, b[i]) /\ At(b[i]) = v
      BY <1>1, <1>3 DEF Flow
    <2>5. next <= last + 1
      BY <1>3 DEF Flow
    <2> QED
      BY <2>2, <2>3, <2>4, <2>5 DEF Flow
  <1>4. (\A i \in DOMAIN box : box[i].sid # SidOf[s]) => \A i \in DOMAIN b : b[i].sid # SidOf[s]
    BY <1>1
  <1> QED
    BY <1>3, <1>4 DEF Same, b

\* Writing a message of s that is not of its stream: a status, or SIDFAIL.
LEMMA FlowBeside ==
    ASSUME NEW s \in Transfer, NEW box \in Seq(SidMessage), NEW m \in SidMessage,
           ~InStream(s, m), NEW next \in Int, NEW last \in Int, Flow(s, box, next, last)
    PROVE  Flow(s, Append(box, m), next, last)
  <1> DEFINE b == Append(box, m)
             n == Len(box) + 1
  <1>1. /\ n \in DOMAIN b /\ b[n] = m
        /\ \A i \in DOMAIN box : i \in DOMAIN b /\ b[i] = box[i] /\ i < n
        /\ \A i \in DOMAIN b : (i \in DOMAIN box /\ b[i] = box[i]) \/ i = n
        /\ \A i \in DOMAIN b : i \in Int
    BY Longer
  <1> HIDE DEF b, n
  <1>2. \A i \in DOMAIN b : InStream(s, b[i]) => i \in DOMAIN box /\ b[i] = box[i]
    BY <1>1
  <1>3. \A i \in DOMAIN b : InStream(s, b[i]) => next <= At(b[i]) /\ At(b[i]) <= last
    BY <1>2 DEF Flow
  <1>4. \A i, j \in DOMAIN b :
            (InStream(s, b[i]) /\ InStream(s, b[j]) /\ i < j) => At(b[i]) < At(b[j])
    BY <1>2 DEF Flow
  <1>5. \A v \in next..last : \E i \in DOMAIN b : InStream(s, b[i]) /\ At(b[i]) = v
    BY <1>1 DEF Flow
  <1> QED
    BY <1>3, <1>4, <1>5 DEF Flow, b

\* Writing the next message of the stream.
LEMMA FlowAppend ==
    ASSUME NEW s \in Transfer, NEW box \in Seq(SidMessage), NEW m \in SidMessage,
           InStream(s, m), NEW next \in Int, NEW last \in Int, Flow(s, box, next, last),
           At(m) = last + 1
    PROVE  Flow(s, Append(box, m), next, last + 1)
  <1> DEFINE b == Append(box, m)
             n == Len(box) + 1
  <1>0. \A k \in SidMessage : InStream(s, k) => At(k) \in Int
    BY ConstAssumption DEF SidMessage, InStream, At
  <1>1. /\ n \in DOMAIN b /\ b[n] = m
        /\ \A i \in DOMAIN box : /\ i \in DOMAIN b /\ b[i] = box[i] /\ i < n
                                /\ box[i] \in SidMessage
        /\ \A i \in DOMAIN b : (i \in DOMAIN box /\ b[i] = box[i]) \/ i = n
        /\ \A i \in DOMAIN b : i \in Int
    BY Longer
  <1> HIDE DEF b, n
  <1>2. next <= last + 1
    BY DEF Flow
  <1>3. ASSUME NEW i \in DOMAIN b, InStream(s, b[i])
        PROVE  next <= At(b[i]) /\ At(b[i]) <= last + 1
    <2>1. CASE i = n
      BY <1>1, <1>2, <2>1
    <2>2. CASE i \in DOMAIN box /\ b[i] = box[i]
      <3>1. next <= At(box[i]) /\ At(box[i]) <= last /\ At(box[i]) \in Int
        BY <1>0, <1>1, <1>3, <2>2 DEF Flow
      <3> QED
        BY <2>2, <3>1
    <2> QED
      BY <1>1, <2>1, <2>2
  <1>4. ASSUME NEW i \in DOMAIN b, NEW j \in DOMAIN b,
               InStream(s, b[i]), InStream(s, b[j]), i < j
        PROVE  At(b[i]) < At(b[j])
    <2>1. i # n
      BY <1>1, <1>4
    <2>2. i \in DOMAIN box /\ b[i] = box[i]
      BY <1>1, <2>1
    <2>3. CASE j = n
      <3>1. At(box[i]) <= last /\ At(box[i]) \in Int
        BY <1>0, <1>1, <1>4, <2>2 DEF Flow
      <3> QED
        BY <1>1, <2>2, <2>3, <3>1
    <2>4. CASE j \in DOMAIN box /\ b[j] = box[j]
      BY <1>4, <2>2, <2>4 DEF Flow
    <2> QED
      BY <1>1, <2>3, <2>4
  <1>5. ASSUME NEW v \in next..(last + 1)
        PROVE  \E i \in DOMAIN b : InStream(s, b[i]) /\ At(b[i]) = v
    <2>1. CASE v = last + 1
      BY <1>1, <2>1
    <2>2. CASE v # last + 1
      <3>1. v \in next..last
        BY <2>2
      <3>2. PICK i \in DOMAIN box : InStream(s, box[i]) /\ At(box[i]) = v
        BY <3>1 DEF Flow
      <3> QED
        BY <1>1, <3>2
    <2> QED
      BY <2>1, <2>2
  <1>6. next <= last + 1 + 1
    BY <1>2
  <1> QED
    BY <1>3, <1>4, <1>5, <1>6 DEF Flow, b

\* Nothing of the stream was sent.
LEMMA FlowNone ==
    ASSUME NEW s \in Transfer, NEW box, \A i \in DOMAIN box : box[i].sid # SidOf[s]
    PROVE  Flow(s, box, 0, -1)
  <1>1. \A i \in DOMAIN box : ~InStream(s, box[i])
    BY DEF InStream
  <1>2. ~\E v : v \in 0..(-1)
    OBVIOUS
  <1> QED
    BY <1>1, <1>2 DEF Flow

-----------------------------------------------------------------------------
(* What a step may do to a transfer that keeps it sound.                   *)

\* The network part: of s nothing new is asked or sent.
Still(s) ==
    LET c == ConnOf[s] IN
    /\ adaptor'[s] = adaptor[s]
    /\ pc'[s] \in Silent =>
          /\ (\A i \in DOMAIN requests[c] : requests[c][i] # s)
             => \A i \in DOMAIN requests'[c] : requests'[c][i] # s
          /\ (\A i \in DOMAIN inbox[c] : inbox[c][i].sid # SidOf[s])
             => \A i \in DOMAIN inbox'[c] : inbox'[c][i].sid # SidOf[s]

\* What is on its way to s stays so, or is not waited for any more.
Carried(s) ==
    LET c == ConnOf[s] IN
    \/ crashed' \/ link'[c] # "ready" \/ m_sid2ss'[SidOf[s]] # s
    \/ /\ ~crashed /\ link[c] = "ready"
       /\ \A next, last \in Int : Flow(s, inbox[c], next, last) => Flow(s, inbox'[c], next, last)

TimerKept(s) ==
    \/ m_timer'[s] = m_timer[s]
    \/ m_timer[s] = "armed" /\ m_timer'[s] \in {"off", "queued"}
    \/ m_timer[s] = "null" /\ m_timer'[s] = "off" /\ pc'[s] \notin Silent

\* The part of this node: s does not go back in start_reply, is told
\* nothing, and is not registered.
Calm(s) ==
    /\ pc'[s] \in Early => pc[s] \in Early
    /\ pc'[s] \in Before => pc[s] \in Before
    /\ pc'[s] \in Silent => pc[s] \in Silent
    /\ pc[s] = "started" => pc'[s] = "started"
    /\ out'[s] = out[s]
    /\ m_sid2ss'[SidOf[s]] = s => m_sid2ss[SidOf[s]] = s
    /\ s \in headers' <=> s \in headers
    /\ TimerKept(s)
    /\ m_sid2ss'[SidOf[s]] = s /\ Ended(s) => Gone(io', s)

LEMMA Types ==
    ASSUME Inv, NEW s \in Transfer
    PROVE  /\ ConnOf[s] \in Conn /\ SidOf[s] \in Sid
           /\ out[s] \in Seq(Event) /\ Len(out[s]) \in Nat
           /\ DOMAIN out[s] = 1..Len(out[s])
           /\ inbox[ConnOf[s]] \in Seq(SidMessage)
           /\ requests[ConnOf[s]] \in Seq(Transfer)
           /\ crashed \in BOOLEAN
           /\ adaptor[s] \in Adaptor
           /\ LastSent(s) \in Int /\ NextTold(s) \in Int
  <1> USE ConstAssumption DEF Inv
  <1>1. /\ ConnOf[s] \in Conn /\ SidOf[s] \in Sid
        /\ crashed \in BOOLEAN
        /\ inbox[ConnOf[s]] \in Seq(SidMessage)
        /\ requests[ConnOf[s]] \in Seq(Transfer)
        /\ adaptor[s] \in Adaptor
    BY DEF NetOK, ThreadsOK
  <1>2. out[s] \in Seq(Event)
    BY DEF OutputOK
  <1>3. Len(out[s]) \in Nat /\ DOMAIN out[s] = 1..Len(out[s])
    BY <1>2
  <1>4. LastSent(s) \in Int
    BY <1>1 DEF LastSent, Adaptor
  <1>5. NextTold(s) \in Int
    BY <1>3 DEF NextTold
  <1> QED
    BY <1>1, <1>2, <1>3, <1>4, <1>5

LEMMA SoundKept ==
    ASSUME Inv, NEW s \in Transfer, Sound(s), Calm(s), Still(s), Carried(s)
    PROVE  Sound(s)'
  <1>1. /\ out'[s] = out[s] /\ adaptor'[s] = adaptor[s]
        /\ s \in headers' <=> s \in headers
    BY DEF Calm, Still
  <1>2. Ended(s)' <=> Ended(s)
    BY <1>1 DEF Ended
  <1>3. pc'[s] \in Early => out'[s] = <<>>
    BY <1>1 DEF Calm, Sound, Stage
  <1>4. pc'[s] \in Silent => Unheard(s)'
    <2> SUFFICES ASSUME pc'[s] \in Silent PROVE Unheard(s)'
      OBVIOUS
    <2>1. Unheard(s)
      BY DEF Calm, Sound, Stage
    <2>2. m_timer'[s] = "null"
      BY <2>1 DEF Calm, TimerKept, Unheard
    <2> QED
      BY <1>1, <2>1, <2>2 DEF Unheard, Still
  <1>5. Stage(s)'
    <2>1. pc'[s] \in Before => s \notin Mapped(m_sid2ss')
      BY DEF Calm, Sound, Stage, Mapped
    <2> QED
      BY <1>3, <1>4, <2>1 DEF Stage, Early, Before, Silent, Mapped
  <1>6. TimerOK(s)'
    BY DEF Calm, Sound, TimerOK, TimerKept
  <1>7. Leaving(s)'
    BY <1>2 DEF Calm, Leaving, Mapped, Gone, Unregister, Erase
  <1>8. Sending(s)'
    BY <1>1 DEF Sound, Sending
  <1>9. OutOK(s)'
    <2>1. Repeated(s) => Repeated(s)'
      BY <1>1 DEF Repeated, Calm, TimerKept, Cancel
    <2> QED
      BY <1>1, <2>1 DEF Sound, OutOK
  <1>10. FlowOK(s)'
    <2> SUFFICES ASSUME Live(s)'
                 PROVE  Flow(s, inbox'[ConnOf[s]], NextTold(s)', LastSent(s)')
      BY DEF FlowOK, Flow, InStream, At
    <2>1. NextTold(s)' = NextTold(s) /\ LastSent(s)' = LastSent(s)
      BY <1>1 DEF NextTold, LastSent
    <2>2. /\ ~crashed' /\ link'[ConnOf[s]] = "ready" /\ m_sid2ss'[SidOf[s]] = s
          /\ ~Ended(s)'
      BY DEF Live, Mapped
    <2>3. Live(s)
      BY <1>2, <2>2 DEF Live, Mapped, Calm, Carried
    <2>4. Flow(s, inbox[ConnOf[s]], NextTold(s), LastSent(s))
      BY <2>3 DEF Sound, FlowOK
    <2>5. NextTold(s) \in Int /\ LastSent(s) \in Int
      BY Types
    <2>6. Flow(s, inbox'[ConnOf[s]], NextTold(s), LastSent(s))
      BY <2>2, <2>4, <2>5 DEF Carried
    <2> QED
      BY <2>1, <2>6
  <1> QED
    BY <1>5, <1>6, <1>7, <1>8, <1>9, <1>10 DEF Sound

\* What is said at the end of a sequence.
LEMMA Appended ==
    ASSUME NEW q \in Seq(Event), NEW w \in Event
    PROVE  LET r == Append(q, w) IN
           /\ Len(r) = Len(q) + 1 /\ DOMAIN r = 1..(Len(q) + 1)
           /\ r[Len(q) + 1] = w
           /\ \A i \in 1..Len(q) : r[i] = q[i]
           /\ Len(q) \in Nat /\ DOMAIN q = 1..Len(q)
  OBVIOUS

\* One more event is in order, as nothing ended before.
LEMMA OneMore ==
    ASSUME Inv, NEW s \in Transfer, OutOK(s), ~Ended(s), NEW w \in Event,
           out'[s] = Append(out[s], w), s \in headers => s \in headers',
           w.op = "content" => w.chunk = Len(out[s]) + 1 /\ s \in headers',
           w.op = "finish" => Len(out[s]) = Chunks
    PROVE  OutOK(s)' /\ (Ended(s)' <=> w.op # "content")
  <1> DEFINE q == out[s]
             r == out'[s]
             n == Len(out[s]) + 1
  <1>1. q \in Seq(Event)
    BY Types
  <1>2. /\ r = Append(q, w)
        /\ Len(r) = n /\ DOMAIN r = 1..n /\ r[n] = w
        /\ \A i \in 1..Len(q) : r[i] = q[i]
        /\ Len(q) \in Nat /\ DOMAIN q = 1..Len(q)
    BY <1>1, Appended
  <1>3. \A i \in DOMAIN q : q[i].op = "content" /\ q[i].chunk = i /\ s \in headers
    BY DEF Ended, OutOK
  <1>4. \A i \in 1..n : i = n \/ i \in 1..Len(q)
    BY <1>2
  <1> HIDE DEF q, r
  <1>5. ASSUME NEW i \in DOMAIN r
        PROVE  /\ r[i].op = "content" => r[i].chunk = i /\ s \in headers'
               /\ r[i].op = "finish" => i = Chunks + 1
               /\ r[i].op # "content" => i = Len(r)
    <2>1. CASE i = n
      BY <1>2, <2>1 DEF q
    <2>2. CASE i \in 1..Len(q)
      <3>1. r[i].op = "content" /\ r[i].chunk = i /\ s \in headers
        BY <1>2, <1>3, <2>2
      <3> QED
        BY <3>1
    <2> QED
      BY <1>2, <1>4, <2>1, <2>2
  <1>6. OutOK(s)'
    BY <1>5 DEF OutOK, r
  <1>7. Ended(s)' <=> \E i \in DOMAIN r : r[i].op # "content"
    BY DEF Ended, r
  <1>8. n \in DOMAIN r
    BY <1>2
  <1>9. \A i \in DOMAIN r : i # n => r[i].op = "content"
    BY <1>2, <1>3, <1>4
  <1>10. Ended(s)' <=> w.op # "content"
    BY <1>2, <1>7, <1>8, <1>9
  <1> QED
    BY <1>6, <1>10

\* A transfer that is kept was registered.
LEMMA MappedRegistered ==
    ASSUME NEW s \in Transfer, Sound(s), m_sid2ss[SidOf[s]] = s
    PROVE  pc[s] \notin Before
  BY DEF Sound, Stage, Mapped

\* Nobody hears of a transfer without asking for it.
LEMMA UnheardKept ==
    ASSUME NEW s \in Transfer, Unheard(s), Still(s), TimerKept(s), pc'[s] \in Silent,
           s \in headers' <=> s \in headers
    PROVE  Unheard(s)'
  BY DEF Unheard, Still, TimerKept

\* A transfer ends and is unregistered next.
LEMMA EndedSound ==
    ASSUME Inv, NEW s \in Transfer, Sound(s), m_sid2ss[SidOf[s]] = s, ~Ended(s),
           NEW w \in Event, w.op # "content", w.op = "finish" => Len(out[s]) = Chunks,
           out'[s] = Append(out[s], w), UNCHANGED <<pc, m_sid2ss, adaptor>>,
           s \in headers' <=> s \in headers, TimerKept(s), Still(s),
           io' # <<>>, Head(io') = Unregister(s)
    PROVE  Sound(s)'
  <1>1. OutOK(s)' /\ Ended(s)'
    BY OneMore DEF Sound
  <1>2. Stage(s)'
    <2>1. pc'[s] \notin Before /\ pc'[s] = pc[s]
      BY MappedRegistered
    <2>2. pc'[s] \in Silent => Unheard(s)'
      BY <2>1, UnheardKept DEF Sound, Stage
    <2> QED
      BY <2>1, <2>2 DEF Stage, Before
  <1>3. TimerOK(s)'
    BY DEF Sound, TimerOK, TimerKept
  <1>4. Leaving(s)'
    BY DEF Leaving, Gone, Unregister, Erase
  <1>5. Sending(s)'
    BY DEF Sound, Sending
  <1>6. FlowOK(s)'
    BY <1>1 DEF FlowOK, Live
  <1> QED
    BY <1>1, <1>2, <1>3, <1>4, <1>5, <1>6 DEF Sound

\* A transfer is given up before it is registered.
LEMMA RefusedSound ==
    ASSUME Inv, NEW s \in Transfer, Sound(s), pc[s] \in Early,
           pc'[s] \in {"cancelling", "started"}, NEW w \in Event, w.op = "cancel",
           out'[s] = Append(out[s], w),
           UNCHANGED <<netVars, mapVars, m_timer, headers>>
    PROVE  Sound(s)'
  <1>1. Unheard(s) /\ out[s] = <<>> /\ s \notin Mapped(m_sid2ss)
    BY DEF Sound, Stage, Before, Silent
  <1>2. ~Ended(s)
    BY <1>1 DEF Ended
  <1>3. OutOK(s)'
    BY <1>2, OneMore DEF Sound
  <1>4. Unheard(s)' /\ s \notin Mapped(m_sid2ss)'
    BY <1>1 DEF Unheard, netVars, mapVars, Mapped
  <1>5. Stage(s)'
    BY <1>4 DEF Stage, Early
  <1>6. m_timer'[s] = "null"
    BY <1>4 DEF Unheard
  <1>7. TimerOK(s)' /\ Leaving(s)' /\ FlowOK(s)'
    BY <1>4, <1>6 DEF TimerOK, Leaving, FlowOK, Live
  <1>8. Sending(s)'
    BY DEF Sound, Sending, netVars
  <1> QED
    BY <1>3, <1>5, <1>7, <1>8 DEF Sound

\* A transfer is registered.
LEMMA RegisteredSound ==
    ASSUME Inv, NEW s \in Transfer, Sound(s), pc[s] \in Early,
           m_sid2ss'[SidOf[s]] = s, UNCHANGED <<link, inbox, adaptor, headers, out>>,
           \/ pc'[s] = "mapped" /\ m_timer'[s] = m_timer[s] /\ UNCHANGED requests
           \/ pc'[s] = "started"
    PROVE  Sound(s)'
  <1>1. Unheard(s) /\ out[s] = <<>>
    BY DEF Sound, Stage, Silent, Before
  <1>2. ~Ended(s)'
    BY <1>1 DEF Ended
  <1>3. Stage(s)'
    <2>1. pc'[s] \in Silent => Unheard(s)'
      BY <1>1 DEF Unheard, Silent, Before, Early
    <2> QED
      BY <2>1 DEF Stage, Early, Before
  <1>4. TimerOK(s)' /\ Leaving(s)'
    BY <1>1, <1>2 DEF TimerOK, Leaving, Unheard
  <1>5. Sending(s)' /\ OutOK(s)'
    BY <1>1 DEF Sound, Sending, OutOK
  <1>6. FlowOK(s)'
    <2>1. NextTold(s)' = 0 /\ LastSent(s)' = -1
      BY <1>1 DEF NextTold, LastSent, Unheard
    <2>2. Flow(s, inbox[ConnOf[s]], 0, -1)
      BY <1>1, FlowNone DEF Unheard
    <2> QED
      BY <2>1, <2>2 DEF FlowOK
  <1> QED
    BY <1>3, <1>4, <1>5, <1>6 DEF Sound

-----------------------------------------------------------------------------
(* The steps of this node.                                                 *)

\* Nothing happens on the network.
LEMMA NetSame ==
    ASSUME UNCHANGED netVars, NEW s \in Transfer, crashed => crashed'
    PROVE  Still(s) /\ Carried(s)
  BY DEF netVars, Still, Carried

LEMMA WaitingSame ==
    ASSUME UNCHANGED netVars, NEW c \in Conn, Waiting(c)
    PROVE  Waiting(c)'
  BY DEF netVars, Waiting

\* Timers that are stopped with their transfer.
LEMMA TimerReleased ==
    ASSUME NEW timer, NEW held, NEW s \in Transfer, timer[s] = m_timer[s],
           m_timer' = Released(timer, held)
    PROVE  TimerKept(s)
  BY DEF Released, TimerKept

LEMMA TimerSame ==
    ASSUME NEW s \in Transfer, UNCHANGED m_timer
    PROVE  TimerKept(s)
  BY DEF TimerKept

\* Each transfer has a sid of its own.
LEMMA Alone ==
    ASSUME StreamsApart, Inv, Keyed, NEW s \in Transfer
    PROVE  m_sid2ss[SidOf[s]] = s \/ m_sid2ss[SidOf[s]] = None
  <1>1. SidOf[s] \in Sid /\ m_sid2ss[SidOf[s]] \in Transfer \cup {None}
    BY ConstAssumption DEF Inv, TablesOK
  <1> QED
    BY <1>1 DEF StreamsApart, Keyed

\* erase and insert concern one sid.
LEMMA OneSid ==
    ASSUME StreamsApart, Inv, Keyed, NEW s \in Transfer, NEW v \in {s, None},
           m_sid2ss' = [m_sid2ss EXCEPT ![SidOf[s]] = v]
    PROVE  /\ Keyed'
           /\ m_sid2ss'[SidOf[s]] = v
           /\ \A t \in Transfer : t # s => m_sid2ss'[SidOf[t]] = m_sid2ss[SidOf[t]]
  <1> USE ConstAssumption
  <1>1. SidOf[s] \in Sid /\ m_sid2ss \in [Sid -> Transfer \cup {None}]
    BY DEF Inv, TablesOK
  <1>2. \A t \in Transfer : t # s => SidOf[t] # SidOf[s]
    BY DEF StreamsApart
  <1>3. m_sid2ss'[SidOf[s]] = v
    BY <1>1
  <1>4. \A x \in Sid : x # SidOf[s] => m_sid2ss'[x] = m_sid2ss[x]
    BY <1>1
  <1>5. Keyed'
    BY <1>3, <1>4 DEF Keyed
  <1> QED
    BY <1>2, <1>3, <1>5

LEMMA TablesSame ==
    ASSUME Keyed, UNCHANGED m_sid2ss
    PROVE  Keyed'
  BY DEF Keyed

\* A transfer that is not touched: what it has to be spared.
LEMMA Aside ==
    ASSUME NEW s \in Transfer, pc'[s] = pc[s], out'[s] = out[s],
           m_sid2ss'[SidOf[s]] = s => m_sid2ss[SidOf[s]] = s,
           s \in headers' <=> s \in headers, TimerKept(s), Leaving(s),
           UNCHANGED io \/ ~(m_sid2ss[SidOf[s]] = s /\ Ended(s))
    PROVE  Calm(s)
  BY DEF Calm, Leaving, Mapped, Gone, Unregister, Erase

\* The web server's threads, for a transfer that goes on.
LEMMA WebCalm ==
    ASSUME StreamsApart, Inv, StreamInv, NEW s \in Transfer,
           UNCHANGED <<netVars, headers, io, crashed>>,
           m_sid2ss' = m_sid2ss \/ m_sid2ss' = [m_sid2ss EXCEPT ![SidOf[s]] = None],
           NEW to, pc' = [pc EXCEPT ![s] = to],
           to \in Early => pc[s] \in Early, to \in Before => pc[s] \in Before,
           to \in Silent => pc[s] \in Silent, pc[s] # "started",
           \A t \in Transfer : TimerKept(t),
           NEW t \in Transfer, out'[t] = out[t]
    PROVE  Sound(t)' /\ Keyed' /\ \A c \in Conn : Waiting(c)'
  <1> USE DEF StreamInv
  <1>1. Still(t) /\ Carried(t) /\ \A c \in Conn : Waiting(c)'
    BY NetSame, WaitingSame
  <1>2. Keyed' /\ (m_sid2ss'[SidOf[t]] = t => m_sid2ss[SidOf[t]] = t)
    BY OneSid, TablesSame, ConstAssumption
  <1>3. pc'[t] = IF t = s THEN to ELSE pc[t]
    BY DEF Inv, ThreadsOK
  <1>4. m_sid2ss[SidOf[t]] = t /\ Ended(t) => Gone(io', t)
    BY DEF Sound, Leaving, Mapped, Gone, Unregister, Erase
  <1>5. Calm(t)
    BY <1>2, <1>3, <1>4 DEF Calm
  <1> QED
    BY <1>1, <1>2, <1>5, SoundKept

LEMMA WebStream ==
    ASSUME StreamsApart, Inv, StreamInv, NEW s \in Transfer,
           \/ factory(s) \/ cancel_loop(s) \/ cancel_erase(s)
           \/ register_conn(s) \/ make_timer(s)
    PROVE  StreamInv'
  <1>1. CASE factory(s)
    <2>1. PICK to \in {"refused", "made"} : pc' = [pc EXCEPT ![s] = to]
      BY <1>1 DEF factory
    <2>2. /\ pc[s] = "none" /\ UNCHANGED <<netVars, m_sid2ss, m_timer, headers, out, io, crashed>>
      BY <1>1 DEF factory, mapVars
    <2>3. to \in Early /\ pc[s] \in Early
      BY <2>2 DEF Early
    <2>4. \A t \in Transfer : TimerKept(t)
      BY <2>2, TimerSame
    <2>5. ASSUME NEW t \in Transfer
          PROVE  Sound(t)' /\ Keyed' /\ \A c \in Conn : Waiting(c)'
      BY <2>1, <2>2, <2>3, <2>4, WebCalm DEF Before, Silent
    <2> QED
      BY <2>5 DEF StreamInv
  <1>2. CASE cancel_loop(s)
    <2>1. /\ pc' = [pc EXCEPT ![s] = "erasing"] /\ pc[s] = "cancelling"
          /\ UNCHANGED <<netVars, m_sid2ss, m_timer, headers, out, io, crashed>>
      BY <1>2 DEF cancel_loop
    <2>2. \A t \in Transfer : TimerKept(t)
      BY <2>1, TimerSame
    <2>3. "erasing" \notin Early /\ pc[s] \in Before \cap Silent
      BY <2>1 DEF Early, Before, Silent
    <2>4. ASSUME NEW t \in Transfer
          PROVE  Sound(t)' /\ Keyed' /\ \A c \in Conn : Waiting(c)'
      BY <2>1, <2>2, <2>3, WebCalm
    <2> QED
      BY <2>4 DEF StreamInv
  <1>3. CASE cancel_erase(s)
    <2>1. /\ pc' = [pc EXCEPT ![s] = "started"] /\ pc[s] = "erasing"
          /\ m_sid2ss' = [m_sid2ss EXCEPT ![SidOf[s]] = None]
          /\ m_timer' = Released(m_timer, Mapped(m_sid2ss') \cup (Starting \ {s}))
          /\ UNCHANGED <<netVars, headers, out, io, crashed>>
      BY <1>3 DEF cancel_erase, erase
    <2>2. \A t \in Transfer : TimerKept(t)
      BY <2>1, TimerReleased
    <2>3. "started" \notin Silent /\ "started" \notin Before /\ "started" \notin Early
      BY DEF Early, Before, Silent
    <2>4. ASSUME NEW t \in Transfer
          PROVE  Sound(t)' /\ Keyed' /\ \A c \in Conn : Waiting(c)'
      BY <2>1, <2>2, <2>3, WebCalm
    <2> QED
      BY <2>4 DEF StreamInv
  <1>4. CASE register_conn(s)
    <2>1. /\ pc' = [pc EXCEPT ![s] = "tracked"] /\ pc[s] = "mapped"
          /\ UNCHANGED <<netVars, m_sid2ss, m_timer, headers, out, io, crashed>>
      BY <1>4 DEF register_conn
    <2>2. \A t \in Transfer : TimerKept(t)
      BY <2>1, TimerSame
    <2>3. "tracked" \notin Early /\ "tracked" \notin Before /\ pc[s] \in Silent
      BY <2>1 DEF Early, Before, Silent
    <2>4. ASSUME NEW t \in Transfer
          PROVE  Sound(t)' /\ Keyed' /\ \A c \in Conn : Waiting(c)'
      BY <2>1, <2>2, <2>3, WebCalm
    <2> QED
      BY <2>4 DEF StreamInv
  <1>5. CASE make_timer(s)
    <2>1. /\ pc' = [pc EXCEPT ![s] = "timed"] /\ pc[s] = "requested"
          /\ m_timer' = [m_timer EXCEPT ![s] = "off"]
          /\ UNCHANGED <<netVars, m_sid2ss, headers, out, io, crashed>>
      BY <1>5 DEF make_timer, mapVars
    <2>2. "timed" \notin Silent /\ "timed" \notin Before /\ "timed" \notin Early
      BY DEF Early, Before, Silent
    <2>3. ASSUME NEW t \in Transfer PROVE TimerKept(t)
      <3>1. CASE t # s
        BY <2>1, <3>1 DEF TimerKept, Inv, ThreadsOK, Timers
      <3>2. CASE t = s
        <4>1. m_timer[s] \in {"null", "off"}
          BY <2>1 DEF StreamInv, Sound, TimerOK, Inv, ThreadsOK, Timers
        <4>2. pc'[s] = "timed" /\ m_timer'[s] = "off"
          BY <2>1 DEF Inv, ThreadsOK, Timers
        <4> QED
          BY <2>2, <3>2, <4>1, <4>2 DEF TimerKept
      <3> QED
        BY <3>1, <3>2
    <2>4. ASSUME NEW t \in Transfer
          PROVE  Sound(t)' /\ Keyed' /\ \A c \in Conn : Waiting(c)'
      BY <2>1, <2>2, <2>3, WebCalm
    <2> QED
      BY <2>4 DEF StreamInv
  <1> QED
    BY <1>1, <1>2, <1>3, <1>4, <1>5

LEMMA StartReplyStream ==
    ASSUME StreamsApart, Inv, StreamInv, NEW s \in Transfer, start_reply(s)
    PROVE  StreamInv'
  <1>1. /\ pc[s] = "made"
        /\ UNCHANGED <<netVars, mapVars, m_sid2ss, m_timer, headers, io, crashed>>
    BY DEF start_reply, mapVars
  <1>2. \A t \in Transfer : TimerKept(t)
    BY <1>1, TimerSame
  <1>3. pc[s] \in Early /\ pc[s] \in Before /\ pc[s] \in Silent
    BY <1>1 DEF Early, Before, Silent
  <1>4. CASE pc' = [pc EXCEPT ![s] = "checked"] /\ UNCHANGED out
    <2>1. ASSUME NEW t \in Transfer
          PROVE  Sound(t)' /\ Keyed' /\ \A c \in Conn : Waiting(c)'
      BY <1>1, <1>2, <1>3, <1>4, WebCalm
    <2> QED
      BY <2>1 DEF StreamInv
  <1>5. CASE pc' = [pc EXCEPT ![s] = "cancelling"] /\ Write(s, Cancel("not ready"))
    <2>1. out \in [Transfer -> Seq(Event)] /\ Cancel("not ready") \in Event
          /\ Cancel("not ready").op = "cancel"
      BY DEF Inv, OutputOK, Cancel, Event, Why
    <2>2. /\ out'[s] = Append(out[s], Cancel("not ready"))
          /\ \A t \in Transfer : t # s => out'[t] = out[t]
      BY <1>5, <2>1 DEF Write
    <2>3. Sound(s)'
      <3>1. pc'[s] = "cancelling"
        BY <1>5 DEF Inv, ThreadsOK
      <3> QED
        BY <1>1, <1>3, <2>1, <2>2, <3>1, RefusedSound DEF StreamInv
    <2>4. ASSUME NEW t \in Transfer, t # s
          PROVE  Sound(t)'
      BY <1>1, <1>2, <1>3, <1>5, <2>2, <2>4, WebCalm
    <2>5. Keyed' /\ \A c \in Conn : Waiting(c)'
      BY <1>1, TablesSame, WaitingSame DEF StreamInv
    <2> QED
      BY <2>3, <2>4, <2>5 DEF StreamInv
  <1> QED
    BY <1>4, <1>5 DEF start_reply

\* The timer is started for a transfer that is still kept, or for none.
LEMMA StartTimerStream ==
    ASSUME StreamsApart, Inv, StreamInv, NEW s \in Transfer, start_timer(s)
    PROVE  StreamInv'
  <1> USE DEF StreamInv
  <1>1. /\ pc' = [pc EXCEPT ![s] = "started"] /\ pc[s] = "timed"
        /\ m_timer' = Released(async_wait(s), Mapped(m_sid2ss) \cup (Starting \ {s}))
        /\ UNCHANGED <<netVars, mapVars, headers, out, io, crashed>>
    BY DEF start_timer
  <1>2. m_sid2ss' = m_sid2ss
    BY <1>1 DEF mapVars
  <1>3. pc'[s] = "started" /\ \A t \in Transfer : t # s => pc'[t] = pc[t]
    BY <1>1 DEF Inv, ThreadsOK
  <1>4. \A t \in Transfer : t # s => async_wait(s)[t] = m_timer[t]
    BY DEF async_wait, Inv, ThreadsOK, Timers
  <1>5. \A t \in Transfer : Still(t) /\ Carried(t) /\ Leaving(t)
    BY <1>1, NetSame DEF Sound
  <1>6. ASSUME NEW t \in Transfer, t # s PROVE Sound(t)'
    <2>1. TimerKept(t)
      BY <1>1, <1>4, <1>6, TimerReleased
    <2>2. Calm(t)
      BY <1>1, <1>2, <1>3, <1>5, <1>6, <2>1, Aside
    <2> QED
      BY <1>5, <2>2, SoundKept
  <1>7. Sound(s)'
    <2>1. Stage(s)' /\ TimerOK(s)'
      BY <1>3 DEF Stage, Early, Before, Silent, TimerOK
    <2>2. Leaving(s)'
      BY <1>1, <1>2, <1>5 DEF Leaving, Mapped, Ended, Gone, Unregister, Erase
    <2>3. Sending(s)'
      BY <1>1 DEF Sound, Sending, netVars
    <2>4. OutOK(s)'
      <3>1. ~Repeated(s)
        BY <1>1 DEF Repeated
      <3> QED
        BY <1>1, <3>1 DEF Sound, OutOK
    <2>5. FlowOK(s)'
      <3>1. Live(s)' => Live(s)
        BY <1>1, <1>2 DEF Live, Mapped, Ended, netVars
      <3>2. NextTold(s)' = NextTold(s) /\ LastSent(s)' = LastSent(s) /\ inbox' = inbox
        BY <1>1 DEF NextTold, LastSent, netVars
      <3> SUFFICES ASSUME Live(s)'
                   PROVE  Flow(s, inbox'[ConnOf[s]], NextTold(s)', LastSent(s)')
        BY DEF FlowOK, Flow, InStream, At
      <3> QED
        BY <3>1, <3>2 DEF Sound, FlowOK
    <2> QED
      BY <2>1, <2>2, <2>3, <2>4, <2>5 DEF Sound
  <1>8. Keyed' /\ \A c \in Conn : Waiting(c)'
    BY <1>1, <1>2, TablesSame, WaitingSame
  <1> QED
    BY <1>6, <1>7, <1>8

LEMMA RegisterStream ==
    ASSUME StreamsApart, Inv, StreamInv, NEW s \in Transfer, register_ss(s)
    PROVE  StreamInv'
  <1> USE DEF StreamInv
  <1>1. /\ pc[s] = "checked" /\ pc' = [pc EXCEPT ![s] = "mapped"]
        /\ m_sid2ss' = [m_sid2ss EXCEPT ![SidOf[s]] = s]
        /\ m_timer' = Released(m_timer, Mapped(m_sid2ss') \cup Starting)
        /\ UNCHANGED <<netVars, headers, out, io, crashed>>
    BY DEF register_ss, register_sidtransfer
  <1>2. /\ Keyed' /\ m_sid2ss'[SidOf[s]] = s
        /\ \A t \in Transfer : t # s => m_sid2ss'[SidOf[t]] = m_sid2ss[SidOf[t]]
    BY <1>1, OneSid
  <1>3. pc'[s] = "mapped" /\ \A t \in Transfer : t # s => pc'[t] = pc[t]
    BY <1>1 DEF Inv, ThreadsOK
  <1>4. ASSUME NEW t \in Transfer, t # s PROVE Sound(t)'
    <2>1. TimerKept(t) /\ Still(t) /\ Carried(t)
      BY <1>1, TimerReleased, NetSame
    <2>2. Calm(t)
      BY <1>1, <1>2, <1>3, <1>4, <2>1, Aside DEF Sound
    <2> QED
      BY <2>1, <2>2, SoundKept
  <1>5. Sound(s)'
    <2>1. pc[s] \in Early
      BY <1>1 DEF Early
    <2>2. m_timer[s] = "null"
      BY <2>1 DEF Sound, Stage, Unheard, Silent, Before
    <2>3. m_timer'[s] = m_timer[s]
      BY <1>1, <2>2 DEF Released
    <2> QED
      BY <1>1, <1>2, <1>3, <2>1, <2>3, RegisteredSound DEF netVars
  <1> QED
    BY <1>1, <1>2, <1>4, <1>5, WaitingSame

\* The request for s goes out; nobody has heard of s before.
LEMMA RequestStream ==
    ASSUME StreamsApart, Inv, StreamInv, NEW s \in Transfer, WriteRequest(s), Unheard(s),
           UNCHANGED <<link, inbox, adaptor, crashed>>
    PROVE  /\ \A c \in Conn : Waiting(c)'
           /\ \A t \in Transfer : t # s => Still(t) /\ Carried(t)
  <1> USE DEF StreamInv
  <1> DEFINE k == ConnOf[s]
             q == requests[k]
  <1>1. requests' = [requests EXCEPT ![k] = Sent(requests, k, s)]
    BY DEF WriteRequest
  <1>3. k \in Conn /\ q \in Seq(Transfer) /\ requests \in [Conn -> Seq(Transfer)]
    BY Types DEF Inv, NetOK
  <1>4. /\ requests'[k] = q \/ requests'[k] = Append(q, s)
        /\ \A c \in Conn : c # k => requests'[c] = requests[c]
    BY <1>1, <1>3 DEF Sent
  <1>6. \A i \in DOMAIN Append(q, s) :
            \/ i \in DOMAIN q /\ Append(q, s)[i] = q[i]
            \/ i = Len(q) + 1 /\ Append(q, s)[i] = s
    BY <1>3, Longer
  <1>7. \A i \in DOMAIN requests'[k] :
            \/ i \in DOMAIN q /\ requests'[k][i] = q[i]
            \/ i = Len(q) + 1 /\ requests'[k][i] = s
    BY <1>4, <1>6
  <1>8. ASSUME NEW c \in Conn PROVE Waiting(c)'
    <2>1. CASE c = k
      <3>1. Waiting(k)
        BY <1>3
      <3>2. \A i \in DOMAIN q : ConnOf[q[i]] = k /\ adaptor[q[i]].state = "none" /\ q[i] # s
        BY <3>1 DEF Waiting, Unheard
      <3>3. adaptor[s].state = "none"
        BY DEF Unheard
      <3>4. \A i \in DOMAIN requests'[k] :
                ConnOf[requests'[k][i]] = k /\ adaptor'[requests'[k][i]].state = "none"
        BY <1>7, <3>2, <3>3
      <3>5. \A i, j \in DOMAIN requests'[k] : requests'[k][i] = requests'[k][j] => i = j
        BY <1>7, <3>1, <3>2 DEF Waiting
      <3> HIDE DEF q
      <3> QED
        BY <2>1, <3>1, <3>4, <3>5 DEF Waiting
    <2>2. CASE c # k
      BY <1>4, <2>2 DEF Waiting
    <2> QED
      BY <2>1, <2>2
  <1>9. ASSUME NEW t \in Transfer, t # s PROVE Still(t) /\ Carried(t)
    <2>1. ConnOf[t] \in Conn
      BY Types
    <2>2. (\A i \in DOMAIN requests[ConnOf[t]] : requests[ConnOf[t]][i] # t)
          => \A i \in DOMAIN requests'[ConnOf[t]] : requests'[ConnOf[t]][i] # t
      BY <1>4, <1>7, <1>9, <2>1
    <2> QED
      BY <2>2 DEF Still, Carried
  <1> QED
    BY <1>8, <1>9

LEMMA StartSidrequestStream ==
    ASSUME StreamsApart, Inv, StreamInv, NEW s \in Transfer, start_sidrequest(s)
    PROVE  StreamInv'
  <1> USE DEF StreamInv
  <1>1. /\ pc[s] = "tracked" /\ WriteRequest(s) /\ pc' = [pc EXCEPT ![s] = "requested"]
        /\ UNCHANGED <<link, inbox, adaptor, mapVars, m_timer, headers, out, io, crashed>>
    BY DEF start_sidrequest
  <1>2. Unheard(s) /\ m_sid2ss' = m_sid2ss
    BY <1>1 DEF Sound, Stage, Silent, mapVars
  <1>3. /\ \A c \in Conn : Waiting(c)'
        /\ \A t \in Transfer : t # s => Still(t) /\ Carried(t)
    BY <1>1, <1>2, RequestStream
  <1>4. pc'[s] = "requested" /\ \A t \in Transfer : t # s => pc'[t] = pc[t]
    BY <1>1 DEF Inv, ThreadsOK
  <1>5. ASSUME NEW t \in Transfer, t # s PROVE Sound(t)'
    <2>1. TimerKept(t)
      BY <1>1, TimerSame
    <2>2. Calm(t)
      BY <1>1, <1>2, <1>4, <1>5, <2>1, Aside DEF Sound
    <2> QED
      BY <1>3, <1>5, <2>2, SoundKept
  <1>6. Sound(s)'
    <2>1. Still(s) /\ Carried(s)
      BY <1>1, <1>4 DEF Still, Carried, Silent, Before, Early
    <2>2. Calm(s)
      <3>1. TimerKept(s)
        BY <1>1, TimerSame
      <3>2. m_sid2ss[SidOf[s]] = s /\ Ended(s) => Gone(io', s)
        BY <1>1 DEF Sound, Leaving, Mapped, Gone, Unregister, Erase
      <3> QED
        BY <1>1, <1>2, <1>4, <3>1, <3>2 DEF Calm, Silent, Before, Early
    <2> QED
      BY <2>1, <2>2, SoundKept
  <1> QED
    BY <1>2, <1>3, <1>5, <1>6, TablesSame

LEMMA HandleSidrequestStream ==
    ASSUME StreamsApart, Inv, StreamInv, NEW s \in Transfer, handle_sidrequest(s)
    PROVE  StreamInv'
  <1> USE DEF StreamInv
  <1>1. Idle /\ pc[s] = "none" /\ UNCHANGED <<headers, crashed>>
    BY DEF handle_sidrequest
  <1>2. \A t \in Transfer : Leaving(t) /\ ~(m_sid2ss[SidOf[t]] = t /\ Ended(t))
    BY <1>1 DEF Sound, Leaving, Idle, Mapped, Gone
  <1>3. pc[s] \in Early /\ pc[s] \in Before /\ pc[s] \in Silent /\ pc \in [Transfer -> Place]
    BY <1>1 DEF Early, Before, Silent, Inv, ThreadsOK
  <1>4. CASE /\ pc' = [pc EXCEPT ![s] = "refused"]
             /\ UNCHANGED <<netVars, mapVars, m_timer, out, io>>
    <2>1. UNCHANGED m_sid2ss
      BY <1>4 DEF mapVars
    <2>2. \A t \in Transfer : TimerKept(t)
      BY <1>4, TimerSame
    <2>3. ASSUME NEW t \in Transfer
          PROVE  Sound(t)' /\ Keyed' /\ \A c \in Conn : Waiting(c)'
      BY <1>1, <1>3, <1>4, <2>1, <2>2, WebCalm
    <2> QED
      BY <2>3
  <1>5. CASE /\ pc' = [pc EXCEPT ![s] = "started"]
             /\ cancel_handler(s, "not ready", <<>>)
             /\ UNCHANGED <<netVars, mapVars, m_timer>>
    <2>1. UNCHANGED m_sid2ss
      BY <1>5 DEF mapVars
    <2>2. out \in [Transfer -> Seq(Event)] /\ Cancel("not ready") \in Event
          /\ Cancel("not ready").op = "cancel"
      BY DEF Inv, OutputOK, Cancel, Event, Why
    <2>3. /\ out'[s] = Append(out[s], Cancel("not ready")) /\ pc'[s] = "started"
          /\ \A t \in Transfer : t # s => out'[t] = out[t] /\ pc'[t] = pc[t]
      BY <1>3, <1>5, <2>2 DEF cancel_handler, Write
    <2>4. Sound(s)'
      BY <1>1, <1>3, <1>5, <2>2, <2>3, RefusedSound
    <2>5. ASSUME NEW t \in Transfer, t # s PROVE Sound(t)'
      <3>1. TimerKept(t)
        BY <1>5, TimerSame
      <3>2. Calm(t)
        BY <1>1, <1>2, <2>1, <2>3, <2>5, <3>1, Aside
      <3> QED
        BY <1>1, <1>5, <3>2, NetSame, SoundKept
    <2> QED
      BY <1>5, <2>1, <2>4, <2>5, TablesSame, WaitingSame
  <1>6. CASE /\ pc' = [pc EXCEPT ![s] = "started"]
             /\ register_sidtransfer(s) /\ insert(s) /\ WriteRequest(s)
             /\ m_timer' = Released(async_wait(s), Mapped(m_sid2ss') \cup Starting)
             /\ UNCHANGED <<link, inbox, adaptor, out, io>>
    <2>1. /\ Keyed' /\ m_sid2ss'[SidOf[s]] = s
          /\ \A t \in Transfer : t # s => m_sid2ss'[SidOf[t]] = m_sid2ss[SidOf[t]]
      BY <1>6, OneSid DEF register_sidtransfer
    <2>2. pc'[s] = "started" /\ \A t \in Transfer : t # s => pc'[t] = pc[t]
      BY <1>3, <1>6
    <2>3. /\ \A c \in Conn : Waiting(c)'
          /\ \A t \in Transfer : t # s => Still(t) /\ Carried(t)
      <3>1. Unheard(s)
        BY <1>3 DEF Sound, Stage
      <3> QED
        BY <1>1, <1>6, <3>1, RequestStream
    <2>4. \A t \in Transfer : t # s => async_wait(s)[t] = m_timer[t]
      BY DEF async_wait, Inv, ThreadsOK, Timers
    <2>5. Sound(s)'
      BY <1>1, <1>3, <1>6, <2>1, <2>2, RegisteredSound
    <2>6. ASSUME NEW t \in Transfer, t # s PROVE Sound(t)'
      <3>1. TimerKept(t)
        BY <1>6, <2>4, <2>6, TimerReleased
      <3>2. Calm(t)
        BY <1>1, <1>2, <1>6, <2>1, <2>2, <2>6, <3>1, Aside
      <3> QED
        BY <2>3, <2>6, <3>2, SoundKept
    <2> QED
      BY <2>1, <2>3, <2>5, <2>6
  <1> QED
    BY <1>4, <1>5, <1>6, HandleSidrequestCases

LEMMA EndedLeaving ==
    ASSUME StreamInv, NEW t \in Transfer, m_sid2ss[SidOf[t]] = t, Ended(t)
    PROVE  io # <<>> /\ Head(io) \in {Unregister(t), Erase(t)}
  BY DEF StreamInv, Sound, Leaving, Mapped, Gone

\* The end of cancel_handler on the io thread, for a transfer that is kept.
LEMMA CancelStream ==
    ASSUME StreamsApart, Inv, StreamInv, NEW s \in Transfer, m_sid2ss[SidOf[s]] = s,
           \A t \in Transfer : ~(m_sid2ss[SidOf[t]] = t /\ Ended(t)),
           NEW why \in Why, NEW rest \in Seq(Task), cancel_handler(s, why, rest),
           UNCHANGED <<adaptor, pc, mapVars, headers, crashed>>,
           \A t \in Transfer : TimerKept(t),
           Still(s), \A t \in Transfer : t # s => Still(t) /\ Carried(t)
    PROVE  Keyed' /\ \A t \in Transfer : Sound(t)'
  <1> USE DEF StreamInv
  <1>1. m_sid2ss' = m_sid2ss
    BY DEF mapVars
  <1>2. out \in [Transfer -> Seq(Event)] /\ Cancel(why) \in Event /\ Cancel(why).op = "cancel"
    BY DEF Inv, OutputOK, Cancel, Event
  <1>3. /\ out'[s] = Append(out[s], Cancel(why))
        /\ \A t \in Transfer : t # s => out'[t] = out[t]
    BY <1>2 DEF cancel_handler, Write
  <1>4. io' # <<>> /\ Head(io') = Unregister(s)
    <2>1. Unregister(s) \in Task
      BY DEF Unregister, Task
    <2>2. io' = <<Unregister(s)>> \o rest
      BY DEF cancel_handler
    <2> HIDE DEF Unregister
    <2> QED
      BY <2>1, <2>2
  <1>5. Sound(s)'
    BY <1>1, <1>2, <1>3, <1>4, EndedSound
  <1>6. ASSUME NEW t \in Transfer, t # s PROVE Sound(t)'
    <2>1. Calm(t)
      BY <1>1, <1>3, <1>6, Aside DEF Sound
    <2> QED
      BY <1>6, <2>1, SoundKept
  <1> QED
    BY <1>1, <1>5, <1>6, TablesSame

LEMMA UnregisterStream ==
    ASSUME StreamsApart, Inv, StreamInv, unregister_sidtransfer \/ erase_sid
    PROVE  StreamInv'
  <1> USE DEF StreamInv
  <1>1. io # <<>> /\ Head(io) \in Task /\ Tail(io) \in Seq(Task)
    BY DEF unregister_sidtransfer, erase_sid, Inv, OutputOK
  <1>2. Head(io).call \in {"unregister_sidtransfer", "erase"}
    BY DEF unregister_sidtransfer, erase_sid
  <1>3. PICK s \in Transfer : s = Head(io).arg
    BY <1>1, <1>2 DEF Task
  <1>4. ASSUME NEW t \in Transfer, m_sid2ss[SidOf[t]] = t, Ended(t) PROVE t = s
    <2>1. Head(io) \in {Unregister(t), Erase(t)}
      BY <1>4, EndedLeaving
    <2> QED
      BY <1>3, <2>1 DEF Unregister, Erase
  <1>5. UNCHANGED <<netVars, pc, headers, out>> /\ (crashed => crashed')
    BY DEF unregister_sidtransfer, erase_sid
  <1>6. ASSUME Keyed',
               \A t \in Transfer : /\ TimerKept(t)
                                   /\ m_sid2ss'[SidOf[t]] = t => m_sid2ss[SidOf[t]] = t
                                   /\ m_sid2ss'[SidOf[t]] = t /\ Ended(t) => Gone(io', t)
        PROVE  StreamInv'
    <2>1. \A c \in Conn : Waiting(c)'
      BY <1>5, WaitingSame
    <2>2. ASSUME NEW t \in Transfer PROVE Sound(t)'
      <3>1. Calm(t)
        BY <1>5, <1>6 DEF Calm
      <3>2. Still(t) /\ Carried(t)
        BY <1>5, NetSame
      <3> QED
        BY <3>1, <3>2, SoundKept
    <2> QED
      BY <1>6, <2>1, <2>2
  <1>7. CASE UNCHANGED <<m_sid2ss, m_timer, io>>
    <2>1. ASSUME NEW t \in Transfer
          PROVE  /\ TimerKept(t)
                 /\ m_sid2ss[SidOf[t]] = t /\ Ended(t) => Gone(io', t)
      BY <1>7, TimerSame DEF Sound, Leaving, Mapped, Gone, Unregister, Erase
    <2> QED
      BY <1>6, <1>7, <2>1, TablesSame
  <1>8. CASE io' = <<Erase(s)>> \o Tail(io) /\ UNCHANGED <<m_sid2ss, m_timer>>
    <2>1. io' # <<>> /\ Head(io') = Erase(s)
      <3>1. Erase(s) \in Task
        BY DEF Erase, Task
      <3> HIDE DEF Erase
      <3> QED
        BY <1>1, <1>8, <3>1
    <2>2. \A t \in Transfer : TimerKept(t)
      BY <1>8, TimerSame
    <2>3. ASSUME NEW t \in Transfer, m_sid2ss[SidOf[t]] = t, Ended(t) PROVE Gone(io', t)
      BY <1>4, <2>1, <2>3 DEF Gone
    <2> QED
      BY <1>6, <1>8, <2>2, <2>3, TablesSame
  <1>9. CASE /\ m_sid2ss' = [m_sid2ss EXCEPT ![SidOf[s]] = None]
             /\ m_timer' = Released(m_timer, Mapped(m_sid2ss') \cup Starting)
    <2>1. /\ Keyed' /\ m_sid2ss'[SidOf[s]] = None
          /\ \A t \in Transfer : t # s => m_sid2ss'[SidOf[t]] = m_sid2ss[SidOf[t]]
      BY <1>9, OneSid
    <2>2. \A t \in Transfer : TimerKept(t)
      BY <1>9, TimerReleased
    <2>3. \A t \in Transfer : m_sid2ss'[SidOf[t]] = t => m_sid2ss[SidOf[t]] = t /\ t # s
      BY <2>1, ConstAssumption
    <2> QED
      BY <1>4, <1>6, <2>1, <2>2, <2>3
  <1> QED
    <2>1. CASE unregister_sidtransfer
      BY <1>3, <1>7, <1>8, <2>1 DEF unregister_sidtransfer
    <2>2. CASE erase_sid
      BY <1>3, <1>7, <1>9, <2>2 DEF erase_sid, erase
    <2> QED
      BY <2>1, <2>2

LEMMA ExpireStream ==
    ASSUME StreamsApart, Inv, StreamInv, NEW s \in Transfer, expire(s)
    PROVE  StreamInv'
  <1> USE DEF StreamInv
  <1>1. /\ m_timer[s] = "armed" /\ m_timer' = [m_timer EXCEPT ![s] = "queued"]
        /\ UNCHANGED <<netVars, pc, mapVars, m_sid2ss, headers, out, io, crashed>>
    BY DEF expire, mapVars
  <1>2. ASSUME NEW t \in Transfer PROVE Sound(t)'
    <2>1. TimerKept(t)
      BY <1>1 DEF TimerKept, Inv, ThreadsOK, Timers
    <2>2. Calm(t)
      BY <1>1, <2>1, Aside DEF Sound
    <2> QED
      BY <1>1, <2>2, NetSame, SoundKept
  <1> QED
    BY <1>1, <1>2, TablesSame, WaitingSame

\* A late timer tells a transfer of its end once more.
LEMMA RepeatedSound ==
    ASSUME Inv, NEW s \in Transfer, Sound(s), Ended(s), m_sid2ss[SidOf[s]] # s,
           m_timer[s] = "queued", m_timer'[s] = "off",
           out'[s] = Append(out[s], Cancel("timeout")),
           UNCHANGED <<pc, m_sid2ss, adaptor, headers>>
    PROVE  Sound(s)'
  <1> DEFINE n == Len(out[s])
  <1>1. pc[s] = "started" /\ ~Repeated(s)
    BY DEF Sound, TimerOK, Repeated
  <1>2. out[s] \in Seq(Event) /\ Cancel("timeout") \in Event
    BY Types DEF Cancel, Event, Why
  <1>3. /\ Len(out'[s]) = n + 1 /\ DOMAIN out'[s] = 1..(n + 1)
        /\ out'[s][n + 1] = Cancel("timeout")
        /\ \A i \in 1..n : out'[s][i] = out[s][i]
        /\ n \in Nat /\ DOMAIN out[s] = 1..n
    BY <1>2, Appended
  <1>4. Ended(s)'
    BY <1>3 DEF Ended, Cancel
  <1>5. Repeated(s)'
    BY <1>1, <1>3 DEF Repeated
  <1>6. OutOK(s)'
    <2> SUFFICES ASSUME NEW i \in 1..(n + 1)
                 PROVE  /\ out'[s][i].op = "content" => out'[s][i].chunk = i /\ s \in headers
                        /\ out'[s][i].op = "finish" => i = Chunks + 1
                        /\ out'[s][i].op # "content" => i \in {n, n + 1}
      BY <1>3, <1>5 DEF OutOK
    <2>1. CASE i = n + 1
      BY <1>3, <2>1 DEF Cancel
    <2>2. CASE i \in 1..n
      <3>1. out'[s][i] = out[s][i] /\ i \in DOMAIN out[s]
        BY <1>3, <2>2
      <3> HIDE DEF n
      <3> QED
        BY <1>1, <3>1 DEF Sound, OutOK, n
    <2> QED
      BY <1>3, <2>1, <2>2
  <1>7. Stage(s)' /\ TimerOK(s)'
    BY <1>1 DEF Stage, Early, Before, Silent, TimerOK
  <1>8. Leaving(s)' /\ FlowOK(s)'
    BY <1>4 DEF Leaving, FlowOK, Live, Mapped
  <1>9. Sending(s)'
    BY DEF Sound, Sending
  <1> QED
    BY <1>6, <1>7, <1>8, <1>9 DEF Sound

\* A timer gives up a transfer that nobody keeps any more.
LEMMA ForgottenSound ==
    ASSUME Inv, NEW s \in Transfer, Sound(s), ~Ended(s), m_sid2ss[SidOf[s]] # s,
           m_timer[s] = "queued", m_timer'[s] = "off",
           out'[s] = Append(out[s], Cancel("timeout")),
           UNCHANGED <<pc, m_sid2ss, adaptor, headers>>
    PROVE  Sound(s)'
  <1>1. pc[s] = "started"
    BY DEF Sound, TimerOK
  <1>2. Cancel("timeout") \in Event /\ Cancel("timeout").op = "cancel"
    BY DEF Cancel, Event, Why
  <1>3. OutOK(s)'
    BY <1>2, OneMore DEF Sound
  <1>4. Stage(s)' /\ TimerOK(s)'
    BY <1>1 DEF Stage, Early, Before, Silent, TimerOK
  <1>5. Leaving(s)' /\ FlowOK(s)'
    BY DEF Leaving, FlowOK, Live, Mapped
  <1>6. Sending(s)'
    BY DEF Sound, Sending
  <1> QED
    BY <1>3, <1>4, <1>5, <1>6 DEF Sound

LEMMA TimeoutStream ==
    ASSUME StreamsApart, Inv, StreamInv, NEW s \in Transfer, timeout_cb(s)
    PROVE  StreamInv'
  <1> USE DEF StreamInv
  <1>1. /\ Idle /\ m_timer[s] = "queued" /\ m_timer' = [m_timer EXCEPT ![s] = "off"]
        /\ UNCHANGED <<netVars, pc, mapVars, m_sid2ss, headers>>
    BY DEF timeout_cb, mapVars
  <1>2. \A t \in Transfer : ~(m_sid2ss[SidOf[t]] = t /\ Ended(t))
    BY <1>1 DEF Sound, Leaving, Idle, Mapped, Gone
  <1>3. /\ m_timer'[s] = "off"
        /\ \A t \in Transfer : t # s => m_timer'[t] = m_timer[t]
    BY <1>1 DEF Inv, ThreadsOK, Timers
  <1>4. crashed => crashed'
    BY <1>1 DEF Idle
  <1>5. \A t \in Transfer : Still(t) /\ Carried(t)
    BY <1>1, <1>4, NetSame
  <1>6. Keyed' /\ \A c \in Conn : Waiting(c)'
    BY <1>1, TablesSame, WaitingSame
  <1>7. ASSUME NEW t \in Transfer, t # s, out'[t] = out[t] PROVE Sound(t)'
    <2>1. TimerKept(t)
      BY <1>3, <1>7 DEF TimerKept
    <2>2. Calm(t)
      BY <1>1, <1>2, <1>7, <2>1, Aside DEF Sound
    <2> QED
      BY <1>5, <2>2, SoundKept
  <1>8. CASE crashed' = TRUE /\ UNCHANGED <<out, io>>
    <2>1. Sound(s)'
      <3>1. pc[s] = "started"
        BY <1>1 DEF Sound, TimerOK
      <3>2. Stage(s)' /\ TimerOK(s)'
        BY <1>1, <3>1 DEF Stage, Early, Before, Silent, TimerOK
      <3>3. Leaving(s)' /\ FlowOK(s)'
        BY <1>1, <1>2, <1>8 DEF Leaving, FlowOK, Live, Mapped, Ended
      <3>4. Sending(s)'
        BY <1>1 DEF Sound, Sending, netVars
      <3>5. OutOK(s)'
        <4>1. ~Repeated(s)
          BY <1>1 DEF Repeated
        <4> QED
          BY <1>1, <1>8, <4>1 DEF Sound, OutOK
      <3> QED
        BY <3>2, <3>3, <3>4, <3>5 DEF Sound
    <2> QED
      BY <1>6, <1>7, <1>8, <2>1
  <1>9. CASE cancel_handler(s, "timeout", <<>>) /\ UNCHANGED crashed
    <2>1. out \in [Transfer -> Seq(Event)]
      BY DEF Inv, OutputOK
    <2>2. /\ out'[s] = Append(out[s], Cancel("timeout"))
          /\ \A t \in Transfer : t # s => out'[t] = out[t]
          /\ io' = <<Unregister(s)>> \o <<>>
      BY <1>9, <2>1 DEF cancel_handler, Write
    <2>3. io' # <<>> /\ Head(io') = Unregister(s)
      <3>1. Unregister(s) \in Task /\ <<>> \in Seq(Task)
        BY DEF Unregister, Task
      <3> HIDE DEF Unregister
      <3> QED
        BY <2>2, <3>1
    <2>4. Sound(s)'
      <3>1. CASE m_sid2ss[SidOf[s]] # s /\ Ended(s)
        BY <1>1, <1>3, <2>2, <3>1, RepeatedSound DEF netVars
      <3>2. CASE m_sid2ss[SidOf[s]] # s /\ ~Ended(s)
        BY <1>1, <1>3, <2>2, <3>2, ForgottenSound DEF netVars
      <3>3. CASE m_sid2ss[SidOf[s]] = s
        <4>1. Cancel("timeout") \in Event /\ Cancel("timeout").op = "cancel"
          BY DEF Cancel, Event, Why
        <4>2. OutOK(s)' /\ Ended(s)'
          BY <1>1, <1>2, <2>2, <3>3, <4>1, OneMore DEF Sound
        <4>3. pc'[s] = "started"
          BY <1>1 DEF Sound, TimerOK
        <4>4. Stage(s)' /\ TimerOK(s)'
          BY <4>3 DEF Stage, Early, Before, Silent, TimerOK
        <4>5. Leaving(s)' /\ FlowOK(s)'
          BY <2>3, <4>2 DEF Leaving, Gone, Unregister, Erase, FlowOK, Live
        <4>6. Sending(s)'
          BY <1>1 DEF Sound, Sending, netVars
        <4> QED
          BY <4>2, <4>4, <4>5, <4>6 DEF Sound
      <3> QED
        BY <3>1, <3>2, <3>3
    <2> QED
      BY <1>6, <1>7, <2>2, <2>4
  <1> QED
    BY <1>8, <1>9 DEF timeout_cb

LEMMA CancelNextStream ==
    ASSUME StreamsApart, Inv, StreamInv, cancel_next
    PROVE  StreamInv'
  <1> USE DEF StreamInv
  <1>1. /\ io # <<>> /\ Head(io).call = "cancel_handler" /\ Head(io) \in Task
        /\ Tail(io) \in Seq(Task)
        /\ UNCHANGED <<netVars, pc, mapVars, m_timer, headers>>
    BY DEF cancel_next, Inv, OutputOK
  <1>2. m_sid2ss' = m_sid2ss
    BY <1>1 DEF mapVars
  <1>3. PICK x \in Sid : x = Head(io).arg
    BY <1>1 DEF Task
  <1>4. \A t \in Transfer : ~(m_sid2ss[SidOf[t]] = t /\ Ended(t))
    <2> SUFFICES ASSUME NEW t \in Transfer, m_sid2ss[SidOf[t]] = t, Ended(t) PROVE FALSE
      OBVIOUS
    <2>1. Head(io) \in {Unregister(t), Erase(t)}
      BY EndedLeaving
    <2> QED
      BY <1>1, <2>1 DEF Unregister, Erase
  <1>5. \A t \in Transfer : TimerKept(t)
    BY <1>1, <1>2, TimerSame
  <1>6. crashed => crashed'
    BY DEF cancel_next
  <1>7. \A t \in Transfer : Still(t) /\ Carried(t)
    BY <1>1, <1>6, NetSame
  <1>8. CASE m_sid2ss[x] = None
    <2>1. UNCHANGED <<out, io>>
      BY <1>3, <1>8 DEF cancel_next, Inv, TablesOK
    <2>2. ASSUME NEW t \in Transfer PROVE Sound(t)'
      <3>1. Calm(t)
        BY <1>1, <1>2, <1>4, <1>5, <2>1, Aside DEF Sound
      <3> QED
        BY <1>7, <3>1, SoundKept
    <2> QED
      BY <1>1, <1>2, <2>2, TablesSame, WaitingSame
  <1>9. CASE m_sid2ss[x] # None
    <2>1. PICK s \in Transfer : s = m_sid2ss[x]
      BY <1>9 DEF Inv, TablesOK
    <2>2. m_sid2ss[SidOf[s]] = s
      BY <1>9, <2>1 DEF Keyed
    <2>3. cancel_handler(s, "terminated", Tail(io)) /\ UNCHANGED crashed
      BY <1>3, <1>9, <2>1 DEF cancel_next
    <2>4. "terminated" \in Why
      BY DEF Why
    <2>5. Keyed' /\ \A t \in Transfer : Sound(t)'
      BY <1>1, <1>4, <1>5, <1>7, <2>2, <2>3, <2>4, CancelStream DEF netVars
    <2> QED
      BY <1>1, <2>5, WaitingSame
  <1> QED
    BY <1>8, <1>9

\* The loss of a connection, and libf2f's report of it.
LEMMA LostStream ==
    ASSUME StreamsApart, Inv, StreamInv, NEW c \in Conn, Drop(c) \/ connection_terminated(c)
    PROVE  StreamInv'
  <1> USE DEF StreamInv
  <1>1. UNCHANGED <<adaptor, pc, mapVars, m_timer, headers, out, crashed>>
    BY DEF Drop, connection_terminated
  <1>2. m_sid2ss' = m_sid2ss
    BY <1>1 DEF mapVars
  <1>3. /\ link \in [Conn -> {"ready", "lost", "closed"}]
        /\ inbox \in [Conn -> Seq(SidMessage)] /\ requests \in [Conn -> Seq(Transfer)]
    BY DEF Inv, NetOK
  <1>4. /\ link'[c] # "ready" /\ inbox'[c] = <<>>
        /\ requests'[c] = <<>> \/ requests'[c] = requests[c]
        /\ \A d \in Conn : d # c => /\ link'[d] = link[d] /\ inbox'[d] = inbox[d]
                                    /\ requests'[d] = requests[d]
    <2>1. CASE Drop(c)
      BY <1>3, <2>1 DEF Drop
    <2>2. CASE connection_terminated(c)
      <3>1. inbox[c] = <<>>
        BY <2>2 DEF connection_terminated, Waiting
      <3> QED
        BY <1>3, <2>2, <3>1 DEF connection_terminated
    <2> QED
      BY <2>1, <2>2
  <1>5. UNCHANGED io \/ Idle
    BY DEF Drop, connection_terminated
  <1>6. ASSUME NEW t \in Transfer PROVE Sound(t)'
    <2>1. TimerKept(t)
      BY <1>1, <1>2, TimerSame
    <2>2. UNCHANGED io \/ ~(m_sid2ss[SidOf[t]] = t /\ Ended(t))
      BY <1>5 DEF Sound, Leaving, Idle, Mapped, Gone
    <2>3. Calm(t)
      BY <1>1, <1>2, <2>1, <2>2, Aside DEF Sound
    <2>4. ConnOf[t] \in Conn
      BY Types
    <2>5. Still(t) /\ Carried(t)
      BY <1>1, <1>4, <2>4 DEF Still, Carried
    <2> QED
      BY <2>3, <2>5, SoundKept
  <1>7. ASSUME NEW d \in Conn PROVE Waiting(d)'
    <2>1. CASE d = c
      BY <1>1, <1>4, <2>1 DEF Waiting
    <2>2. CASE d # c
      BY <1>1, <1>4, <2>2 DEF Waiting
    <2> QED
      BY <2>1, <2>2
  <1> QED
    BY <1>2, <1>6, <1>7, TablesSame

-----------------------------------------------------------------------------
(* The messages of the peers.                                              *)

LEMMA Shorter ==
    ASSUME NEW S, NEW q \in Seq(S), q # <<>>
    PROVE  /\ Head(q) = q[1] /\ 1 \in DOMAIN q /\ Head(q) \in S /\ Tail(q) \in Seq(S)
           /\ \A i \in DOMAIN Tail(q) : i + 1 \in DOMAIN q /\ Tail(q)[i] = q[i + 1] /\ i \in Int
  OBVIOUS

\* The step that reads m from the connection c.
Reads(c, m) ==
    /\ Idle /\ inbox[c] # <<>> /\ m = Head(inbox[c])
    /\ inbox' = [inbox EXCEPT ![c] = Tail(@)]
    /\ UNCHANGED <<link, requests, adaptor, pc, mapVars>>

LEMMA ReadStream ==
    ASSUME Inv, StreamInv, NEW c \in Conn, NEW m, Reads(c, m)
    PROVE  /\ m \in SidMessage /\ Keyed'
           /\ \A t \in Transfer : Still(t)
           /\ \A t \in Transfer : SidOf[t] # m.sid => Carried(t)
           /\ \A d \in Conn : Waiting(d)'
           /\ inbox'[c] = Tail(inbox[c])
  <1> USE DEF StreamInv
  <1> DEFINE box == inbox[c]
  <1>1. /\ box \in Seq(SidMessage) /\ box # <<>> /\ m = Head(box)
        /\ inbox \in [Conn -> Seq(SidMessage)]
    BY DEF Inv, NetOK, Reads
  <1>2. inbox'[c] = Tail(box) /\ \A d \in Conn : d # c => inbox'[d] = inbox[d]
    BY <1>1 DEF Reads
  <1>3. /\ UNCHANGED <<link, requests, adaptor, m_sid2ss>> /\ ~crashed
    BY DEF Reads, mapVars, Idle
  <1>4. /\ m \in SidMessage /\ m = box[1] /\ 1 \in DOMAIN box
        /\ \A i \in DOMAIN Tail(box) : i + 1 \in DOMAIN box /\ Tail(box)[i] = box[i + 1]
    BY <1>1, Shorter
  <1>5. ASSUME NEW t \in Transfer PROVE Still(t)
    <2>1. ConnOf[t] \in Conn
      BY Types
    <2>2. CASE ConnOf[t] = c
      <3>1. (\A i \in DOMAIN box : box[i].sid # SidOf[t])
            => \A i \in DOMAIN Tail(box) : Tail(box)[i].sid # SidOf[t]
        BY <1>4
      <3> QED
        BY <1>2, <1>3, <2>2, <3>1 DEF Still
    <2>3. CASE ConnOf[t] # c
      BY <1>2, <1>3, <2>1, <2>3 DEF Still
    <2> QED
      BY <2>2, <2>3
  <1>6. ASSUME NEW t \in Transfer, SidOf[t] # m.sid PROVE Carried(t)
    <2>1. ConnOf[t] \in Conn
      BY Types
    <2>2. CASE ConnOf[t] = c
      <3>1. ~InStream(t, m)
        BY <1>6 DEF InStream
      <3>2. Same(t, box, Tail(box))
        BY <1>1, <3>1, SameTail
      <3> HIDE DEF box
      <3> QED
        BY <1>2, <1>3, <2>2, <3>2 DEF Carried, Same, box
    <2>3. CASE ConnOf[t] # c
      BY <1>2, <1>3, <2>1, <2>3 DEF Carried
    <2> QED
      BY <2>2, <2>3
  <1>7. ASSUME NEW d \in Conn PROVE Waiting(d)'
    <2>1. CASE d = c
      <3>1. link[c] = "ready"
        BY <1>1 DEF Waiting
      <3>2. \A i \in DOMAIN inbox'[c] : \E s \in Transfer :
                ConnOf[s] = c /\ SidOf[s] = inbox'[c][i].sid
        BY <1>2, <1>4 DEF Waiting
      <3> QED
        BY <1>3, <2>1, <3>1, <3>2 DEF Waiting
    <2>2. CASE d # c
      BY <1>2, <1>3, <2>2 DEF Waiting
    <2> QED
      BY <2>1, <2>2
  <1> QED
    BY <1>2, <1>3, <1>4, <1>5, <1>6, <1>7, TablesSame

\* What is read is for the transfer that m_sid2ss has for it, over its
\* connection; of its stream it is the next part.
LEMMA ReadOwn ==
    ASSUME StreamsApart, Inv, StreamInv, NEW c \in Conn, NEW m, Reads(c, m),
           NEW s \in Transfer, m_sid2ss[m.sid] = s
    PROVE  /\ SidOf[s] = m.sid /\ ConnOf[s] = c /\ m_sid2ss[SidOf[s]] = s
           /\ ~crashed /\ ~Ended(s) /\ link[c] = "ready"
           /\ InStream(s, m) => /\ At(m) = NextTold(s)
                                /\ Flow(s, Tail(inbox[c]), NextTold(s) + 1, LastSent(s))
  <1> USE DEF StreamInv
  <1>1. /\ inbox[c] \in Seq(SidMessage) /\ inbox[c] # <<>> /\ m = Head(inbox[c])
        /\ ~crashed /\ io = <<>>
    BY DEF Inv, NetOK, Reads, Idle
  <1>2. m = inbox[c][1] /\ 1 \in DOMAIN inbox[c] /\ m \in SidMessage
    BY <1>1, Shorter
  <1>3. m.sid \in Sid
    BY <1>2 DEF SidMessage
  <1>4. SidOf[s] = m.sid
    BY <1>3, ConstAssumption DEF Keyed
  <1>5. PICK r \in Transfer : ConnOf[r] = c /\ SidOf[r] = m.sid
    BY <1>2 DEF Waiting
  <1>6. ConnOf[s] = c
    BY <1>4, <1>5 DEF StreamsApart
  <1>7. link[c] = "ready"
    BY <1>1 DEF Waiting
  <1>8. ~Ended(s)
    BY <1>1, <1>4 DEF Sound, Leaving, Mapped, Gone
  <1>9. Flow(s, inbox[c], NextTold(s), LastSent(s))
    BY <1>1, <1>4, <1>6, <1>7, <1>8 DEF Sound, FlowOK, Live, Mapped
  <1>10. NextTold(s) \in Int /\ LastSent(s) \in Int
    BY Types
  <1>11. InStream(s, m) => /\ At(m) = NextTold(s)
                           /\ Flow(s, Tail(inbox[c]), NextTold(s) + 1, LastSent(s))
    BY <1>1, <1>9, <1>10, FlowHead
  <1> QED
    BY <1>1, <1>4, <1>6, <1>7, <1>8, <1>11

\* A message for nobody, and one that is fatal.
LEMMA IgnoredStream ==
    ASSUME Inv, StreamInv, NEW c \in Conn, NEW m, Reads(c, m),
           UNCHANGED <<m_timer, headers, out, io>>,
           m_sid2ss[m.sid] = None \/ crashed'
    PROVE  StreamInv'
  <1> USE DEF StreamInv
  <1>1. m_sid2ss' = m_sid2ss /\ pc' = pc
    BY DEF Reads, mapVars
  <1>2. ASSUME NEW t \in Transfer PROVE Sound(t)'
    <2>1. TimerKept(t)
      BY <1>1, TimerSame
    <2>2. Calm(t)
      BY <1>1, <2>1, Aside DEF Sound
    <2>3. Still(t)
      BY ReadStream
    <2>4. Carried(t)
      <3>1. CASE SidOf[t] # m.sid
        BY <3>1, ReadStream
      <3>2. CASE SidOf[t] = m.sid
        BY <1>1, <3>2, ConstAssumption DEF Carried
      <3> QED
        BY <3>1, <3>2
    <2> QED
      BY <2>2, <2>3, <2>4, SoundKept
  <1> QED
    BY <1>2, ReadStream

\* s is told something, or gets its headers; the others are not concerned.
LEMMA OneReads ==
    ASSUME StreamsApart, Inv, StreamInv, NEW c \in Conn, NEW m, Reads(c, m),
           NEW s \in Transfer, m_sid2ss[m.sid] = s,
           \A t \in Transfer : t # s => /\ out'[t] = out[t] /\ m_timer'[t] = m_timer[t]
                                        /\ t \in headers' <=> t \in headers,
           NEW t \in Transfer, t # s
    PROVE  Sound(t)'
  <1> USE DEF StreamInv
  <1>1. m_sid2ss' = m_sid2ss /\ pc' = pc /\ Idle
    BY DEF Reads, mapVars
  <1>2. TimerKept(t)
    BY DEF TimerKept
  <1>3. ~(m_sid2ss[SidOf[t]] = t /\ Ended(t))
    BY <1>1 DEF Sound, Leaving, Idle, Mapped, Gone
  <1>4. Calm(t)
    BY <1>1, <1>2, <1>3, Aside DEF Sound
  <1>5. SidOf[s] = m.sid
    BY ReadOwn
  <1>6. SidOf[t] # m.sid
    BY <1>5 DEF StreamsApart
  <1> QED
    BY <1>4, <1>6, ReadStream, SoundKept

\* A chunk, or the end.
LEMMA DataStream ==
    ASSUME StreamsApart, Inv, StreamInv, NEW c \in Conn, NEW m, Reads(c, m),
           NEW s \in Transfer, m_sid2ss[m.sid] = s, handle_siddata(m)
    PROVE  /\ StreamInv'
           /\ s \in headers
           /\ ~EndOfStream(m) => m.chunk = Len(out[s]) + 1
           /\ EndOfStream(m) => Len(out[s]) = Chunks
  <1> USE DEF StreamInv
  <1>1. /\ SidOf[s] = m.sid /\ ConnOf[s] = c /\ m_sid2ss[SidOf[s]] = s
        /\ ~crashed /\ ~Ended(s) /\ link[c] = "ready"
        /\ InStream(s, m) => /\ At(m) = NextTold(s)
                             /\ Flow(s, Tail(inbox[c]), NextTold(s) + 1, LastSent(s))
    BY ReadOwn
  <1>2. /\ Keyed' /\ Still(s) /\ \A d \in Conn : Waiting(d)'
        /\ inbox'[c] = Tail(inbox[c]) /\ m \in SidMessage
    BY ReadStream
  <1>3. m.type = "SIDDATA" /\ m.chunk \in 0..Chunks
    BY <1>2 DEF handle_siddata, SidMessage
  <1>4. /\ At(m) = NextTold(s)
        /\ Flow(s, Tail(inbox[c]), NextTold(s) + 1, LastSent(s))
    BY <1>1, <1>3 DEF InStream
  <1>5. Len(out[s]) \in Nat /\ out[s] \in Seq(Event)
    BY Types
  <1>6. s \in headers /\ At(m) = Len(out[s]) + 1
    BY <1>3, <1>4, ConstAssumption DEF At, NextTold
  <1>7. /\ ~EndOfStream(m) => m.chunk = Len(out[s]) + 1 /\ Content(m.chunk) \in Event
        /\ EndOfStream(m) => Len(out[s]) = Chunks
        /\ Finish \in Event
    BY <1>3, <1>5, <1>6, ConstAssumption DEF At, EndOfStream, Content, Finish, Event
  <1>8. UNCHANGED <<m_timer, headers, crashed>> /\ s # None
    BY ConstAssumption DEF handle_siddata
  <1>9. UNCHANGED <<link, adaptor, pc, m_sid2ss>>
    BY DEF Reads, mapVars
  <1>10. out \in [Transfer -> Seq(Event)]
    BY DEF Inv, OutputOK
  <1>11. TimerKept(s)
    BY <1>8, <1>9, TimerSame
  <1>12. ASSUME NEW t \in Transfer, t # s PROVE Sound(t)'
    <2>1. \A r \in Transfer : r # s => /\ out'[r] = out[r] /\ m_timer'[r] = m_timer[r]
                                       /\ r \in headers' <=> r \in headers
      BY <1>8, <1>10 DEF handle_siddata, Write
    <2> QED
      BY <1>12, <2>1, OneReads
  <1>13. CASE EndOfStream(m)
    <2>1. out'[s] = Append(out[s], Finish) /\ io' = <<Unregister(s)>>
      BY <1>8, <1>10, <1>13 DEF handle_siddata, Write
    <2>2. io' # <<>> /\ Head(io') = Unregister(s)
      BY <2>1
    <2>3. Finish.op = "finish"
      BY DEF Finish
    <2>4. Sound(s)'
      BY <1>1, <1>2, <1>7, <1>8, <1>9, <1>11, <1>13, <2>1, <2>2, <2>3, EndedSound
    <2> QED
      BY <1>2, <1>6, <1>7, <1>12, <2>4
  <1>14. CASE ~EndOfStream(m)
    <2>1. out'[s] = Append(out[s], Content(m.chunk)) /\ io' = io
      BY <1>8, <1>10, <1>14 DEF handle_siddata, Write
    <2>2. Content(m.chunk).op = "content" /\ Content(m.chunk).chunk = m.chunk
      BY DEF Content
    <2>3. OutOK(s)' /\ ~Ended(s)'
      BY <1>1, <1>6, <1>7, <1>8, <1>14, <2>1, <2>2, OneMore DEF Sound
    <2>4. Stage(s)'
      <3>1. pc[s] \notin Silent
        BY <1>6 DEF Sound, Stage, Unheard
      <3> QED
        BY <1>9, <3>1 DEF Stage, Early, Before, Silent
    <2>5. TimerOK(s)'
      BY <1>9, <1>11 DEF Sound, TimerOK, TimerKept
    <2>6. Leaving(s)' /\ Sending(s)'
      BY <1>9, <2>3 DEF Leaving, Sound, Sending
    <2>7. FlowOK(s)'
      <3>1. Len(out'[s]) = Len(out[s]) + 1
        BY <1>5, <1>7, <1>14, <2>1, Appended
      <3>2. NextTold(s)' = NextTold(s) + 1 /\ LastSent(s)' = LastSent(s)
        BY <1>6, <1>8, <1>9, <3>1 DEF NextTold, LastSent
      <3> QED
        BY <1>1, <1>2, <1>4, <3>2 DEF FlowOK
    <2> QED
      BY <1>2, <1>6, <1>7, <1>12, <1>14, <2>3, <2>4, <2>5, <2>6, <2>7 DEF Sound
  <1> QED
    BY <1>13, <1>14

\* The headers, and a status that ends the transfer.
LEMMA HeadersStream ==
    ASSUME StreamsApart, Inv, StreamInv, NEW c \in Conn, NEW m, Reads(c, m),
           NEW s \in Transfer, m_sid2ss[m.sid] = s, handle_sidheaders(m), ~crashed'
    PROVE  /\ StreamInv'
           /\ m.status = 200 => s \notin headers /\ out[s] = <<>>
  <1> USE DEF StreamInv
  <1>1. /\ SidOf[s] = m.sid /\ ConnOf[s] = c /\ m_sid2ss[SidOf[s]] = s
        /\ ~crashed /\ ~Ended(s) /\ link[c] = "ready"
        /\ InStream(s, m) => /\ At(m) = NextTold(s)
                             /\ Flow(s, Tail(inbox[c]), NextTold(s) + 1, LastSent(s))
    BY ReadOwn
  <1>2. /\ Keyed' /\ \A t \in Transfer : Still(t) /\ (SidOf[t] # m.sid => Carried(t))
        /\ \A d \in Conn : Waiting(d)'
        /\ inbox'[c] = Tail(inbox[c]) /\ m \in SidMessage
    BY ReadStream
  <1>3. /\ m.type = "SIDHEADERS" /\ s # None
        /\ m_timer' = [m_timer EXCEPT ![s] = IF @ = "armed" THEN "off" ELSE @]
        /\ \/ m.status = 200 /\ headers' = headers \cup {s} /\ UNCHANGED <<out, io>>
           \/ m.status # 200 /\ cancel_handler(s, "status", <<>>) /\ UNCHANGED headers
        /\ UNCHANGED crashed
    BY <1>1, ConstAssumption DEF handle_sidheaders
  <1>4. UNCHANGED <<link, adaptor, pc, m_sid2ss>> /\ UNCHANGED mapVars /\ Idle
    BY DEF Reads, mapVars
  <1>5. out \in [Transfer -> Seq(Event)] /\ m_timer \in Timers
    BY DEF Inv, OutputOK, ThreadsOK
  <1>6. /\ m_timer'[s] # "armed" /\ (m_timer'[s] = m_timer[s] \/ m_timer'[s] = "off")
        /\ m_timer'[s] = m_timer[s] \/ m_timer[s] = "armed"
        /\ \A t \in Transfer : t # s => m_timer'[t] = m_timer[t]
    BY <1>3, <1>5 DEF Timers
  <1>7. \A t \in Transfer : TimerKept(t)
    BY <1>6 DEF TimerKept
  <1>8. CASE m.status = 200
    <2>1. /\ At(m) = NextTold(s) /\ At(m) = 0
          /\ Flow(s, Tail(inbox[c]), NextTold(s) + 1, LastSent(s))
      BY <1>1, <1>3, <1>8 DEF InStream, At
    <2>2. Len(out[s]) \in Nat /\ DOMAIN out[s] = 1..Len(out[s]) /\ out[s] \in Seq(Event)
      BY Types
    <2>3. s \notin headers
      BY <2>1, <2>2 DEF NextTold
    <2>4. 1 \notin DOMAIN out[s]
      BY <1>1, <2>3 DEF Sound, OutOK, Ended
    <2>5. Len(out[s]) = 0
      BY <2>2, <2>4
    <2>6. out[s] = <<>>
      BY <2>2, <2>5
    <2>7. headers' = headers \cup {s} /\ UNCHANGED <<out, io>>
      BY <1>3, <1>8
    <2>8. Stage(s)'
      <3>1. inbox[c] \in Seq(SidMessage) /\ inbox[c] # <<>> /\ m = Head(inbox[c])
        BY DEF Inv, NetOK, Reads
      <3>2. 1 \in DOMAIN inbox[c] /\ inbox[c][1].sid = SidOf[s]
        BY <1>1, <3>1, Shorter
      <3>3. pc[s] \notin Silent
        BY <1>1, <3>2 DEF Sound, Stage, Unheard
      <3> QED
        BY <1>4, <3>3 DEF Stage, Early, Before, Silent
    <2>9. TimerOK(s)'
      BY <1>4, <1>7 DEF Sound, TimerOK, TimerKept
    <2>10. Leaving(s)' /\ Sending(s)' /\ OutOK(s)'
      BY <1>1, <1>4, <2>6, <2>7 DEF Leaving, Sound, Sending, OutOK, Ended, Mapped
    <2>11. FlowOK(s)'
      <3>1. NextTold(s)' = NextTold(s) + 1 /\ LastSent(s)' = LastSent(s)
        BY <1>4, <2>1, <2>5, <2>7 DEF NextTold, LastSent
      <3> QED
        BY <1>1, <1>2, <2>1, <3>1 DEF FlowOK
    <2>12. Sound(s)'
      BY <2>8, <2>9, <2>10, <2>11 DEF Sound
    <2>13. ASSUME NEW t \in Transfer, t # s PROVE Sound(t)'
      <3>1. \A r \in Transfer : r # s => /\ out'[r] = out[r] /\ m_timer'[r] = m_timer[r]
                                         /\ r \in headers' <=> r \in headers
        BY <1>6, <2>7
      <3> QED
        BY <2>13, <3>1, OneReads
    <2> QED
      BY <1>2, <2>3, <2>6, <2>12, <2>13
  <1>9. CASE m.status # 200
    <2>1. cancel_handler(s, "status", <<>>) /\ UNCHANGED headers
      BY <1>3, <1>9
    <2>2. \A t \in Transfer : ~(m_sid2ss[SidOf[t]] = t /\ Ended(t))
      BY <1>4 DEF Sound, Leaving, Idle, Mapped, Gone
    <2>3. Still(s) /\ \A t \in Transfer : t # s => Still(t) /\ Carried(t)
      BY <1>1, <1>2 DEF StreamsApart
    <2>4. "status" \in Why /\ <<>> \in Seq(Task)
      BY DEF Why
    <2>5. m_sid2ss[SidOf[s]] = s /\ UNCHANGED <<adaptor, pc, mapVars, headers, crashed>>
          /\ \A t \in Transfer : TimerKept(t)
      BY <1>1, <1>3, <1>4, <1>7, <2>1
    <2>6. \A t \in Transfer : Sound(t)'
      BY <2>1, <2>2, <2>3, <2>4, <2>5, CancelStream
    <2> QED
      BY <1>2, <1>9, <2>6
  <1> QED
    BY <1>8, <1>9

\* SIDFAIL.
LEMMA FailStream ==
    ASSUME StreamsApart, Inv, StreamInv, NEW c \in Conn, NEW m, Reads(c, m),
           NEW s \in Transfer, m_sid2ss[m.sid] = s, handle_sidfail(m)
    PROVE  StreamInv'
  <1> USE DEF StreamInv
  <1>1. SidOf[s] = m.sid /\ m_sid2ss[SidOf[s]] = s
    BY ReadOwn
  <1>2. /\ \A t \in Transfer : Still(t) /\ (SidOf[t] # m.sid => Carried(t))
        /\ \A d \in Conn : Waiting(d)'
    BY ReadStream
  <1>3. cancel_handler(s, "fail", <<>>) /\ UNCHANGED <<m_timer, headers, crashed>>
    BY ConstAssumption DEF handle_sidfail
  <1>4. UNCHANGED <<adaptor, pc, m_sid2ss>> /\ UNCHANGED mapVars /\ Idle
    BY DEF Reads, mapVars
  <1>5. \A t \in Transfer : TimerKept(t)
    BY <1>3, <1>4, TimerSame
  <1>6. \A t \in Transfer : ~(m_sid2ss[SidOf[t]] = t /\ Ended(t))
    BY <1>4 DEF Sound, Leaving, Idle, Mapped, Gone
  <1>7. Still(s) /\ \A t \in Transfer : t # s => Still(t) /\ Carried(t)
    BY <1>1, <1>2 DEF StreamsApart
  <1>8. "fail" \in Why /\ <<>> \in Seq(Task)
    BY DEF Why
  <1>9. Keyed' /\ \A t \in Transfer : Sound(t)'
    BY <1>1, <1>3, <1>4, <1>5, <1>6, <1>7, <1>8, CancelStream
  <1> QED
    BY <1>2, <1>9

LEMMA MessageStream ==
    ASSUME StreamsApart, Inv, StreamInv, NEW c \in Conn, message_received(c)
    PROVE  StreamInv'
  <1>1. PICK m : m = Head(inbox[c])
    OBVIOUS
  <1>2. /\ Reads(c, m)
        /\ handle_siddata(m) \/ handle_sidheaders(m) \/ handle_sidfail(m) \/ Vanishes(m)
    BY <1>1 DEF message_received, Reads
  <1>3. m.sid \in Sid
    BY <1>2, ReadStream DEF SidMessage
  <1>4. m_sid2ss[m.sid] \in Transfer \cup {None}
    BY <1>3 DEF Inv, TablesOK
  <1>5. CASE m_sid2ss[m.sid] = None
    <2>1. UNCHANGED <<m_timer, headers, out, io>>
      BY <1>2, <1>5 DEF handle_siddata, handle_sidheaders, handle_sidfail, Vanishes
    <2> QED
      BY <1>2, <1>5, <2>1, IgnoredStream
  <1>6. ASSUME NEW s \in Transfer, m_sid2ss[m.sid] = s
        PROVE  StreamInv'
    <2>1. CASE handle_sidheaders(m) /\ crashed'
      <3>1. ~crashed
        BY <1>2 DEF Reads, Idle
      <3>2. UNCHANGED <<m_timer, headers, out, io>>
        BY <2>1, <3>1 DEF handle_sidheaders
      <3> QED
        BY <1>2, <2>1, <3>2, IgnoredStream
    <2>2. CASE handle_sidheaders(m) /\ ~crashed'
      BY <1>2, <1>6, <2>2, HeadersStream
    <2>3. CASE Vanishes(m)
      BY <1>2, <2>3, IgnoredStream DEF Vanishes
    <2> QED
      BY <1>2, <1>6, <2>1, <2>2, <2>3, DataStream, FailStream
  <1> QED
    BY <1>4, <1>5, <1>6

-----------------------------------------------------------------------------
(* The peers.                                                              *)

\* A step that is none of this node's.
LEMMA CalmNode ==
    ASSUME NEW t \in Transfer, Sound(t),
           UNCHANGED <<pc, mapVars, m_timer, headers, out, io>>
    PROVE  Calm(t)
  <1>1. UNCHANGED m_sid2ss
    BY DEF mapVars
  <1>2. TimerKept(t)
    BY <1>1, TimerSame
  <1> QED
    BY <1>1, <1>2, Aside DEF Sound

\* Everything about s but its stream is as before, if s was asked for.
LEMMA WriterSound ==
    ASSUME NEW s \in Transfer, Sound(s), pc[s] \notin Silent,
           UNCHANGED <<link, pc, mapVars, m_timer, headers, out, io, crashed>>,
           Sending(s)', FlowOK(s)'
    PROVE  Sound(s)'
  <1>1. UNCHANGED m_sid2ss
    BY DEF mapVars
  <1>2. Stage(s)'
    BY DEF Stage, Silent, Before
  <1>3. TimerOK(s)' /\ Leaving(s)' /\ OutOK(s)'
    BY <1>1 DEF Sound, TimerOK, Leaving, Gone, Unregister, Erase, OutOK, Repeated, Mapped, Ended
  <1> QED
    BY <1>2, <1>3 DEF Sound

\* What box2 holds was in box, or is of s.
Grows(s, box, box2) ==
    /\ \A i \in DOMAIN box2 :
          \/ box2[i].sid = SidOf[s]
          \/ \E j \in DOMAIN box : box2[i] = box[j]
    /\ \A t \in Transfer : SidOf[t] # SidOf[s] => Same(t, box, box2)
    /\ box2 \in Seq(SidMessage)

LEMMA GrowsSame ==
    ASSUME NEW s \in Transfer, NEW box \in Seq(SidMessage)
    PROVE  Grows(s, box, box)
  BY DEF Grows, Same

LEMMA GrowsMore ==
    ASSUME NEW s \in Transfer, NEW box, NEW box2, Grows(s, box, box2),
           NEW m \in SidMessage, m.sid = SidOf[s]
    PROVE  Grows(s, box, Append(box2, m))
  <1>1. box2 \in Seq(SidMessage)
    BY DEF Grows
  <1>2. /\ Append(box2, m) \in Seq(SidMessage)
        /\ \A i \in DOMAIN Append(box2, m) :
              \/ i \in DOMAIN box2 /\ Append(box2, m)[i] = box2[i]
              \/ Append(box2, m)[i] = m
    BY <1>1, Longer
  <1>3. ASSUME NEW t \in Transfer, SidOf[t] # SidOf[s]
        PROVE  Same(t, box, Append(box2, m))
    <2>1. Same(t, box2, Append(box2, m))
      BY <1>1, <1>3, SameAppend
    <2> QED
      BY <1>3, <2>1 DEF Grows, Same
  <1> QED
    BY <1>2, <1>3 DEF Grows

\* What a peer's writing leaves alone.
LEMMA WriteStream ==
    ASSUME StreamsApart, Inv, StreamInv, NEW s \in Transfer,
           \/ adaptor[s].state # "none" /\ requests'[ConnOf[s]] = requests[ConnOf[s]]
           \/ /\ requests[ConnOf[s]] # <<>> /\ Head(requests[ConnOf[s]]) = s
              /\ requests'[ConnOf[s]] = Tail(requests[ConnOf[s]]),
           \A c \in Conn : c # ConnOf[s] => inbox'[c] = inbox[c] /\ requests'[c] = requests[c],
           \A t \in Transfer : t # s => adaptor'[t] = adaptor[t],
           Grows(s, inbox[ConnOf[s]], inbox'[ConnOf[s]]),
           link[ConnOf[s]] # "ready" => inbox'[ConnOf[s]] = inbox[ConnOf[s]],
           UNCHANGED <<link, pc, mapVars, m_timer, headers, out, io, crashed>>,
           Sound(s)'
    PROVE  StreamInv'
  <1> USE DEF StreamInv
  <1> DEFINE k == ConnOf[s]
             q == requests[k]
             r == requests'[k]
  <1>1. UNCHANGED m_sid2ss
    BY DEF mapVars
  <1>2. k \in Conn /\ q \in Seq(Transfer) /\ inbox[k] \in Seq(SidMessage)
    BY Types
  <1>3. /\ \A i \in DOMAIN r : \E j \in DOMAIN q : r[i] = q[j]
        /\ \A i \in DOMAIN r : r[i] # s
        /\ \A i, j \in DOMAIN r : r[i] = r[j] => i = j
    <2>1. Waiting(k)
      BY <1>2
    <2>2. CASE adaptor[s].state # "none" /\ r = q
      BY <2>1, <2>2 DEF Waiting
    <2>3. CASE q # <<>> /\ Head(q) = s /\ r = Tail(q)
      <3>1. r = Tail(q) /\ q # <<>> /\ Head(q) = s
        BY <2>3
      <3>2. /\ q[1] = s /\ 1 \in DOMAIN q
            /\ \A i \in DOMAIN r : i + 1 \in DOMAIN q /\ r[i] = q[i + 1] /\ i \in Int
            /\ \A i \in DOMAIN r : i + 1 # 1
        BY <1>2, <3>1, Shorter
      <3>3. \A i, j \in DOMAIN q : q[i] = q[j] => i = j
        BY <2>1 DEF Waiting
      <3> HIDE DEF q, r
      <3> QED
        BY <3>2, <3>3
    <2> QED
      BY <2>2, <2>3
  <1>4. ASSUME NEW t \in Transfer, t # s PROVE Sound(t)'
    <2>1. Calm(t)
      BY CalmNode
    <2>2. ConnOf[t] \in Conn /\ SidOf[t] # SidOf[s]
      BY <1>4, Types DEF StreamsApart
    <2>3. CASE ConnOf[t] = k
      <3>1. Same(t, inbox[k], inbox'[k])
        BY <2>2 DEF Grows
      <3>2. Still(t)
        BY <1>3, <1>4, <2>3, <3>1 DEF Still, Same
      <3>3. Carried(t)
        BY <2>3, <3>1 DEF Carried, Same
      <3> QED
        BY <2>1, <3>2, <3>3, SoundKept
    <2>4. CASE ConnOf[t] # k
      <3>1. Still(t) /\ Carried(t)
        BY <1>4, <2>2, <2>4 DEF Still, Carried
      <3> QED
        BY <2>1, <3>1, SoundKept
    <2> QED
      BY <2>3, <2>4
  <1>5. ASSUME NEW c \in Conn PROVE Waiting(c)'
    <2>1. CASE c = k
      <3>1. Waiting(k)
        BY <1>2
      <3>2. \A i \in DOMAIN inbox'[k] : \E t \in Transfer :
                ConnOf[t] = k /\ SidOf[t] = inbox'[k][i].sid
        BY <3>1 DEF Waiting, Grows
      <3>3. \A i \in DOMAIN r : ConnOf[r[i]] = k /\ adaptor[r[i]].state = "none" /\ r[i] \in Transfer
        BY <1>2, <1>3, <3>1 DEF Waiting
      <3>4. \A i \in DOMAIN r : ConnOf[r[i]] = k /\ adaptor'[r[i]].state = "none"
        BY <1>3, <3>3
      <3>5. link'[k] # "ready" => inbox'[k] = <<>>
        BY <3>1 DEF Waiting
      <3> QED
        BY <1>3, <2>1, <3>2, <3>4, <3>5 DEF Waiting
    <2>2. CASE c # k
      <3>1. Waiting(c) /\ inbox'[c] = inbox[c] /\ requests'[c] = requests[c] /\ link' = link
        BY <2>2
      <3>2. \A i \in DOMAIN requests[c] : requests[c][i] # s
        BY <2>2, <3>1 DEF Waiting
      <3>3. requests[c] \in Seq(Transfer)
        BY DEF Inv, NetOK
      <3>4. \A i \in DOMAIN requests[c] : adaptor'[requests[c][i]] = adaptor[requests[c][i]]
        BY <3>2, <3>3
      <3> QED
        BY <3>1, <3>4 DEF Waiting
    <2> QED
      BY <2>1, <2>2
  <1> QED
    BY <1>1, <1>4, <1>5, TablesSame

\* Who is heard of was asked for.
LEMMA Asked ==
    ASSUME NEW s \in Transfer, Sound(s),
           \/ adaptor[s].state # "none"
           \/ requests[ConnOf[s]] # <<>> /\ Head(requests[ConnOf[s]]) = s
              /\ requests[ConnOf[s]] \in Seq(Transfer)
    PROVE  pc[s] \notin Silent
  <1>1. CASE adaptor[s].state # "none"
    BY <1>1 DEF Sound, Stage, Unheard
  <1>2. CASE /\ requests[ConnOf[s]] # <<>> /\ Head(requests[ConnOf[s]]) = s
             /\ requests[ConnOf[s]] \in Seq(Transfer)
    <2>1. requests[ConnOf[s]][1] = s /\ 1 \in DOMAIN requests[ConnOf[s]]
      BY <1>2, Shorter
    <2> QED
      BY <2>1 DEF Sound, Stage, Unheard
  <1> QED
    BY <1>1, <1>2

\* The adaptor of s changes its state, and writes at most a message that is
\* not of the stream.
LEMMA BesideStream ==
    ASSUME StreamsApart, Inv, StreamInv, NEW s \in Transfer,
           pc[s] \notin Silent,
           \/ adaptor[s].state # "none" /\ requests'[ConnOf[s]] = requests[ConnOf[s]]
           \/ /\ requests[ConnOf[s]] # <<>> /\ Head(requests[ConnOf[s]]) = s
              /\ requests'[ConnOf[s]] = Tail(requests[ConnOf[s]]),
           \A c \in Conn : c # ConnOf[s] => requests'[c] = requests[c],
           \A t \in Transfer : t # s => adaptor'[t] = adaptor[t],
           adaptor'[s].m_sentfirst = adaptor[s].m_sentfirst,
           adaptor'[s].chunk = adaptor[s].chunk,
           adaptor'[s].state \in {"done", "late"} \/ ~adaptor[s].m_sentfirst,
           adaptor'[s].state # "none" \/ adaptor'[s] = adaptor[s],
           \/ inbox' = inbox
           \/ \E m \in SidMessage :
                 /\ m.sid = SidOf[s] /\ ~InStream(s, m)
                 /\ inbox' = [inbox EXCEPT ![ConnOf[s]] = Sent(inbox, ConnOf[s], m)],
           UNCHANGED <<link, pc, mapVars, m_timer, headers, out, io, crashed>>
    PROVE  StreamInv'
  <1> USE DEF StreamInv
  <1> DEFINE k == ConnOf[s]
  <1>1. /\ inbox \in [Conn -> Seq(SidMessage)] /\ inbox[k] \in Seq(SidMessage) /\ k \in Conn
    BY Types DEF Inv, NetOK
  <1>2. \/ inbox'[k] = inbox[k]
        \/ \E m \in SidMessage : /\ m.sid = SidOf[s] /\ ~InStream(s, m) /\ link[k] = "ready"
                                 /\ inbox'[k] = Append(inbox[k], m)
    BY <1>1 DEF Sent
  <1>3. Grows(s, inbox[k], inbox'[k])
    <2>1. Grows(s, inbox[k], inbox[k])
      BY <1>1, GrowsSame
    <2>2. ASSUME NEW m \in SidMessage, m.sid = SidOf[s]
          PROVE  Grows(s, inbox[k], Append(inbox[k], m))
      BY <2>1, <2>2, GrowsMore
    <2> QED
      BY <1>2, <2>1, <2>2
  <1>4. link[k] # "ready" => inbox'[k] = inbox[k]
    BY <1>2
  <1>5. Sending(s)'
    BY DEF Sound, Sending
  <1>6. FlowOK(s)'
    <2> SUFFICES ASSUME Live(s)'
                 PROVE  Flow(s, inbox'[k], NextTold(s)', LastSent(s)')
      BY DEF FlowOK, Flow, InStream, At
    <2>1. Live(s)
      BY DEF Live, Mapped, Ended, mapVars
    <2>2. NextTold(s)' = NextTold(s) /\ NextTold(s) \in Int
          /\ LastSent(s)' = LastSent(s) /\ LastSent(s) \in Int
      BY Types DEF NextTold, LastSent
    <2>3. Flow(s, inbox[k], NextTold(s), LastSent(s))
      BY <2>1 DEF Sound, FlowOK
    <2>4. ASSUME NEW m \in SidMessage, ~InStream(s, m)
          PROVE  Flow(s, Append(inbox[k], m), NextTold(s), LastSent(s))
      BY <1>1, <2>2, <2>3, <2>4, FlowBeside
    <2> QED
      BY <1>2, <2>2, <2>3, <2>4
  <1>7. Sound(s)'
    BY <1>5, <1>6, WriterSound
  <1>8. \A c \in Conn : c # k => inbox'[c] = inbox[c]
    BY <1>1
  <1> QED
    BY <1>3, <1>4, <1>7, <1>8, WriteStream

LEMMA PeerRequestStream ==
    ASSUME StreamsApart, Inv, StreamInv, NEW c \in Conn, PeerRequest(c)
    PROVE  StreamInv'
  <1> USE DEF StreamInv
  <1>1. requests[c] \in Seq(Transfer) /\ requests[c] # <<>>
    BY DEF PeerRequest, Inv, NetOK
  <1>2. PICK s \in Transfer : s = Head(requests[c])
    BY <1>1
  <1>3. ConnOf[s] = c /\ adaptor[s].state = "none"
    <2>1. s = requests[c][1] /\ 1 \in DOMAIN requests[c]
      BY <1>1, <1>2, Shorter
    <2> QED
      BY <2>1 DEF Waiting
  <1>4. /\ requests' = [requests EXCEPT ![c] = Tail(@)]
        /\ UNCHANGED <<link, pc, mapVars, m_timer, headers, out, io, crashed>>
        /\ \/ inbox' = inbox
           \/ \E m \in {Header(s, 404), CancelMessage(s)} :
                 inbox' = [inbox EXCEPT ![c] = Sent(inbox, c, m)]
        /\ \/ adaptor' = adaptor
           \/ \E at \in {"open", "done"} : adaptor' = [adaptor EXCEPT ![s].state = at]
    BY <1>2 DEF PeerRequest
  <1>5. requests'[c] = Tail(requests[c]) /\ \A d \in Conn : d # c => requests'[d] = requests[d]
    BY <1>4 DEF Inv, NetOK
  <1>6. pc[s] \notin Silent /\ ~adaptor[s].m_sentfirst
    BY <1>1, <1>2, <1>3, Asked DEF Sound, Sending
  <1>7. /\ adaptor'[s].m_sentfirst = adaptor[s].m_sentfirst
        /\ adaptor'[s].chunk = adaptor[s].chunk
        /\ \A t \in Transfer : t # s => adaptor'[t] = adaptor[t]
    <2>1. adaptor \in [Transfer -> Adaptor]
      BY DEF Inv, NetOK
    <2> QED
      BY <1>4, <2>1 DEF Adaptor
  <1>8. \A m \in {Header(s, 404), CancelMessage(s)} :
            m \in SidMessage /\ m.sid = SidOf[s] /\ ~InStream(s, m)
    BY ConstAssumption DEF Header, CancelMessage, SidMessage, InStream
  <1>9. \/ inbox' = inbox
        \/ \E m \in SidMessage :
              /\ m.sid = SidOf[s] /\ ~InStream(s, m)
              /\ inbox' = [inbox EXCEPT ![c] = Sent(inbox, c, m)]
    BY <1>4, <1>8
  <1>10. adaptor'[s].state # "none" \/ adaptor'[s] = adaptor[s]
    <2>1. adaptor \in [Transfer -> Adaptor]
      BY DEF Inv, NetOK
    <2> QED
      BY <1>4, <2>1 DEF Adaptor
  <1>11. /\ requests[ConnOf[s]] # <<>> /\ Head(requests[ConnOf[s]]) = s
         /\ requests'[ConnOf[s]] = Tail(requests[ConnOf[s]])
         /\ \A d \in Conn : d # ConnOf[s] => requests'[d] = requests[d]
    BY <1>1, <1>2, <1>3, <1>5
  <1>12. \/ inbox' = inbox
         \/ \E m \in SidMessage :
               /\ m.sid = SidOf[s] /\ ~InStream(s, m)
               /\ inbox' = [inbox EXCEPT ![ConnOf[s]] = Sent(inbox, ConnOf[s], m)]
    BY <1>3, <1>9
  <1>13. UNCHANGED <<link, pc, mapVars, m_timer, headers, out, io, crashed>>
    BY <1>4
  <1> HIDE DEF StreamInv
  <1> QED
    BY <1>6, <1>7, <1>10, <1>11, <1>12, <1>13, BesideStream

\* A chunk, or the end, is sent: with the headers if it is the first.
LEMMA SendStream ==
    ASSUME StreamsApart, Inv, StreamInv, NEW s \in Transfer, NEW chunk \in 0..Chunks,
           adaptor[s].state = "open", SendData(s, chunk),
           \/ adaptor[s].chunk < Chunks /\ chunk = adaptor[s].chunk + 1
           \/ adaptor[s].chunk = Chunks /\ chunk = 0,
           UNCHANGED <<link, requests, pc, mapVars, m_timer, headers, out, io, crashed>>
    PROVE  StreamInv'
  <1> USE DEF StreamInv
  <1> DEFINE k == ConnOf[s]
  <1>1. /\ inbox \in [Conn -> Seq(SidMessage)] /\ inbox[k] \in Seq(SidMessage) /\ k \in Conn
        /\ adaptor \in [Transfer -> Adaptor]
        /\ adaptor[s].m_sentfirst \in BOOLEAN /\ adaptor[s].chunk \in 0..Chunks
    BY Types DEF Inv, NetOK, Adaptor
  <1>2. /\ adaptor'[s] = [m_sentfirst |-> TRUE, chunk |-> chunk,
                          state |-> IF chunk = 0 THEN "done" ELSE "open"]
        /\ \A t \in Transfer : t # s => adaptor'[t] = adaptor[t]
    BY <1>1 DEF SendData
  <1>3. PICK d \in SidMessage : d = Data(s, chunk)
    BY Messages
  <1>4. PICK h \in SidMessage : h = Header(s, 200)
    BY Messages
  <1>5. /\ d.sid = SidOf[s] /\ InStream(s, d)
        /\ At(d) = IF chunk = 0 THEN Chunks + 1 ELSE chunk
    BY <1>3 DEF Data, InStream, At
  <1>6. h.sid = SidOf[s] /\ InStream(s, h) /\ At(h) = 0
    BY <1>4 DEF Header, InStream, At
  <1>7. link[k] # "ready" => inbox'[k] = inbox[k]
    BY <1>1 DEF SendData
  <1>8. link[k] = "ready" =>
           inbox'[k] = IF adaptor[s].m_sentfirst THEN Append(inbox[k], d)
                       ELSE Append(Append(inbox[k], h), d)
    <2> SUFFICES ASSUME link[k] = "ready"
                 PROVE  inbox'[k] = IF adaptor[s].m_sentfirst THEN Append(inbox[k], d)
                                    ELSE Append(Append(inbox[k], h), d)
      OBVIOUS
    <2>1. inbox'[k] = inbox[k] \o send_headers(s) \o <<d>>
      BY <1>1, <1>3 DEF SendData
    <2>2. CASE adaptor[s].m_sentfirst
      <3>1. send_headers(s) = <<>>
        BY <2>2 DEF send_headers
      <3>2. \A q \in Seq(SidMessage) : q \o <<>> \o <<d>> = Append(q, d)
        OBVIOUS
      <3> QED
        BY <1>1, <2>1, <2>2, <3>1, <3>2
    <2>3. CASE ~adaptor[s].m_sentfirst
      <3>1. send_headers(s) = <<h>>
        BY <1>4, <2>3 DEF send_headers
      <3>2. \A q \in Seq(SidMessage) : q \o <<h>> \o <<d>> = Append(Append(q, h), d)
        OBVIOUS
      <3> QED
        BY <1>1, <2>1, <2>3, <3>1, <3>2
    <2> QED
      BY <2>2, <2>3
  <1>9. Grows(s, inbox[k], inbox'[k])
    <2>1. Grows(s, inbox[k], inbox[k])
      BY <1>1, GrowsSame
    <2>2. Grows(s, inbox[k], Append(inbox[k], d))
      BY <1>5, <2>1, GrowsMore
    <2>3. Grows(s, inbox[k], Append(inbox[k], h))
      BY <1>6, <2>1, GrowsMore
    <2>4. Grows(s, inbox[k], Append(Append(inbox[k], h), d))
      BY <1>5, <2>3, GrowsMore
    <2> QED
      BY <1>7, <1>8, <2>1, <2>2, <2>4
  <1>10. pc[s] \notin Silent
    BY Asked
  <1>11. Sending(s)'
    BY <1>2 DEF Sending
  <1>12. FlowOK(s)'
    <2> SUFFICES ASSUME Live(s)'
                 PROVE  Flow(s, inbox'[k], NextTold(s)', LastSent(s)')
      BY DEF FlowOK, Flow, InStream, At
    <2>1. Live(s) /\ link[k] = "ready"
      BY DEF Live, Mapped, Ended, mapVars
    <2>2. NextTold(s)' = NextTold(s) /\ NextTold(s) \in Int /\ LastSent(s) \in Int
      BY Types DEF NextTold
    <2>3. Flow(s, inbox[k], NextTold(s), LastSent(s))
      BY <2>1 DEF Sound, FlowOK
    <2>4. LastSent(s)' = At(d)
      BY <1>2, <1>5 DEF LastSent
    <2>5. CASE adaptor[s].m_sentfirst
      <3>1. At(d) = LastSent(s) + 1
        BY <1>1, <1>5, <2>5, ConstAssumption DEF LastSent, Sound, Sending
      <3>2. Flow(s, Append(inbox[k], d), NextTold(s), LastSent(s) + 1)
        BY <1>1, <1>5, <2>2, <2>3, <3>1, FlowAppend
      <3> QED
        BY <1>8, <2>1, <2>2, <2>4, <2>5, <3>1, <3>2
    <2>6. CASE ~adaptor[s].m_sentfirst
      <3>1. PICK last \in Int : last = LastSent(s)
        BY <2>2
      <3>2. last = -1 /\ At(d) = 1
        BY <1>1, <1>5, <2>6, <3>1, ConstAssumption DEF LastSent, Sound, Sending
      <3>3. PICK box \in Seq(SidMessage) : box = Append(inbox[k], h)
        <4>1. \A q \in Seq(SidMessage) : Append(q, h) \in Seq(SidMessage)
          OBVIOUS
        <4> QED
          BY <1>1, <4>1
      <3>4. At(h) = last + 1 /\ At(d) = last + 1 + 1 /\ last + 1 \in Int
        BY <1>6, <3>2
      <3>5. Flow(s, box, NextTold(s), last + 1)
        <4>1. Flow(s, inbox[k], NextTold(s), last)
          BY <2>3, <3>1
        <4>2. Flow(s, Append(inbox[k], h), NextTold(s), last + 1)
          BY <1>1, <1>6, <2>2, <3>4, <4>1, FlowAppend
        <4> QED
          BY <3>3, <4>2
      <3>6. Flow(s, Append(box, d), NextTold(s), last + 1 + 1)
        BY <1>5, <2>2, <3>4, <3>5, FlowAppend
      <3> QED
        BY <1>8, <2>1, <2>2, <2>4, <2>6, <3>3, <3>4, <3>6
    <2> QED
      BY <2>5, <2>6
  <1>13. Sound(s)'
    BY <1>10, <1>11, <1>12, WriterSound
  <1>14. \A c \in Conn : c # k => inbox'[c] = inbox[c]
    BY <1>1 DEF SendData
  <1> QED
    BY <1>2, <1>7, <1>9, <1>13, <1>14, WriteStream

LEMMA WriteCancelStream ==
    ASSUME StreamsApart, Inv, StreamInv, NEW s \in Transfer, write_cancel(s)
    PROVE  StreamInv'
  <1>1. /\ adaptor[s].state \in {"open", "done"}
        /\ inbox' = [inbox EXCEPT ![ConnOf[s]] = Sent(inbox, ConnOf[s], CancelMessage(s))]
        /\ \E at \in {"done", "late"} : adaptor' = [adaptor EXCEPT ![s].state = at]
        /\ UNCHANGED <<link, requests, pc, mapVars, m_timer, headers, out, io, crashed>>
    BY DEF write_cancel
  <1>2. adaptor \in [Transfer -> Adaptor]
    BY DEF Inv, NetOK
  <1>3. /\ adaptor'[s].m_sentfirst = adaptor[s].m_sentfirst
        /\ adaptor'[s].chunk = adaptor[s].chunk
        /\ adaptor'[s].state \in {"done", "late"}
        /\ \A t \in Transfer : t # s => adaptor'[t] = adaptor[t]
    BY <1>1, <1>2 DEF Adaptor
  <1>4. PICK m \in SidMessage : m = CancelMessage(s)
    BY Messages
  <1>5. m.sid = SidOf[s] /\ ~InStream(s, m)
    BY <1>4 DEF CancelMessage, InStream
  <1>6. pc[s] \notin Silent
    BY <1>1, Asked DEF StreamInv
  <1> QED
    BY <1>1, <1>3, <1>4, <1>5, <1>6, BesideStream

-----------------------------------------------------------------------------
(* What streams apart are promised.                                        *)

LEMMA StreamInit == Init => StreamInv
  <1> SUFFICES ASSUME Init PROVE StreamInv
    OBVIOUS
  <1> USE ConstAssumption DEF Init
  <1>1. Keyed
    BY DEF Keyed
  <1>2. ASSUME NEW s \in Transfer PROVE Sound(s)
    <2>1. SidOf[s] \in Sid /\ ConnOf[s] \in Conn
      OBVIOUS
    <2>2. Stage(s) /\ TimerOK(s) /\ Leaving(s) /\ Sending(s)
      BY <2>1 DEF Stage, Unheard, Mapped, TimerOK, Leaving, Ended, Sending
    <2>3. OutOK(s)
      BY DEF OutOK
    <2>4. FlowOK(s)
      BY <2>1 DEF FlowOK, Live, Mapped
    <2> QED
      BY <2>2, <2>3, <2>4 DEF Sound
  <1>3. ASSUME NEW c \in Conn PROVE Waiting(c)
    BY DEF Waiting
  <1> QED
    BY <1>1, <1>2, <1>3 DEF StreamInv

LEMMA StreamNext == ASSUME StreamsApart, Inv, StreamInv, [Next]_vars PROVE StreamInv'
  <1>1. CASE UNCHANGED vars
    <2>1. UNCHANGED <<netVars, mapVars, pc, m_timer, headers, out, io, crashed>>
      BY <1>1 DEF vars, netVars, mapVars
    <2>2. ASSUME NEW s \in Transfer PROVE Sound(s)'
      BY <2>1, CalmNode, NetSame, SoundKept DEF StreamInv
    <2>3. Keyed' /\ \A c \in Conn : Waiting(c)'
      BY <2>1, TablesSame, WaitingSame DEF StreamInv, mapVars
    <2> QED
      BY <2>2, <2>3 DEF StreamInv
  <1>2. CASE IoThread
    BY <1>2, UnregisterStream, CancelNextStream, MessageStream, LostStream, TimeoutStream
       DEF IoThread
  <1>3. CASE Peer
    <2>1. ASSUME NEW s \in Transfer, write_content(s) \/ write_finish(s) PROVE StreamInv'
      <3>1. PICK chunk : /\ adaptor[s].state = "open" /\ SendData(s, chunk)
                         /\ \/ adaptor[s].chunk < Chunks /\ chunk = adaptor[s].chunk + 1
                            \/ adaptor[s].chunk = Chunks /\ chunk = 0
                         /\ UNCHANGED <<link, requests, pc, mapVars, m_timer, headers, out, io, crashed>>
        BY <2>1 DEF write_content, write_finish
      <3>2. chunk \in 0..Chunks
        BY <3>1, Types, ConstAssumption DEF Adaptor
      <3> QED
        BY <3>1, <3>2, SendStream
    <2> QED
      BY <1>3, <2>1, PeerRequestStream, WriteCancelStream DEF Peer
  <1>4. CASE \E c \in Conn : Drop(c)
    BY <1>4, LostStream
  <1>5. ASSUME NEW s \in Transfer,
               factory(s) \/ handle_sidrequest(s) \/ WebThread(s) \/ expire(s)
        PROVE  StreamInv'
    BY <1>5, WebStream, StartReplyStream, RegisterStream, StartSidrequestStream,
       StartTimerStream, HandleSidrequestStream, ExpireStream DEF WebThread
  <1> QED
    BY <1>1, <1>2, <1>3, <1>4, <1>5 DEF Next

\* Between the adaptor of the peer and the m_aa of a transfer nothing is lost,
\* repeated or reordered, and every end is followed by its unregistration.
THEOREM StreamInvariance == ASSUME StreamsApart PROVE Spec => []StreamInv
  <1>1. Inv /\ StreamInv /\ [Next]_vars => StreamInv'
    BY StreamNext
  <1> QED
    BY <1>1, StreamInit, Invariance, PTL DEF Spec

\* However siddata_handler, handle_sidfail, start_reply, connection_terminated
\* and a timeout_cb that runs late interleave: m_aa gets one write_finish or
\* write_cancel at most, and nothing after it but one write_cancel from the
\* late timer.
THEOREM EndsAtMostOnce == ASSUME StreamsApart PROVE Spec => []EndsOnce
  <1>1. ASSUME Inv, StreamInv, NEW s \in Transfer, NEW i \in DOMAIN out[s],
               out[s][i].op # "content", i # Len(out[s])
        PROVE  i = Len(out[s]) - 1 /\ out[s][i + 1] = Cancel("timeout")
    <2>1. i = Len(out[s]) - 1 /\ out[s][Len(out[s])] = Cancel("timeout")
      BY <1>1 DEF StreamInv, Sound, OutOK, Repeated
    <2>2. i \in Int /\ Len(out[s]) \in Int
      BY <1>1, Types
    <2>3. i + 1 = Len(out[s])
      BY <2>1, <2>2
    <2> QED
      BY <2>1, <2>3
  <1>2. Inv /\ StreamInv => EndsOnce
    BY <1>1 DEF EndsOnce
  <1> QED
    BY <1>2, StreamInvariance, Invariance, PTL

\* No chunk is passed on before sidheaders_handler saw the headers, which the
\* adaptor of the peer sends with its first write (send_headers).
THEOREM HeadersAreFirst == ASSUME StreamsApart PROVE Spec => []HeadersFirst
  <1>1. StreamInv => HeadersFirst
    BY DEF StreamInv, Sound, OutOK, HeadersFirst
  <1> QED
    BY <1>1, StreamInvariance, PTL

\* For files of any length, siddata_handler passes the chunks on in order and
\* without gaps, and the end of the file only after the last of them.
THEOREM FilesFaithful == ASSUME StreamsApart PROVE Spec => []Faithful
  <1>1. StreamInv => Faithful
    BY DEF StreamInv, Sound, OutOK, Faithful
  <1> QED
    BY <1>1, StreamInvariance, PTL

-----------------------------------------------------------------------------
(* The refinement: every step is a step of Stream, or none.                *)

ToldOf(w) == IF w.op = "content" THEN w ELSE [op |-> w.op]

ToldSeq(q) == [i \in DOMAIN q |-> ToldOf(q[i])]

LEMMA ToldMore ==
    ASSUME NEW q \in Seq(Event), NEW w \in Event
    PROVE  ToldSeq(Append(q, w)) = Append(ToldSeq(q), ToldOf(w))
  <1> DEFINE E == {ToldOf(e) : e \in Event}
             r == Append(q, w)
             a == ToldSeq(q)
  <1>1. /\ r \in Seq(Event) /\ Len(r) = Len(q) + 1 /\ DOMAIN r = 1..(Len(q) + 1)
        /\ r[Len(q) + 1] = w /\ \A i \in 1..Len(q) : r[i] = q[i]
        /\ Len(q) \in Nat /\ DOMAIN q = 1..Len(q)
        /\ \A i \in 1..Len(q) : q[i] \in Event
    OBVIOUS
  <1>2. a = [i \in 1..Len(q) |-> ToldOf(q[i])]
    BY <1>1 DEF ToldSeq
  <1>3. \A i \in 1..Len(q) : ToldOf(q[i]) \in E
    BY <1>1
  <1> HIDE DEF E, a, r
  <1>4. a \in Seq(E) /\ Len(a) = Len(q) /\ \A i \in 1..Len(q) : a[i] = ToldOf(q[i])
    BY <1>1, <1>2, <1>3
  <1>5. ToldOf(w) \in E
    BY DEF E
  <1>6. \A i \in 1..(Len(q) + 1) : ToldOf(r[i]) \in E
    <2>1. \A i \in 1..(Len(q) + 1) : r[i] \in Event
      BY <1>1
    <2> QED
      BY <2>1 DEF E
  <1>7. ToldSeq(r) = [i \in 1..(Len(q) + 1) |-> ToldOf(r[i])]
    BY <1>1 DEF ToldSeq
  <1>8. /\ ToldSeq(r) \in Seq(E) /\ Len(ToldSeq(r)) = Len(q) + 1
        /\ \A i \in 1..(Len(q) + 1) : ToldSeq(r)[i] = ToldOf(r[i])
    BY <1>1, <1>6, <1>7
  <1> DEFINE b == Append(a, ToldOf(w))
  <1>9. /\ b \in Seq(E) /\ Len(b) = Len(q) + 1
        /\ b[Len(q) + 1] = ToldOf(w) /\ \A i \in 1..Len(q) : b[i] = a[i]
    BY <1>4, <1>5, AppendProperties
  <1> HIDE DEF b
  <1>10. ASSUME NEW i \in 1..(Len(q) + 1) PROVE ToldSeq(r)[i] = b[i]
    <2>1. CASE i = Len(q) + 1
      BY <1>1, <1>8, <1>9, <2>1
    <2>2. CASE i \in 1..Len(q)
      BY <1>1, <1>4, <1>8, <1>9, <2>2
    <2> QED
      BY <1>1, <2>1, <2>2
  <1>11. ToldSeq(r) = b
    BY <1>8, <1>9, <1>10, SeqEqual
  <1> QED
    BY <1>11 DEF a, b, r

\* Stream's view of the state.
AskedNow == {s \in Transfer : pc[s] \notin {"none", "refused"}}
ToldNow == [s \in Transfer |-> Told(s)]

LEMMA ToldIs ==
    ASSUME Inv, NEW s \in Transfer
    PROVE  /\ ToldNow[s] = ToldSeq(out[s]) /\ Len(ToldNow[s]) = Len(out[s])
           /\ Promise!Ended(s) <=> Ended(s)
  <1>1. ToldNow[s] = ToldSeq(out[s])
    BY DEF ToldNow, Told, ToldSeq, ToldOf
  <1>2. out[s] \in Seq(Event) /\ DOMAIN out[s] = 1..Len(out[s]) /\ Len(out[s]) \in Nat
    BY Types
  <1>3. ToldSeq(out[s]) = [i \in 1..Len(out[s]) |-> ToldOf(out[s][i])]
    BY <1>2 DEF ToldSeq
  <1>4. Len(ToldSeq(out[s])) = Len(out[s])
    BY <1>2, <1>3
  <1>5. \A i \in DOMAIN out[s] : out[s][i] \in Event
    BY <1>2
  <1>6. \A w \in Event : ToldOf(w) \in {[op |-> "finish"], [op |-> "cancel"]}
                         <=> w.op # "content"
    BY DEF Event, ToldOf
  <1>7. Promise!Ended(s) <=> \E i \in DOMAIN ToldNow[s] :
            ToldNow[s][i] \in {[op |-> "finish"], [op |-> "cancel"]}
    BY DEF Promise!Ended, Promise!Finish, Promise!Cancel, ToldNow
  <1>8. DOMAIN ToldNow[s] = DOMAIN out[s]
        /\ \A i \in DOMAIN out[s] : ToldNow[s][i] = ToldOf(out[s][i])
    BY <1>1 DEF ToldSeq
  <1>9. Promise!Ended(s) <=> Ended(s)
    BY <1>5, <1>6, <1>7, <1>8 DEF Ended
  <1> QED
    BY <1>1, <1>4, <1>9

\* s is told w: what its client is given.
LEMMA Given ==
    ASSUME Inv, NEW s \in Transfer, NEW w \in Event, Write(s, w)
    PROVE  Promise!Give(s, ToldOf(w))
  <1>1. out \in [Transfer -> Seq(Event)]
    BY DEF Inv, OutputOK
  <1>2. out'[s] = Append(out[s], w) /\ \A t \in Transfer : t # s => out'[t] = out[t]
    BY <1>1 DEF Write
  <1>3. ToldNow' = [t \in Transfer |-> ToldSeq(out'[t])]
    BY DEF ToldNow, Told, ToldSeq, ToldOf
  <1>4. ToldNow = [t \in Transfer |-> ToldSeq(out[t])]
    BY DEF ToldNow, Told, ToldSeq, ToldOf
  <1>5. ToldSeq(out'[s]) = Append(ToldSeq(out[s]), ToldOf(w))
    BY <1>1, <1>2, ToldMore
  <1>6. ToldNow' = [ToldNow EXCEPT ![s] = Append(@, ToldOf(w))]
    BY <1>2, <1>3, <1>4, <1>5
  <1> QED
    BY <1>6 DEF Promise!Give, ToldNow

LEMMA NothingNew ==
    ASSUME UNCHANGED <<headers, out, crashed>>, AskedNow' = AskedNow
    PROVE  UNCHANGED Promise!vars
  BY DEF Promise!vars, AskedNow, Told

LEMMA AskedSame == pc' = pc => AskedNow' = AskedNow
  BY DEF AskedNow

\* A transfer that goes on past factory asks.
LEMMA Asks ==
    ASSUME Inv, NEW s \in Transfer, ~crashed, UNCHANGED <<headers, crashed>>,
           pc[s] = "none", NEW p \in {"made", "started"}, pc' = [pc EXCEPT ![s] = p]
    PROVE  /\ UNCHANGED out => Promise!Ask(s)
           /\ \A why \in Why : Write(s, Cancel(why)) => Promise!Reject(s)
  <1>1. s \notin AskedNow /\ AskedNow' = AskedNow \cup {s}
    BY DEF AskedNow, Inv, ThreadsOK
  <1>2. UNCHANGED out => Promise!Ask(s)
    BY <1>1 DEF Promise!Ask, AskedNow, Told
  <1>3. ASSUME NEW why \in Why, Write(s, Cancel(why))
        PROVE  Promise!Reject(s)
    <2>1. Cancel(why) \in Event /\ ToldOf(Cancel(why)) = [op |-> "cancel"]
      BY DEF Cancel, Event, ToldOf
    <2>2. Promise!Give(s, Promise!Cancel)
      BY <1>3, <2>1, Given DEF Promise!Cancel
    <2> QED
      BY <1>1, <2>2 DEF Promise!Reject, AskedNow
  <1> QED
    BY <1>2, <1>3

\* s is told of an event while its client is owed something.
LEMMA Owed ==
    ASSUME Inv, NEW s \in Transfer, ~crashed, ~Ended(s), s \in AskedNow, AskedNow' = AskedNow,
           UNCHANGED <<headers, crashed>>, NEW w \in Event, Write(s, w)
    PROVE  /\ w.op = "cancel" => Promise!GiveUp(s)
           /\ (w.op = "finish" /\ s \in headers /\ Len(out[s]) = Chunks) => Promise!Complete(s)
           /\ (w = Content(Len(out[s]) + 1) /\ s \in headers /\ Len(out[s]) < Chunks)
              => Promise!Deliver(s)
  <1>1. Promise!Open(s)
    BY ToldIs DEF Promise!Open, AskedNow
  <1>2. Promise!Give(s, ToldOf(w))
    BY Given
  <1>3. Len(ToldNow[s]) = Len(out[s])
    BY ToldIs
  <1>4. w.op = "cancel" => Promise!GiveUp(s)
    BY <1>1, <1>2 DEF Promise!GiveUp, Promise!Cancel, ToldOf, AskedNow
  <1>5. (w.op = "finish" /\ s \in headers /\ Len(out[s]) = Chunks) => Promise!Complete(s)
    BY <1>1, <1>2, <1>3 DEF Promise!Complete, Promise!Finish, ToldOf, AskedNow, ToldNow
  <1>6. (w = Content(Len(out[s]) + 1) /\ s \in headers /\ Len(out[s]) < Chunks)
        => Promise!Deliver(s)
    BY <1>1, <1>2, <1>3 DEF Promise!Deliver, Promise!Content, Content, ToldOf, AskedNow, ToldNow
  <1> QED
    BY <1>4, <1>5, <1>6

\* The io thread cancels a transfer that is kept.
LEMMA KeptGivenUp ==
    ASSUME Inv, NEW s \in Transfer, Sound(s), ~crashed, ~Ended(s), m_sid2ss[SidOf[s]] = s,
           UNCHANGED <<pc, headers, crashed>>,
           NEW why \in Why, NEW rest, cancel_handler(s, why, rest)
    PROVE  Promise!GiveUp(s)
  <1>1. s \in AskedNow /\ AskedNow' = AskedNow
    BY AskedSame DEF AskedNow, Sound, Stage, Mapped, Before, Early
  <1>2. Cancel(why) \in Event /\ Cancel(why).op = "cancel" /\ Write(s, Cancel(why))
    BY DEF Cancel, Event, cancel_handler
  <1> QED
    BY <1>1, <1>2, Owed

LEMMA Dies ==
    ASSUME ~crashed, crashed' = TRUE, UNCHANGED <<pc, headers, out>>
    PROVE  Promise!Die
  BY DEF Promise!Die, Told

\* The web server's threads.
LEMMA WebRefines ==
    ASSUME Inv, StreamInv, NEW s \in Transfer, factory(s) \/ WebThread(s)
    PROVE  [Promise!Next]_(Promise!vars)
  <1>1. pc \in [Transfer -> Place] /\ Sound(s)
    BY DEF Inv, ThreadsOK, StreamInv
  <1>2. CASE factory(s) /\ link[ConnOf[s]] # "closed"
    <2>1. Promise!Ask(s)
      BY <1>2, Asks DEF factory
    <2> QED
      BY <2>1 DEF Promise!Next
  <1>3. CASE start_reply(s) /\ link[ConnOf[s]] # "ready"
    <2>1. /\ pc' = [pc EXCEPT ![s] = "cancelling"] /\ pc[s] = "made" /\ ~crashed
          /\ Write(s, Cancel("not ready")) /\ UNCHANGED <<headers, crashed>>
      BY <1>3 DEF start_reply
    <2>2. s \in AskedNow /\ AskedNow' = AskedNow
      BY <1>1, <2>1 DEF AskedNow
    <2>3. ~Ended(s)
      <3>1. out[s] = <<>>
        BY <1>1, <2>1 DEF Sound, Stage, Early
      <3> QED
        BY <3>1 DEF Ended
    <2>4. Cancel("not ready") \in Event /\ Cancel("not ready").op = "cancel"
      BY DEF Cancel, Event, Why
    <2>5. Promise!GiveUp(s)
      BY <2>1, <2>2, <2>3, <2>4, Owed
    <2> QED
      BY <2>5 DEF Promise!Next
  <1>4. CASE \/ factory(s) /\ link[ConnOf[s]] = "closed"
             \/ start_reply(s) /\ link[ConnOf[s]] = "ready"
             \/ cancel_loop(s) \/ cancel_erase(s)
             \/ register_ss(s) \/ register_conn(s) \/ start_sidrequest(s)
             \/ make_timer(s) \/ start_timer(s)
    <2>1. UNCHANGED <<headers, out, crashed>>
      BY <1>4 DEF factory, start_reply, cancel_loop, cancel_erase, register_ss,
                  register_conn, start_sidrequest, make_timer, start_timer
    <2>2. \/ pc[s] = "none" /\ pc' = [pc EXCEPT ![s] = "refused"]
          \/ /\ pc[s] \notin {"none", "refused"}
             /\ \E to \in {"checked", "mapped", "tracked", "requested", "timed",
                            "erasing", "started"} : pc' = [pc EXCEPT ![s] = to]
      BY <1>4 DEF factory, start_reply, cancel_loop, cancel_erase, register_ss,
                  register_conn, start_sidrequest, make_timer, start_timer
    <2>3. /\ \A t \in Transfer : t # s => pc'[t] = pc[t]
          /\ pc[s] \in {"none", "refused"} <=> pc'[s] \in {"none", "refused"}
      BY <1>1, <2>2
    <2>4. AskedNow' = AskedNow
      BY <2>3 DEF AskedNow
    <2> QED
      BY <2>1, <2>4, NothingNew
  <1> QED
    BY <1>2, <1>3, <1>4 DEF WebThread

LEMMA HandleSidrequestRefines ==
    ASSUME Inv, NEW s \in Transfer, handle_sidrequest(s)
    PROVE  [Promise!Next]_(Promise!vars)
  <1>1. ~crashed /\ pc[s] = "none" /\ UNCHANGED <<headers, crashed>>
    BY DEF handle_sidrequest, Idle
  <1>2. CASE pc' = [pc EXCEPT ![s] = "refused"] /\ UNCHANGED out
    <2>1. AskedNow' = AskedNow
      BY <1>1, <1>2 DEF AskedNow, Inv, ThreadsOK
    <2> QED
      BY <1>1, <1>2, <2>1, NothingNew
  <1>3. CASE pc' = [pc EXCEPT ![s] = "started"] /\ Write(s, Cancel("not ready"))
    <2>1. Promise!Reject(s)
      BY <1>1, <1>3, Asks DEF Why
    <2> QED
      BY <2>1 DEF Promise!Next
  <1>4. CASE pc' = [pc EXCEPT ![s] = "started"] /\ UNCHANGED out
    <2>1. Promise!Ask(s)
      BY <1>1, <1>4, Asks
    <2> QED
      BY <2>1 DEF Promise!Next
  <1> QED
    BY <1>2, <1>3, <1>4 DEF handle_sidrequest, cancel_handler

LEMMA MessageRefines ==
    ASSUME StreamsApart, Inv, StreamInv, NEW c \in Conn, message_received(c)
    PROVE  [Promise!Next]_(Promise!vars)
  <1>1. PICK m : m = Head(inbox[c])
    OBVIOUS
  <1>2. /\ Reads(c, m) /\ ~crashed /\ pc' = pc
        /\ handle_siddata(m) \/ handle_sidheaders(m) \/ handle_sidfail(m) \/ Vanishes(m)
    BY <1>1 DEF message_received, Reads, Idle
  <1>3. m \in SidMessage
    BY <1>2, ReadStream
  <1>4. m_sid2ss[m.sid] \in Transfer \cup {None}
    BY <1>3 DEF SidMessage, Inv, TablesOK
  <1>5. AskedNow' = AskedNow
    BY <1>2, AskedSame
  <1>6. CASE m_sid2ss[m.sid] = None
    <2>1. UNCHANGED <<headers, out, crashed>>
      BY <1>2, <1>6 DEF handle_siddata, handle_sidheaders, handle_sidfail, Vanishes
    <2> QED
      BY <1>5, <2>1, NothingNew
  <1>7. ASSUME NEW s \in Transfer, m_sid2ss[m.sid] = s
        PROVE  [Promise!Next]_(Promise!vars)
    <2>1. Sound(s) /\ s # None
      BY ConstAssumption DEF StreamInv
    <2>2. m_sid2ss[SidOf[s]] = s /\ ~Ended(s)
      BY <1>2, <1>7, ReadOwn
    <2>3. s \in AskedNow
      BY <2>1, <2>2 DEF AskedNow, Sound, Stage, Mapped, Before, Early
    <2>4. CASE handle_siddata(m)
      <3>1. /\ s \in headers
            /\ ~EndOfStream(m) => m.chunk = Len(out[s]) + 1
            /\ EndOfStream(m) => Len(out[s]) = Chunks
        BY <1>2, <1>7, <2>4, DataStream
      <3>2. UNCHANGED <<headers, crashed>> /\ m.type = "SIDDATA"
        BY <2>4 DEF handle_siddata
      <3>3. CASE EndOfStream(m)
        <4>1. Write(s, Finish) /\ Finish \in Event /\ Finish.op = "finish"
          BY <1>7, <2>1, <2>4, <3>3 DEF handle_siddata, Finish, Event
        <4>2. Promise!Complete(s)
          BY <1>2, <1>5, <2>2, <2>3, <3>1, <3>2, <3>3, <4>1, Owed
        <4> QED
          BY <4>2 DEF Promise!Next
      <3>4. CASE ~EndOfStream(m)
        <4>1. Write(s, Content(m.chunk)) /\ m.chunk = Len(out[s]) + 1
          BY <1>7, <2>1, <2>4, <3>1, <3>4 DEF handle_siddata
        <4>2. m.chunk \in 1..Chunks
          BY <1>3, <3>2, <3>4, ConstAssumption DEF SidMessage, EndOfStream
        <4>3. Content(m.chunk) \in Event
          BY <4>2 DEF Content, Event
        <4>4. Len(out[s]) < Chunks
          BY <4>1, <4>2, Types, ConstAssumption
        <4>5. Promise!Deliver(s)
          BY <1>2, <1>5, <2>2, <2>3, <3>1, <3>2, <4>1, <4>3, <4>4, Owed
        <4> QED
          BY <4>5 DEF Promise!Next
      <3> QED
        BY <3>3, <3>4
    <2>5. CASE handle_sidheaders(m) /\ crashed' = TRUE
      <3>1. UNCHANGED <<headers, out>>
        BY <1>2, <2>5 DEF handle_sidheaders
      <3>2. Promise!Die
        BY <1>2, <2>5, <3>1, Dies
      <3> QED
        BY <3>2 DEF Promise!Next
    <2>6. CASE handle_sidheaders(m) /\ ~(crashed' = TRUE)
      <3>1. /\ UNCHANGED crashed
            /\ \/ m.status = 200 /\ headers' = headers \cup {s} /\ UNCHANGED out
               \/ cancel_handler(s, "status", <<>>) /\ UNCHANGED headers
        BY <1>7, <2>1, <2>6 DEF handle_sidheaders
      <3>2. CASE m.status = 200 /\ headers' = headers \cup {s} /\ UNCHANGED out
        <4>1. s \notin headers
          BY <1>2, <1>7, <2>6, <3>1, <3>2, HeadersStream
        <4>2. Promise!Open(s)
          BY <1>2, <2>2, <2>3, ToldIs DEF Promise!Open, AskedNow
        <4>3. Promise!SendHeaders(s)
          BY <1>5, <3>1, <3>2, <4>1, <4>2 DEF Promise!SendHeaders, AskedNow, Told
        <4> QED
          BY <4>3 DEF Promise!Next
      <3>3. CASE cancel_handler(s, "status", <<>>) /\ UNCHANGED headers
        <4>1. Promise!GiveUp(s)
          BY <1>2, <2>1, <2>2, <3>1, <3>3, KeptGivenUp DEF Why
        <4> QED
          BY <4>1 DEF Promise!Next
      <3> QED
        BY <3>1, <3>2, <3>3
    <2>7. CASE handle_sidfail(m)
      <3>1. cancel_handler(s, "fail", <<>>) /\ UNCHANGED <<headers, crashed>>
        BY <1>7, <2>1, <2>7 DEF handle_sidfail
      <3>2. Promise!GiveUp(s)
        BY <1>2, <2>1, <2>2, <3>1, KeptGivenUp DEF Why
      <3> QED
        BY <3>2 DEF Promise!Next
    <2>8. CASE Vanishes(m)
      <3>1. Promise!Die
        BY <1>2, <2>8, Dies DEF Vanishes
      <3> QED
        BY <3>1 DEF Promise!Next
    <2> QED
      BY <1>2, <2>4, <2>5, <2>6, <2>7, <2>8
  <1> QED
    BY <1>4, <1>6, <1>7

\* The timeout, and the loss of the connection.
LEMMA CancelRefines ==
    ASSUME StreamsApart, Inv, StreamInv, cancel_next \/ \E s \in Transfer : timeout_cb(s)
    PROVE  [Promise!Next]_(Promise!vars)
  <1>1. CASE cancel_next
    <2>1. /\ io # <<>> /\ Head(io).call = "cancel_handler" /\ Head(io) \in Task /\ ~crashed
          /\ UNCHANGED <<pc, headers>>
      BY <1>1 DEF cancel_next, Inv, OutputOK
    <2>2. PICK x \in Sid : x = Head(io).arg
      BY <2>1 DEF Task
    <2>3. CASE crashed' = TRUE /\ UNCHANGED out
      <3>1. Promise!Die
        BY <2>1, <2>3, Dies
      <3> QED
        BY <3>1 DEF Promise!Next
    <2>4. CASE m_sid2ss[x] # None /\ cancel_handler(m_sid2ss[x], "terminated", Tail(io))
               /\ UNCHANGED crashed
      <3>1. PICK s \in Transfer : s = m_sid2ss[x]
        BY <2>4 DEF Inv, TablesOK
      <3>2. m_sid2ss[SidOf[s]] = s /\ Sound(s)
        BY <2>4, <3>1 DEF StreamInv, Keyed
      <3>3. ~Ended(s)
        BY <2>1, <3>2 DEF Sound, Leaving, Gone, Mapped, Unregister, Erase
      <3>4. Promise!GiveUp(s)
        BY <2>1, <2>4, <3>1, <3>2, <3>3, KeptGivenUp DEF Why
      <3> QED
        BY <3>4 DEF Promise!Next
    <2> QED
      BY <1>1, <2>2, <2>3, <2>4 DEF cancel_next
  <1>2. ASSUME NEW s \in Transfer, timeout_cb(s)
        PROVE  [Promise!Next]_(Promise!vars)
    <2>1. /\ ~crashed /\ m_timer[s] = "queued" /\ pc[s] = "started" /\ Sound(s)
          /\ UNCHANGED <<pc, headers>>
      BY <1>2 DEF timeout_cb, Idle, StreamInv, Sound, TimerOK
    <2>2. s \in AskedNow /\ AskedNow' = AskedNow
      BY <2>1, AskedSame DEF AskedNow
    <2>3. CASE crashed' = TRUE /\ UNCHANGED out
      <3>1. Promise!Die
        BY <2>1, <2>3, Dies
      <3> QED
        BY <3>1 DEF Promise!Next
    <2>4. CASE cancel_handler(s, "timeout", <<>>) /\ UNCHANGED crashed
      <3>1. /\ Cancel("timeout") \in Event /\ Cancel("timeout").op = "cancel"
            /\ ToldOf(Cancel("timeout")) = [op |-> "cancel"] /\ Write(s, Cancel("timeout"))
        BY <2>4 DEF Cancel, Event, Why, ToldOf, cancel_handler
      <3>2. CASE ~Ended(s)
        <4>1. Promise!GiveUp(s)
          BY <2>1, <2>2, <2>4, <3>1, <3>2, Owed
        <4> QED
          BY <4>1 DEF Promise!Next
      <3>3. CASE Ended(s)
        <4>1. Promise!Ended(s) /\ ToldNow[s] = ToldSeq(out[s]) /\ Len(ToldNow[s]) = Len(out[s])
          BY <3>3, ToldIs
        <4>2. \A i \in DOMAIN out[s] : out[s][i].op # "content" => i = Len(out[s])
          BY <2>1 DEF Sound, OutOK, Repeated
        <4>3. \A i \in DOMAIN ToldNow[s] :
                  ToldNow[s][i] \in {[op |-> "finish"], [op |-> "cancel"]} => i = Len(out[s])
          <5>1. DOMAIN ToldNow[s] = DOMAIN out[s]
                /\ \A i \in DOMAIN out[s] : ToldNow[s][i] = ToldOf(out[s][i])
            BY <4>1 DEF ToldSeq
          <5>2. ASSUME NEW i \in DOMAIN out[s],
                       ToldOf(out[s][i]) \in {[op |-> "finish"], [op |-> "cancel"]}
                PROVE  out[s][i].op # "content"
            BY <5>2 DEF ToldOf
          <5> QED
            BY <4>2, <5>1, <5>2
        <4>4. Promise!Give(s, [op |-> "cancel"])
          BY <3>1, Given
        <4>5. Promise!Repeat(s)
          BY <2>1, <2>2, <2>4, <4>1, <4>3, <4>4
             DEF Promise!Repeat, Promise!Finish, Promise!Cancel, ToldNow, AskedNow
        <4> QED
          BY <4>5 DEF Promise!Next
      <3> QED
        BY <3>2, <3>3
    <2> QED
      BY <1>2, <2>3, <2>4 DEF timeout_cb
  <1> QED
    BY <1>1, <1>2

LEMMA RefinesInit == Init => Promise!Init
  <1> SUFFICES ASSUME Init PROVE Promise!Init
    OBVIOUS
  <1>1. \A s \in Transfer : Told(s) = <<>>
    BY DEF Init, Told
  <1>2. AskedNow = {}
    BY DEF Init, AskedNow
  <1> QED
    BY <1>1, <1>2 DEF Promise!Init, Init, AskedNow

LEMMA RefinesNext ==
    ASSUME StreamsApart, Inv, StreamInv, [Next]_vars
    PROVE  [Promise!Next]_(Promise!vars)
  <1>1. ASSUME UNCHANGED <<pc, headers, out, crashed>> PROVE UNCHANGED Promise!vars
    BY <1>1, AskedSame, NothingNew
  <1>2. CASE UNCHANGED vars
    BY <1>1, <1>2 DEF vars
  <1>3. CASE Peer \/ \E c \in Conn : connection_terminated(c) \/ Drop(c)
    <2>1. UNCHANGED <<pc, headers, out, crashed>>
      BY <1>3 DEF connection_terminated, Drop, Peer, PeerRequest,
                  write_content, write_finish, write_cancel
    <2> QED
      BY <1>1, <2>1
  <1>4. CASE unregister_sidtransfer \/ erase_sid
    <2>1. ~crashed /\ UNCHANGED <<pc, headers, out>> /\ (UNCHANGED crashed \/ crashed' = TRUE)
      BY <1>4 DEF unregister_sidtransfer, erase_sid
    <2>2. crashed' = TRUE => Promise!Die
      BY <2>1, Dies
    <2> QED
      BY <1>1, <2>1, <2>2 DEF Promise!Next
  <1>5. CASE IoThread
    BY <1>3, <1>4, <1>5, MessageRefines, CancelRefines DEF IoThread
  <1>6. ASSUME NEW s \in Transfer,
               factory(s) \/ handle_sidrequest(s) \/ WebThread(s) \/ expire(s)
        PROVE  [Promise!Next]_(Promise!vars)
    <2>1. CASE expire(s)
      <3>1. UNCHANGED <<pc, headers, out, crashed>>
        BY <2>1 DEF expire
      <3> QED
        BY <1>1, <3>1
    <2> QED
      BY <1>6, <2>1, WebRefines, HandleSidrequestRefines
  <1> QED
    BY <1>2, <1>3, <1>5, <1>6 DEF Next

\* Whatever the interleaving of the web server, timers however late,
\* messages, peers and losses, what a client sees of its transfer is what
\* Stream allows: headers, the chunks in order, one end which a late timer
\* may repeat, or the death of the node (start_reply, handle_sidrequest,
\* siddata_handler, sidheaders_handler, cancel_handler and timeout_cb).
THEOREM StreamsImplement == ASSUME StreamsApart PROVE Spec => ImplementsStream
  <1>1. Inv /\ StreamInv /\ [Next]_vars => [Promise!Next]_(Promise!vars)
    BY RefinesNext
  <1> QED
    BY <1>1, RefinesInit, Invariance, StreamInvariance, PTL
       DEF Spec, Promise!Safe, ImplementsStream

=============================================================================
