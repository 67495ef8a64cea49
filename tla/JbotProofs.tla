----------------------------- MODULE JbotProofs -----------------------------
(* The jbot's list of greynet sessions: for every number of friends,       *)
(* logins, changes of status and disco requests.                           *)
EXTENDS Jbot, TLAPS

-----------------------------------------------------------------------------
(* What the stanzas under way say about a session.                         *)

Positions(p) == 1..Len(stream[p])

\* We have still to hear of a logout that came at stanza i or later.
LogoutSince(p, i) == \E k \in Positions(p) : k >= i /\ stream[p][k] = "unavailable"

\* A session found to be online, or that answered so, may have gone since;
\* then its logout comes behind.
LogoutFollows(p) ==
    p \notin online =>
        /\ p \in m_playdarpeers => LogoutSince(p, 1)
        /\ \A i \in Positions(p) :
               stream[p][i] \in {"available", "feature"} => LogoutSince(p, i)

\* Only a session with the feature says that it has it.
OnlyCapable(p) ==
    /\ p \in m_playdarpeers => p \in Playdar \cup Google
    /\ \A i \in Positions(p) : stream[p][i] = "feature" => p \in Playdar

\* Something that will list p is under way, and no logout behind it.
Awaited(p) ==
    \/ p \in m_playdarpeers /\ ~LogoutSince(p, 1)
    \/ p \in Playdar /\ asked[p] > 0
    \/ \E i \in Positions(p) : stream[p][i] \in {"available", "feature"} /\ ~LogoutSince(p, i)

NotForgotten(p) == p \in online /\ p \in Playdar \cup Google => Awaited(p)

\* session[i] logins of p had been ended by a logout after its i-th stanza
\* under way; session[0] of them are over for us as well.
Numbering(p, session) ==
    /\ \A i, k \in 0..Len(stream[p]) : i <= k => session[i] <= session[k]
    /\ \A i \in Positions(p) : stream[p][i] = "unavailable" => session[i-1] < session[i]
    /\ session[Len(stream[p])] + (IF p \in online THEN 1 ELSE 0) <= logins[p]
    /\ reported[p] <= session[0] + (IF p \in m_playdarpeers THEN 1 ELSE 0)

Numbered(p) == \E session \in [0..Len(stream[p]) -> Nat] : Numbering(p, session)

Tracked(p) == LogoutFollows(p) /\ OnlyCapable(p) /\ NotForgotten(p) /\ Numbered(p)

Inv == TypeOK /\ \A p \in Peer : Tracked(p)

-----------------------------------------------------------------------------
(* One more stanza under way, or one less.                                 *)

LEMMA Appended ==
    ASSUME NEW s \in Seq(Stanza), NEW x \in Stanza
    PROVE  /\ Append(s, x) \in Seq(Stanza)
           /\ Len(Append(s, x)) = Len(s) + 1 /\ Len(s) \in Nat
           /\ \A i \in 1..Len(s) : Append(s, x)[i] = s[i]
           /\ Append(s, x)[Len(s) + 1] = x
OBVIOUS

LEMMA Popped ==
    ASSUME NEW s \in Seq(Stanza), s # <<>>
    PROVE  /\ Tail(s) \in Seq(Stanza) /\ Head(s) \in Stanza
           /\ Len(Tail(s)) = Len(s) - 1 /\ Len(s) \in Nat \ {0}
           /\ \A i \in 1..Len(s) - 1 : Tail(s)[i] = s[i+1]
           /\ Head(s) = s[1]
OBVIOUS

LEMMA LogoutAppended ==
    ASSUME NEW p \in Peer, stream[p] \in Seq(Stanza), NEW x \in Stanza,
           stream'[p] = Append(stream[p], x), NEW i \in Nat, i <= Len(stream[p]) + 1
    PROVE  LogoutSince(p, i)' <=> LogoutSince(p, i) \/ x = "unavailable"
<1> DEFINE n == Len(stream[p])
<1>1. /\ n \in Nat /\ Len(stream'[p]) = n + 1 /\ stream'[p][n + 1] = x
      /\ \A k \in 1..n : stream'[p][k] = stream[p][k]
  BY Appended
<1>2. ASSUME LogoutSince(p, i) PROVE LogoutSince(p, i)'
  BY <1>1, <1>2 DEF LogoutSince, Positions
<1>3. ASSUME x = "unavailable" PROVE LogoutSince(p, i)'
  BY <1>1, <1>3 DEF LogoutSince, Positions
<1>4. ASSUME LogoutSince(p, i)', x # "unavailable" PROVE LogoutSince(p, i)
  <2>1. PICK k \in 1..n + 1 : k >= i /\ stream'[p][k] = "unavailable"
    BY <1>1, <1>4 DEF LogoutSince, Positions
  <2>2. k \in 1..n
    BY <1>1, <1>4, <2>1
  <2> QED
    BY <1>1, <2>1, <2>2 DEF LogoutSince, Positions
<1> QED
  BY <1>2, <1>3, <1>4

LEMMA LogoutPopped ==
    ASSUME NEW p \in Peer, stream[p] \in Seq(Stanza), stream[p] # <<>>,
           stream'[p] = Tail(stream[p]), NEW i \in Nat \ {0}
    PROVE  LogoutSince(p, i)' <=> LogoutSince(p, i + 1)
<1> DEFINE n == Len(stream[p])
<1>1. /\ n \in Nat \ {0} /\ Len(stream'[p]) = n - 1
      /\ \A k \in 1..n - 1 : stream'[p][k] = stream[p][k+1]
  BY Popped
<1>2. ASSUME LogoutSince(p, i)' PROVE LogoutSince(p, i + 1)
  <2>1. PICK k \in 1..n - 1 : k >= i /\ stream'[p][k] = "unavailable"
    BY <1>1, <1>2 DEF LogoutSince, Positions
  <2>2. k + 1 \in 1..n /\ k + 1 >= i + 1 /\ stream[p][k+1] = "unavailable"
    BY <1>1, <2>1
  <2> QED
    BY <2>2 DEF LogoutSince, Positions
<1>3. ASSUME LogoutSince(p, i + 1) PROVE LogoutSince(p, i)'
  <2>1. PICK k \in 1..n : k >= i + 1 /\ stream[p][k] = "unavailable"
    BY <1>1, <1>3 DEF LogoutSince, Positions
  <2>2. k - 1 \in 1..n - 1 /\ k - 1 >= i /\ k - 1 + 1 = k
    BY <1>1, <2>1
  <2>3. stream'[p][k - 1] = "unavailable"
    BY <1>1, <2>1, <2>2
  <2> QED
    BY <1>1, <2>2, <2>3 DEF LogoutSince, Positions
<1> QED
  BY <1>2, <1>3

LEMMA Extended ==
    ASSUME NEW n \in Nat, NEW f \in [0..n -> Nat], NEW v \in Nat
    PROVE  \E g \in [0..n + 1 -> Nat] : (\A i \in 0..n : g[i] = f[i]) /\ g[n + 1] = v
<1> DEFINE g == [i \in 0..n + 1 |-> IF i <= n THEN f[i] ELSE v]
<1>1. g \in [0..n + 1 -> Nat]
  OBVIOUS
<1>2. (\A i \in 0..n : g[i] = f[i]) /\ g[n + 1] = v
  OBVIOUS
<1> QED
  BY <1>1, <1>2

\* A stanza that is sent gets the number of the login that sent it.
LEMMA NumberAppended ==
    ASSUME TypeOK, TypeOK', NEW p \in Peer, Numbered(p), NEW x \in Stanza,
           stream'[p] = Append(stream[p], x),
           p \in m_playdarpeers' <=> p \in m_playdarpeers, reported'[p] = reported[p],
           logins[p] + (IF x = "unavailable" THEN 1 ELSE 0) + (IF p \in online' THEN 1 ELSE 0)
               <= logins'[p] + (IF p \in online THEN 1 ELSE 0)
    PROVE  Numbered(p)'
<1> DEFINE n == Len(stream[p])
           more == IF x = "unavailable" THEN 1 ELSE 0
<1>1. stream[p] \in Seq(Stanza) /\ logins[p] \in Nat /\ logins'[p] \in Nat /\ reported[p] \in Nat
  BY DEF TypeOK
<1>2. /\ n \in Nat /\ Len(stream'[p]) = n + 1 /\ stream'[p][n + 1] = x
      /\ \A i \in 1..n : stream'[p][i] = stream[p][i]
  BY <1>1, Appended
<1>3. PICK session \in [0..n -> Nat] : Numbering(p, session)
  BY DEF Numbered
<1>4. PICK session1 \in [0..n + 1 -> Nat] :
          (\A i \in 0..n : session1[i] = session[i]) /\ session1[n + 1] = session[n] + more
  <2>1. session[n] + more \in Nat
    BY <1>2
  <2> HIDE DEF more
  <2> QED
    BY <1>2, <2>1, Extended
<1>5. \A i, k \in 0..n + 1 : i <= k => session1[i] <= session1[k]
  <2> SUFFICES ASSUME NEW i \in 0..n + 1, NEW k \in 0..n + 1, i <= k
               PROVE  session1[i] <= session1[k]
    OBVIOUS
  <2>1. \A a, b \in 0..n : a <= b => session[a] <= session[b]
    BY <1>3 DEF Numbering
  <2>2. CASE k \in 0..n
    BY <1>2, <1>4, <2>1, <2>2
  <2>3. CASE k = n + 1 /\ i \in 0..n
    <3>1. n \in 0..n /\ i <= n
      BY <1>2, <2>3
    <3>2. session[i] <= session[n] /\ session[i] \in Nat /\ session[n] \in Nat
      BY <2>1, <2>3, <3>1
    <3> QED
      BY <1>4, <2>3, <3>2
  <2>4. CASE k = n + 1 /\ i = n + 1
    BY <1>2, <1>4, <2>4
  <2> QED
    BY <1>2, <2>2, <2>3, <2>4
<1>6. \A i \in 1..n + 1 : stream'[p][i] = "unavailable" => session1[i-1] < session1[i]
  <2> SUFFICES ASSUME NEW i \in 1..n + 1, stream'[p][i] = "unavailable"
               PROVE  session1[i-1] < session1[i]
    OBVIOUS
  <2>1. CASE i \in 1..n
    <3>1. i - 1 \in 0..n /\ i \in 0..n /\ stream[p][i] = "unavailable"
      BY <1>2, <2>1
    <3>2. session[i-1] < session[i]
      BY <1>3, <2>1, <3>1 DEF Numbering, Positions
    <3> QED
      BY <1>4, <3>1, <3>2
  <2>2. CASE i = n + 1
    <3>1. more = 1 /\ i - 1 = n /\ n \in 0..n /\ session[n] \in Nat
      BY <1>2, <2>2
    <3> QED
      BY <1>4, <2>2, <3>1
  <2> QED
    BY <1>2, <2>1, <2>2
<1>7. session1[n + 1] + (IF p \in online' THEN 1 ELSE 0) <= logins'[p]
  <2>1. session[n] \in Nat /\ session[n] + (IF p \in online THEN 1 ELSE 0) <= logins[p]
    BY <1>2, <1>3 DEF Numbering
  <2> QED
    BY <1>1, <1>4, <2>1
<1>8. reported'[p] <= session1[0] + (IF p \in m_playdarpeers' THEN 1 ELSE 0)
  BY <1>2, <1>3, <1>4 DEF Numbering
<1> QED
  BY <1>2, <1>4, <1>5, <1>6, <1>7, <1>8 DEF Numbered, Numbering, Positions

\* Once we handle a logout, the login before it is over for us, and the
\* list has room for a report of the next one.
LEMMA NumberPopped ==
    ASSUME TypeOK, TypeOK', NEW p \in Peer, Numbered(p), stream[p] # <<>>,
           stream'[p] = Tail(stream[p]), logins'[p] = logins[p],
           p \in online' <=> p \in online,
           \/ Head(stream[p]) = "unavailable" /\ reported'[p] = reported[p]
           \/ reported'[p] + (IF p \in m_playdarpeers THEN 1 ELSE 0)
                  <= reported[p] + (IF p \in m_playdarpeers' THEN 1 ELSE 0)
    PROVE  Numbered(p)'
<1> DEFINE n == Len(stream[p])
<1>1. /\ stream[p] \in Seq(Stanza) /\ logins[p] \in Nat
      /\ reported[p] \in Nat /\ reported'[p] \in Nat
  BY DEF TypeOK
<1>2. /\ n \in Nat \ {0} /\ Len(stream'[p]) = n - 1 /\ Head(stream[p]) = stream[p][1]
      /\ \A i \in 1..n - 1 : stream'[p][i] = stream[p][i+1]
  BY <1>1, Popped
<1>3. PICK session \in [0..n -> Nat] : Numbering(p, session)
  BY DEF Numbered
<1> DEFINE session1 == [i \in 0..n - 1 |-> session[i+1]]
<1>4. /\ session1 \in [0..n - 1 -> Nat]
      /\ \A i \in 0..n - 1 : session1[i] = session[i+1]
  BY <1>2
<1> HIDE DEF session1
<1>5. \A i, k \in 0..n - 1 : i <= k => session1[i] <= session1[k]
  BY <1>2, <1>3, <1>4 DEF Numbering
<1>6. \A i \in 1..n - 1 : stream'[p][i] = "unavailable" => session1[i-1] < session1[i]
  <2> SUFFICES ASSUME NEW i \in 1..n - 1, stream'[p][i] = "unavailable"
               PROVE  session1[i-1] < session1[i]
    OBVIOUS
  <2>1. i + 1 \in 1..n /\ stream[p][i + 1] = "unavailable" /\ (i + 1) - 1 = i
    BY <1>2
  <2>2. session[i] < session[i + 1]
    BY <1>3, <2>1 DEF Numbering, Positions
  <2>3. session1[i-1] = session[i] /\ session1[i] = session[i + 1]
    BY <1>2, <1>4
  <2> QED
    BY <2>2, <2>3
<1>7. session1[n - 1] + (IF p \in online' THEN 1 ELSE 0) <= logins'[p]
  BY <1>2, <1>3, <1>4 DEF Numbering
<1>8. reported'[p] <= session1[0] + (IF p \in m_playdarpeers' THEN 1 ELSE 0)
  <2>1. /\ session[0] \in Nat /\ session[1] \in Nat /\ session[0] <= session[1]
        /\ stream[p][1] = "unavailable" => session[0] < session[1]
        /\ reported[p] <= session[0] + (IF p \in m_playdarpeers THEN 1 ELSE 0)
    BY <1>2, <1>3 DEF Numbering, Positions
  <2>2. session1[0] = session[1]
    BY <1>2, <1>4
  <2> QED
    BY <1>1, <1>2, <2>1, <2>2
<1> QED
  BY <1>2, <1>4, <1>5, <1>6, <1>7, <1>8 DEF Numbered, Numbering, Positions

-----------------------------------------------------------------------------
(* The other three parts of Tracked.                                       *)

\* What is said of p depends on p's part of the state.
LEMMA Unconcerned ==
    ASSUME NEW p \in Peer, Tracked(p), stream'[p] = stream[p], asked'[p] = asked[p],
           p \in online' <=> p \in online, p \in m_playdarpeers' <=> p \in m_playdarpeers,
           reported'[p] = reported[p], logins'[p] = logins[p]
    PROVE  Tracked(p)'
<1>1. \A i : LogoutSince(p, i)' <=> LogoutSince(p, i)
  BY DEF LogoutSince, Positions
<1>2. LogoutFollows(p)' /\ OnlyCapable(p)' /\ NotForgotten(p)'
  BY <1>1 DEF Tracked, LogoutFollows, OnlyCapable, NotForgotten, Awaited, Positions
<1>3. Numbered(p)'
  BY DEF Tracked, Numbered, Numbering, Positions
<1> QED
  BY <1>2, <1>3 DEF Tracked

\* A session sends presence and answers of its own only while it is online,
\* and "unavailable" as it leaves.
LEMMA SentKeeps ==
    ASSUME TypeOK, NEW p \in Peer, Tracked(p), NEW x \in Stanza,
           stream'[p] = Append(stream[p], x), m_playdarpeers' = m_playdarpeers,
           x = "feature" => p \in Playdar,
           x = "unavailable" => p \notin online',
           x # "unavailable" => (p \in online => p \in online'),
           x \in {"available", "feature"} => p \in online',
           p \in online' /\ p \notin online => x = "available",
           asked'[p] = asked[p] \/ p \notin online' \/ x = "feature" \/ p \notin Playdar
    PROVE  LogoutFollows(p)' /\ OnlyCapable(p)' /\ NotForgotten(p)'
<1> DEFINE n == Len(stream[p])
<1>1. stream[p] \in Seq(Stanza)
  BY DEF TypeOK
<1>2. /\ n \in Nat /\ Len(stream'[p]) = n + 1 /\ stream'[p][n + 1] = x
      /\ \A i \in 1..n : stream'[p][i] = stream[p][i]
  BY <1>1, Appended
<1>3. \A i \in 1..n + 1 : LogoutSince(p, i)' <=> LogoutSince(p, i) \/ x = "unavailable"
  BY <1>1, <1>2, LogoutAppended
<1>4. LogoutFollows(p)'
  <2> SUFFICES ASSUME p \notin online'
               PROVE  /\ p \in m_playdarpeers' => LogoutSince(p, 1)'
                      /\ \A i \in 1..n + 1 : stream'[p][i] \in {"available", "feature"}
                                               => LogoutSince(p, i)'
    BY <1>2 DEF LogoutFollows, Positions
  <2>1. CASE x = "unavailable"
    BY <1>2, <1>3, <2>1
  <2>2. CASE x # "unavailable"
    <3>1. p \notin online
      BY <2>2
    <3>2. /\ p \in m_playdarpeers => LogoutSince(p, 1)
          /\ \A i \in 1..n : stream[p][i] \in {"available", "feature"} => LogoutSince(p, i)
      BY <3>1 DEF Tracked, LogoutFollows, Positions
    <3>3. p \in m_playdarpeers' => LogoutSince(p, 1)'
      BY <1>2, <1>3, <3>2
    <3>4. ASSUME NEW i \in 1..n + 1, stream'[p][i] \in {"available", "feature"}
          PROVE  LogoutSince(p, i)'
      <4>1. i \in 1..n
        BY <1>2, <3>4
      <4> QED
        BY <1>2, <1>3, <3>2, <3>4, <4>1
    <3> QED
      BY <3>3, <3>4
  <2> QED
    BY <2>1, <2>2
<1>5. OnlyCapable(p)'
  <2>1. ASSUME NEW i \in 1..n + 1, stream'[p][i] = "feature"
        PROVE  p \in Playdar
    <3>1. CASE i \in 1..n
      BY <1>2, <2>1, <3>1 DEF Tracked, OnlyCapable, Positions
    <3>2. CASE i = n + 1
      BY <1>2, <2>1, <3>2
    <3> QED
      BY <1>2, <3>1, <3>2
  <2> QED
    BY <1>2, <2>1 DEF Tracked, OnlyCapable, Positions
<1>6. NotForgotten(p)'
  <2> SUFFICES ASSUME p \in online', p \in Playdar \cup Google
               PROVE  Awaited(p)'
    BY DEF NotForgotten
  <2>1. x # "unavailable"
    OBVIOUS
  <2>2. ~LogoutSince(p, n + 1)
    BY <1>2 DEF LogoutSince, Positions
  <2>3. CASE x \in {"available", "feature"}
    <3>1. PICK last \in 1..n + 1 : last = n + 1
      BY <1>2
    <3>2. last \in 1..Len(stream'[p]) /\ stream'[p][last] = x /\ ~LogoutSince(p, last)'
      BY <1>2, <1>3, <2>1, <2>2, <3>1
    <3> QED
      BY <2>3, <3>2 DEF Awaited, Positions
  <2>4. CASE x \notin {"available", "feature"}
    <3>1. Awaited(p)
      BY <2>4 DEF Tracked, NotForgotten
    <3>2. CASE p \in m_playdarpeers /\ ~LogoutSince(p, 1)
      <4>1. ~LogoutSince(p, 1)'
        BY <1>2, <1>3, <2>1, <3>2
      <4> QED
        BY <3>2, <4>1 DEF Awaited
    <3>3. CASE p \in Playdar /\ asked[p] > 0
      BY <2>4, <3>3 DEF Awaited
    <3>4. CASE \E i \in Positions(p) : /\ stream[p][i] \in {"available", "feature"}
                                       /\ ~LogoutSince(p, i)
      <4>1. PICK i \in 1..n : stream[p][i] \in {"available", "feature"} /\ ~LogoutSince(p, i)
        BY <3>4 DEF Positions
      <4>2. i \in 1..n + 1 /\ stream'[p][i] \in {"available", "feature"} /\ ~LogoutSince(p, i)'
        BY <1>2, <1>3, <2>1, <4>1
      <4> QED
        BY <1>2, <4>2 DEF Awaited, Positions
    <3> QED
      BY <3>1, <3>2, <3>3, <3>4 DEF Awaited
  <2> QED
    BY <2>3, <2>4
<1> QED
  BY <1>4, <1>5, <1>6

\* A stanza that we handle lists a capable session, strikes one that left,
\* or makes us ask.
LEMMA HandledKeeps ==
    ASSUME TypeOK, NEW p \in Peer, Tracked(p), stream[p] # <<>>,
           stream'[p] = Tail(stream[p]), online' = online,
           Head(stream[p]) = "unavailable" => p \notin m_playdarpeers',
           Head(stream[p]) # "unavailable" => (p \in m_playdarpeers => p \in m_playdarpeers'),
           p \in m_playdarpeers' /\ p \notin m_playdarpeers =>
               /\ Head(stream[p]) \in {"available", "feature"}
               /\ p \in Playdar \cup Google,
           asked[p] > 0 => asked'[p] > 0,
           Head(stream[p]) = "feature" => p \in m_playdarpeers',
           Head(stream[p]) = "available" =>
               /\ p \in Google => p \in m_playdarpeers'
               /\ asked'[p] > 0
    PROVE  LogoutFollows(p)' /\ OnlyCapable(p)' /\ NotForgotten(p)'
<1> DEFINE n == Len(stream[p])
<1>1. stream[p] \in Seq(Stanza)
  BY DEF TypeOK
<1>2. /\ n \in Nat \ {0} /\ Len(stream'[p]) = n - 1 /\ Head(stream[p]) = stream[p][1]
      /\ \A i \in 1..n - 1 : stream'[p][i] = stream[p][i+1]
  BY <1>1, Popped
<1>3. \A i \in 1..n : LogoutSince(p, i)' <=> LogoutSince(p, i + 1)
  BY <1>1, <1>2, LogoutPopped
<1>4. Head(stream[p]) # "unavailable" => (LogoutSince(p, 1) <=> LogoutSince(p, 1)')
  BY <1>2, <1>3 DEF LogoutSince, Positions
<1>5. LogoutFollows(p)'
  <2> SUFFICES ASSUME p \notin online
               PROVE  /\ p \in m_playdarpeers' => LogoutSince(p, 1)'
                      /\ \A i \in 1..n - 1 : stream'[p][i] \in {"available", "feature"}
                                               => LogoutSince(p, i)'
    BY <1>2 DEF LogoutFollows, Positions
  <2>1. /\ p \in m_playdarpeers => LogoutSince(p, 1)
        /\ \A i \in 1..n : stream[p][i] \in {"available", "feature"} => LogoutSince(p, i)
    BY DEF Tracked, LogoutFollows, Positions
  <2>2. p \in m_playdarpeers' => LogoutSince(p, 1)'
    BY <1>2, <1>4, <2>1
  <2>3. ASSUME NEW i \in 1..n - 1, stream'[p][i] \in {"available", "feature"}
        PROVE  LogoutSince(p, i)'
    <3>1. i + 1 \in 1..n /\ stream[p][i+1] \in {"available", "feature"}
      BY <1>2, <2>3
    <3> QED
      BY <1>2, <1>3, <2>1, <3>1
  <2> QED
    BY <2>2, <2>3
<1>6. OnlyCapable(p)'
  <2>1. ASSUME NEW i \in 1..n - 1, stream'[p][i] = "feature"
        PROVE  p \in Playdar
    <3>1. i + 1 \in 1..n /\ stream[p][i+1] = "feature"
      BY <1>2, <2>1
    <3> QED
      BY <3>1 DEF Tracked, OnlyCapable, Positions
  <2> QED
    BY <1>2, <2>1 DEF Tracked, OnlyCapable, Positions
<1>7. NotForgotten(p)'
  <2> SUFFICES ASSUME p \in online, p \in Playdar \cup Google
               PROVE  Awaited(p)'
    BY DEF NotForgotten
  <2>1. CASE p \in m_playdarpeers /\ ~LogoutSince(p, 1)
    <3>1. Head(stream[p]) # "unavailable"
      BY <1>2, <2>1 DEF LogoutSince, Positions
    <3> QED
      BY <1>4, <2>1, <3>1 DEF Awaited
  <2>2. CASE p \in Playdar /\ asked[p] > 0
    BY <2>2 DEF Awaited
  <2>3. ASSUME NEW i \in 1..n, stream[p][i] \in {"available", "feature"}, ~LogoutSince(p, i)
        PROVE  Awaited(p)'
    <3>1. CASE i = 1
      <4>1. Head(stream[p]) \in {"available", "feature"} /\ ~LogoutSince(p, 1)'
        BY <1>2, <1>4, <2>3, <3>1
      <4>2. p \in m_playdarpeers' \/ (p \in Playdar /\ asked'[p] > 0)
        BY <4>1
      <4> QED
        BY <4>1, <4>2 DEF Awaited
    <3>2. CASE i # 1
      <4>1. i - 1 \in 1..n - 1 /\ i - 1 + 1 = i
        BY <1>2, <3>2
      <4>2. stream'[p][i-1] \in {"available", "feature"} /\ ~LogoutSince(p, i-1)'
        BY <1>2, <1>3, <2>3, <4>1
      <4> QED
        BY <1>2, <4>1, <4>2 DEF Awaited, Positions
    <3> QED
      BY <3>1, <3>2
  <2> QED
    BY <2>1, <2>2, <2>3 DEF Tracked, NotForgotten, Awaited, Positions
<1> QED
  BY <1>5, <1>6, <1>7

-----------------------------------------------------------------------------
(* One lemma per action: it keeps the types and tracks its session.        *)

LEMMA ReceivedType ==
    ASSUME TypeOK, NEW p \in Peer, NEW x \in Stanza, Received(p, x)
    PROVE  /\ stream' \in [Peer -> Seq(Stanza)]
           /\ stream'[p] = Append(stream[p], x)
BY Appended DEF TypeOK, Received

LEMMA HandledType ==
    ASSUME TypeOK, NEW p \in Peer, stream[p] # <<>>, Handled(p)
    PROVE  /\ stream' \in [Peer -> Seq(Stanza)]
           /\ stream'[p] = Tail(stream[p])
           /\ Head(stream[p]) \in Stanza
BY Popped DEF TypeOK, Handled

LEMMA LoginInv ==
    ASSUME TypeOK, NEW p \in Peer, Tracked(p), Login(p)
    PROVE  TypeOK' /\ Tracked(p)'
<1>1. "available" \in Stanza
  BY DEF Stanza
<1>2. stream' \in [Peer -> Seq(Stanza)] /\ stream'[p] = Append(stream[p], "available")
  BY <1>1, ReceivedType DEF Login
<1>3. TypeOK'
  <2>1. logins' \in [Peer -> Nat]
    BY DEF Login, TypeOK
  <2> QED
    BY <1>2, <2>1 DEF Login, TypeOK
<1>4. LogoutFollows(p)' /\ OnlyCapable(p)' /\ NotForgotten(p)'
  BY <1>1, <1>2, SentKeeps DEF Login
<1>5. Numbered(p)'
  <2>1. logins'[p] = logins[p] + 1 /\ logins[p] \in Nat
    BY DEF Login, TypeOK
  <2> QED
    BY <1>1, <1>2, <1>3, <2>1, NumberAppended DEF Login, Tracked
<1> QED
  BY <1>3, <1>4, <1>5 DEF Tracked

LEMMA LogoutInv ==
    ASSUME TypeOK, NEW p \in Peer, Tracked(p), Logout(p)
    PROVE  TypeOK' /\ Tracked(p)'
<1>1. "unavailable" \in Stanza
  BY DEF Stanza
<1>2. stream' \in [Peer -> Seq(Stanza)] /\ stream'[p] = Append(stream[p], "unavailable")
  BY <1>1, ReceivedType DEF Logout
<1>3. TypeOK'
  BY <1>2 DEF Logout, TypeOK
<1>4. LogoutFollows(p)' /\ OnlyCapable(p)' /\ NotForgotten(p)'
  BY <1>1, <1>2, SentKeeps DEF Logout
<1>5. Numbered(p)'
  <2>1. logins'[p] = logins[p] /\ logins[p] \in Nat
    BY DEF Logout, TypeOK
  <2> QED
    BY <1>1, <1>2, <1>3, <2>1, NumberAppended DEF Logout, Tracked
<1> QED
  BY <1>3, <1>4, <1>5 DEF Tracked

LEMMA ChangeStatusInv ==
    ASSUME TypeOK, NEW p \in Peer, Tracked(p), ChangeStatus(p)
    PROVE  TypeOK' /\ Tracked(p)'
<1>1. "available" \in Stanza
  BY DEF Stanza
<1>2. stream' \in [Peer -> Seq(Stanza)] /\ stream'[p] = Append(stream[p], "available")
  BY <1>1, ReceivedType DEF ChangeStatus
<1>3. TypeOK'
  <2>1. changes' \in [Peer -> Nat]
    BY DEF ChangeStatus, TypeOK
  <2> QED
    BY <1>2, <2>1 DEF ChangeStatus, TypeOK
<1>4. LogoutFollows(p)' /\ OnlyCapable(p)' /\ NotForgotten(p)'
  BY <1>1, <1>2, SentKeeps DEF ChangeStatus
<1>5. Numbered(p)'
  <2>1. logins[p] \in Nat
    BY DEF TypeOK
  <2> QED
    BY <1>1, <1>2, <1>3, <2>1, NumberAppended DEF ChangeStatus, Tracked
<1> QED
  BY <1>3, <1>4, <1>5 DEF Tracked

LEMMA AnswerDiscoInv ==
    ASSUME TypeOK, NEW p \in Peer, Tracked(p), AnswerDisco(p)
    PROVE  TypeOK' /\ Tracked(p)'
<1> DEFINE x == IF p \notin online THEN "error"
                ELSE IF p \in Playdar THEN "feature" ELSE "nofeature"
<1>1. /\ x \in Stanza \ {"available", "unavailable"}
      /\ p \notin online <=> x = "error"
      /\ x = "feature" => p \in Playdar
      /\ p \in online /\ p \in Playdar => x = "feature"
  BY DEF Stanza
<1>2. Received(p, x)
  BY DEF AnswerDisco
<1>3. UNCHANGED <<online, logins, changes, m_playdarpeers, reported>>
  BY DEF AnswerDisco, peerVars
<1> HIDE DEF x
<1>4. stream' \in [Peer -> Seq(Stanza)] /\ stream'[p] = Append(stream[p], x)
  BY <1>1, <1>2, ReceivedType
<1>5. TypeOK'
  <2>1. asked' \in [Peer -> Nat]
    BY DEF AnswerDisco, TypeOK
  <2> QED
    BY <1>3, <1>4, <2>1 DEF TypeOK
<1>6. LogoutFollows(p)' /\ OnlyCapable(p)' /\ NotForgotten(p)'
  BY <1>1, <1>3, <1>4, SentKeeps
<1>7. Numbered(p)'
  <2>1. logins[p] \in Nat
    BY DEF TypeOK
  <2> QED
    BY <1>1, <1>3, <1>4, <1>5, <2>1, NumberAppended DEF Tracked
<1> QED
  BY <1>5, <1>6, <1>7 DEF Tracked

\* The report comes with the entry in the list.
LEMMA AddPeerOnce ==
    ASSUME TypeOK, NEW p \in Peer, AddPeer(p)
    PROVE  /\ m_playdarpeers' \subseteq Peer /\ reported' \in [Peer -> Nat]
           /\ p \in m_playdarpeers'
           /\ reported'[p] + (IF p \in m_playdarpeers THEN 1 ELSE 0) = reported[p] + 1
BY DEF AddPeer, AlreadyListed, TypeOK

LEMMA PresenceOfflineInv ==
    ASSUME TypeOK, NEW p \in Peer, Tracked(p), PresenceOffline(p)
    PROVE  TypeOK' /\ Tracked(p)'
<1>1. stream' \in [Peer -> Seq(Stanza)] /\ stream'[p] = Tail(stream[p])
  BY HandledType DEF PresenceOffline
<1>2. TypeOK'
  BY <1>1 DEF PresenceOffline, Unlisted, TypeOK, peerVars
<1>3. LogoutFollows(p)' /\ OnlyCapable(p)' /\ NotForgotten(p)'
  BY <1>1, HandledKeeps DEF PresenceOffline, Unlisted, peerVars
<1>4. Numbered(p)'
  BY <1>1, <1>2, NumberPopped DEF PresenceOffline, Tracked, peerVars
<1> QED
  BY <1>2, <1>3, <1>4 DEF Tracked

LEMMA PresenceOnlineInv ==
    ASSUME TypeOK, NEW p \in Peer, Tracked(p), PresenceOnline(p)
    PROVE  TypeOK' /\ Tracked(p)'
<1>1. stream' \in [Peer -> Seq(Stanza)] /\ stream'[p] = Tail(stream[p])
  BY HandledType DEF PresenceOnline
<1>2. ~BareJidListed(p)
  BY BareJidAssumption DEF BareJidListed, TypeOK
<1>3. /\ stream[p] # <<>> /\ Head(stream[p]) = "available"
      /\ online' = online /\ logins' = logins /\ changes' = changes
  BY DEF PresenceOnline, peerVars
<1>4. asked' \in [Peer -> Nat] /\ asked'[p] > 0
  BY <1>2 DEF PresenceOnline, AsksDisco, TypeOK
<1>5. CASE p \in Google /\ AddPeer(p)
  <2>1. TypeOK'
    BY <1>1, <1>3, <1>4, <1>5, AddPeerOnce DEF TypeOK
  <2>2. LogoutFollows(p)' /\ OnlyCapable(p)' /\ NotForgotten(p)'
    BY <1>1, <1>3, <1>4, <1>5, AddPeerOnce, HandledKeeps
  <2>3. Numbered(p)'
    <3>1. reported'[p] + (IF p \in m_playdarpeers THEN 1 ELSE 0)
              <= reported[p] + (IF p \in m_playdarpeers' THEN 1 ELSE 0)
      BY <1>5, AddPeerOnce DEF TypeOK
    <3> QED
      BY <1>1, <1>3, <2>1, <3>1, NumberPopped DEF Tracked
  <2> QED
    BY <2>1, <2>2, <2>3 DEF Tracked
<1>6. CASE p \notin Google /\ UNCHANGED <<m_playdarpeers, reported>>
  <2>1. TypeOK'
    BY <1>1, <1>3, <1>4, <1>6 DEF TypeOK
  <2>2. LogoutFollows(p)' /\ OnlyCapable(p)' /\ NotForgotten(p)'
    BY <1>1, <1>3, <1>4, <1>6, HandledKeeps
  <2>3. Numbered(p)'
    <3>1. reported'[p] + (IF p \in m_playdarpeers THEN 1 ELSE 0)
              <= reported[p] + (IF p \in m_playdarpeers' THEN 1 ELSE 0)
      BY <1>6 DEF TypeOK
    <3> QED
      BY <1>1, <1>3, <2>1, <3>1, NumberPopped DEF Tracked
  <2> QED
    BY <2>1, <2>2, <2>3 DEF Tracked
<1> QED
  BY <1>2, <1>5, <1>6 DEF PresenceOnline

LEMMA DiscoInfoInv ==
    ASSUME TypeOK, NEW p \in Peer, Tracked(p), handleDiscoInfo(p)
    PROVE  TypeOK' /\ Tracked(p)'
<1>1. stream' \in [Peer -> Seq(Stanza)] /\ stream'[p] = Tail(stream[p])
  BY HandledType DEF handleDiscoInfo
<1>2. /\ stream[p] # <<>> /\ asked' = asked
      /\ online' = online /\ logins' = logins /\ changes' = changes
  BY DEF handleDiscoInfo, peerVars
<1>3. CASE Head(stream[p]) = "feature" /\ AddPeer(p)
  <2>1. TypeOK'
    BY <1>1, <1>2, <1>3, AddPeerOnce DEF TypeOK
  <2>2. p \in Playdar
    <3>1. 1 \in Positions(p) /\ stream[p][1] = "feature"
      BY <1>2, <1>3, Popped DEF Positions, TypeOK
    <3> QED
      BY <3>1 DEF Tracked, OnlyCapable
  <2>3. LogoutFollows(p)' /\ OnlyCapable(p)' /\ NotForgotten(p)'
    BY <1>1, <1>2, <1>3, <2>2, AddPeerOnce, HandledKeeps
  <2>4. Numbered(p)'
    <3>1. reported'[p] + (IF p \in m_playdarpeers THEN 1 ELSE 0)
              <= reported[p] + (IF p \in m_playdarpeers' THEN 1 ELSE 0)
      BY <1>3, AddPeerOnce DEF TypeOK
    <3> QED
      BY <1>1, <1>2, <2>1, <3>1, NumberPopped DEF Tracked
  <2> QED
    BY <2>1, <2>3, <2>4 DEF Tracked
<1>4. CASE Head(stream[p]) = "nofeature" /\ UNCHANGED <<m_playdarpeers, reported>>
  <2>1. TypeOK'
    BY <1>1, <1>2, <1>4 DEF TypeOK
  <2>2. LogoutFollows(p)' /\ OnlyCapable(p)' /\ NotForgotten(p)'
    BY <1>1, <1>2, <1>4, HandledKeeps
  <2>3. Numbered(p)'
    <3>1. reported'[p] + (IF p \in m_playdarpeers THEN 1 ELSE 0)
              <= reported[p] + (IF p \in m_playdarpeers' THEN 1 ELSE 0)
      BY <1>4 DEF TypeOK
    <3> QED
      BY <1>1, <1>2, <2>1, <3>1, NumberPopped DEF Tracked
  <2> QED
    BY <2>1, <2>2, <2>3 DEF Tracked
<1> QED
  BY <1>3, <1>4 DEF handleDiscoInfo

LEMMA DiscoErrorInv ==
    ASSUME TypeOK, NEW p \in Peer, Tracked(p), handleDiscoError(p)
    PROVE  TypeOK' /\ Tracked(p)'
<1>1. stream' \in [Peer -> Seq(Stanza)] /\ stream'[p] = Tail(stream[p])
  BY HandledType DEF handleDiscoError
<1>2. /\ stream[p] # <<>> /\ Head(stream[p]) = "error"
      /\ UNCHANGED <<online, logins, changes, asked, m_playdarpeers, reported>>
  BY DEF handleDiscoError, peerVars
<1>3. TypeOK'
  BY <1>1, <1>2 DEF TypeOK
<1>4. LogoutFollows(p)' /\ OnlyCapable(p)' /\ NotForgotten(p)'
  BY <1>1, <1>2, HandledKeeps
<1>5. Numbered(p)'
  <2>1. reported'[p] + (IF p \in m_playdarpeers THEN 1 ELSE 0)
            <= reported[p] + (IF p \in m_playdarpeers' THEN 1 ELSE 0)
    BY <1>2 DEF TypeOK
  <2> QED
    BY <1>1, <1>2, <1>3, <2>1, NumberPopped DEF Tracked
<1> QED
  BY <1>3, <1>4, <1>5 DEF Tracked

-----------------------------------------------------------------------------
LEMMA InitInv == Init => Inv
<1> SUFFICES ASSUME Init PROVE Inv
  OBVIOUS
<1>1. TypeOK
  <2>1. <<"available">> \in Seq(Stanza) /\ <<>> \in Seq(Stanza)
    BY DEF Stanza
  <2> QED
    BY <2>1 DEF Init, TypeOK
<1>2. ASSUME NEW p \in Peer PROVE Tracked(p)
  <2>1. CASE p \in online
    <3>1. stream[p] = <<"available">> /\ logins[p] = 1 /\ reported[p] = 0 /\ m_playdarpeers = {}
      BY <2>1 DEF Init
    <3>2. Positions(p) = {1} /\ stream[p][1] = "available" /\ Len(stream[p]) = 1
      BY <3>1 DEF Positions
    <3>3. LogoutFollows(p) /\ OnlyCapable(p) /\ NotForgotten(p)
      BY <2>1, <3>1, <3>2 DEF LogoutFollows, OnlyCapable, NotForgotten, Awaited, LogoutSince
    <3>4. Numbering(p, [i \in 0..1 |-> 0])
      BY <2>1, <3>1, <3>2 DEF Numbering
    <3>5. [i \in 0..1 |-> 0] \in [0..Len(stream[p]) -> Nat]
      BY <3>2
    <3> QED
      BY <3>3, <3>4, <3>5 DEF Tracked, Numbered
  <2>2. CASE p \notin online
    <3>1. stream[p] = <<>> /\ logins[p] = 0 /\ reported[p] = 0 /\ m_playdarpeers = {}
      BY <2>2 DEF Init
    <3>2. Positions(p) = {} /\ Len(stream[p]) = 0
      BY <3>1 DEF Positions
    <3>3. LogoutFollows(p) /\ OnlyCapable(p) /\ NotForgotten(p)
      BY <2>2, <3>1, <3>2 DEF LogoutFollows, OnlyCapable, NotForgotten
    <3>4. Numbering(p, [i \in 0..0 |-> 0])
      BY <2>2, <3>1, <3>2 DEF Numbering
    <3>5. [i \in 0..0 |-> 0] \in [0..Len(stream[p]) -> Nat]
      BY <3>2
    <3> QED
      BY <3>3, <3>4, <3>5 DEF Tracked, Numbered
  <2> QED
    BY <2>1, <2>2
<1> QED
  BY <1>1, <1>2 DEF Inv

\* An action of one session leaves the part of the state of another alone.
LEMMA OthersKept ==
    ASSUME TypeOK, NEW q \in Peer, NEW p \in Peer \ {q}, Tracked(p),
           Login(q) \/ Logout(q) \/ ChangeStatus(q) \/ AnswerDisco(q) \/ Handler(q)
    PROVE  Tracked(p)'
<1>1. stream'[p] = stream[p] /\ logins'[p] = logins[p]
  BY DEF TypeOK, Login, Logout, ChangeStatus, AnswerDisco, Handler, PresenceOffline,
         PresenceOnline, handleDiscoInfo, handleDiscoError, Received, Handled, peerVars
<1>2. asked'[p] = asked[p] /\ reported'[p] = reported[p]
  BY DEF TypeOK, Login, Logout, ChangeStatus, AnswerDisco, Handler, PresenceOffline,
         PresenceOnline, handleDiscoInfo, handleDiscoError, AddPeer
<1>3. p \in online' <=> p \in online
  BY DEF Login, Logout, ChangeStatus, AnswerDisco, Handler, PresenceOffline,
         PresenceOnline, handleDiscoInfo, handleDiscoError, peerVars
<1>4. p \in m_playdarpeers' <=> p \in m_playdarpeers
  BY DEF Login, Logout, ChangeStatus, AnswerDisco, Handler, PresenceOffline,
         PresenceOnline, handleDiscoInfo, handleDiscoError, AddPeer, Unlisted
<1> QED
  BY <1>1, <1>2, <1>3, <1>4, Unconcerned

LEMMA StepInv ==
    ASSUME Inv, NEW q \in Peer,
           Login(q) \/ Logout(q) \/ ChangeStatus(q) \/ AnswerDisco(q) \/ Handler(q)
    PROVE  Inv'
<1>1. TypeOK /\ Tracked(q)
  BY DEF Inv
<1>2. TypeOK' /\ Tracked(q)'
  BY <1>1, LoginInv, LogoutInv, ChangeStatusInv, AnswerDiscoInv, PresenceOfflineInv,
     PresenceOnlineInv, DiscoInfoInv, DiscoErrorInv DEF Handler
<1>3. ASSUME NEW p \in Peer \ {q} PROVE Tracked(p)'
  BY <1>1, OthersKept DEF Inv
<1> QED
  BY <1>2, <1>3 DEF Inv

LEMMA NextInv == Inv /\ [Next]_vars => Inv'
<1> SUFFICES ASSUME Inv, [Next]_vars PROVE Inv'
  OBVIOUS
<1>1. CASE Next
  BY <1>1, StepInv DEF Next
<1>2. CASE UNCHANGED vars
  <2>1. TypeOK'
    BY <1>2 DEF Inv, TypeOK, vars
  <2>2. ASSUME NEW p \in Peer PROVE Tracked(p)'
    BY <1>2, Unconcerned DEF Inv, vars
  <2> QED
    BY <2>1, <2>2 DEF Inv
<1> QED
  BY <1>1, <1>2

\* What the stanzas under way, the list and the reports have to do with each
\* other holds throughout, whatever logins, logouts and answers overlap.
THEOREM Invariance == Spec => []Inv
BY InitInv, NextInv, PTL DEF Spec

\* Every variable keeps its type; only sessions get into m_playdarpeers.
THEOREM TypeCorrect == Spec => []TypeOK
<1>1. Inv => TypeOK
  BY DEF Inv
<1> QED
  BY <1>1, Invariance, PTL

\* Once nothing of a session is under way, m_playdarpeers has it exactly if
\* it is online and a greynet node (handleRosterPresence, handleDiscoInfo).
THEOREM ListCurrent == Spec => []ListIsCurrent
<1>1. Inv => ListIsCurrent
  <2> SUFFICES ASSUME Inv, NEW p \in Peer, stream[p] = <<>>, asked[p] = 0
               PROVE  p \in m_playdarpeers <=> p \in online /\ p \in Playdar \cup Google
    BY DEF ListIsCurrent
  <2>1. Positions(p) = {}
    BY DEF Positions
  <2> QED
    BY <2>1 DEF Inv, Tracked, LogoutFollows, OnlyCapable, NotForgotten, Awaited, LogoutSince
<1> QED
  BY <1>1, Invariance, PTL

\* greynet hears of a session at most once for each of its logins, so that no
\* login makes two advertisements of ours (the check before m_new_peer_cb).
THEOREM OneReportPerLogin == Spec => []ReportedOncePerLogin
<1>1. Inv => ReportedOncePerLogin
  <2> SUFFICES ASSUME Inv, NEW p \in Peer PROVE reported[p] <= logins[p]
    BY DEF ReportedOncePerLogin
  <2> DEFINE n == Len(stream[p])
  <2>1. n \in Nat /\ reported[p] \in Nat /\ logins[p] \in Nat
    BY DEF Inv, TypeOK
  <2>2. PICK session \in [0..n -> Nat] : Numbering(p, session)
    BY DEF Inv, Tracked, Numbered
  <2>3. /\ session[0] \in Nat /\ session[n] \in Nat /\ session[0] <= session[n]
        /\ session[n] + (IF p \in online THEN 1 ELSE 0) <= logins[p]
        /\ reported[p] <= session[0] + (IF p \in m_playdarpeers THEN 1 ELSE 0)
    BY <2>1, <2>2 DEF Numbering
  <2>4. CASE p \notin m_playdarpeers \/ p \in online
    BY <2>1, <2>3, <2>4
  <2>5. CASE p \in m_playdarpeers /\ p \notin online
    <3>1. PICK k \in 1..n : stream[p][k] = "unavailable"
      BY <2>5 DEF Inv, Tracked, LogoutFollows, LogoutSince, Positions
    <3>2. 0 \in 0..n /\ k - 1 \in 0..n /\ k \in 0..n /\ n \in 0..n /\ 0 <= k - 1 /\ k <= n
      BY <2>1, <3>1
    <3>3. /\ session[0] <= session[k-1] /\ session[k-1] < session[k] /\ session[k] <= session[n]
          /\ session[k-1] \in Nat /\ session[k] \in Nat
      BY <2>2, <3>1, <3>2 DEF Numbering, Positions
    <3> QED
      BY <2>1, <2>3, <2>5, <3>3
  <2> QED
    BY <2>4, <2>5
<1> QED
  BY <1>1, Invariance, PTL

=============================================================================
