--------------------------- MODULE GreynetUrlProofs ---------------------------
(***************************************************************************)
(* Taking a url apart undoes composing it, for names without a ";".        *)
(***************************************************************************)
EXTENDS GreynetUrl, SequenceTheorems, TLAPS

\* c consists of a and b.
Joins(c, a, b) ==
    /\ Len(c) = Len(a) + Len(b)
    /\ \A i \in 1..Len(a) : c[i] = a[i]
    /\ \A i \in 1..Len(b) : c[Len(a) + i] = b[i]

\* Where the elements of a concatenation are.
LEMMA Joined ==
    ASSUME NEW S, NEW a \in Seq(S), NEW b \in Seq(S)
    PROVE  a \o b \in Seq(S) /\ Joins(a \o b, a, b)
<1>1. Len(a) \in Nat /\ Len(b) \in Nat
  OBVIOUS
<1>2. /\ a \o b \in Seq(S)
      /\ Len(a \o b) = Len(a) + Len(b)
      /\ \A i \in 1..(Len(a) + Len(b)) :
            (a \o b)[i] = IF i <= Len(a) THEN a[i] ELSE b[i - Len(a)]
  BY ConcatProperties
<1>3. ASSUME NEW i \in 1..Len(b)
      PROVE  (a \o b)[Len(a) + i] = b[i]
  <2>1. /\ Len(a) + i \in 1..(Len(a) + Len(b))
        /\ ~(Len(a) + i <= Len(a))
        /\ (Len(a) + i) - Len(a) = i
    BY <1>1
  <2> QED
    BY <1>2, <2>1
<1> QED
  BY <1>1, <1>2, <1>3 DEF Joins

\* Where the characters of a composed url are.
Layout(url, name, id) ==
    /\ Len(url) = 11 + Len(name) + Len(id)
    /\ \A i \in 1..Len(name) : url[10 + i] = name[i]
    /\ url[11 + Len(name)] = Separator
    /\ \A i \in 1..Len(id) : url[11 + Len(name) + i] = id[i]

\* handle_queryresult puts them there.
LEMMA UrlLayout ==
    ASSUME NEW Char, Scheme \in Seq(Char), Separator \in Char,
           NEW name \in Seq(Char), NEW id \in Seq(Char)
    PROVE  /\ greynet_url(name, id) \in Seq(Char)
           /\ Layout(greynet_url(name, id), name, id)
<1> DEFINE front == Scheme \o name
           mark  == <<Separator>>
           mid   == front \o mark
           url   == mid \o id
<1>0. /\ Len(Scheme) = 10 /\ Len(name) \in Nat /\ Len(id) \in Nat
      /\ mark \in Seq(Char) /\ Len(mark) = 1 /\ mark[1] = Separator
  BY DEF Scheme
<1>1. /\ front \in Seq(Char)
      /\ Len(front) = 10 + Len(name)
      /\ \A i \in 1..Len(name) : front[10 + i] = name[i]
  <2>1. front \in Seq(Char) /\ Joins(front, Scheme, name)
    BY Joined
  <2> QED
    BY <1>0, <2>1 DEF Joins
<1> HIDE DEF front, mark
<1>2. /\ mid \in Seq(Char)
      /\ Len(mid) = 11 + Len(name)
      /\ \A i \in 1..Len(front) : mid[i] = front[i]
      /\ \A i \in 1..Len(mark) : mid[Len(front) + i] = mark[i]
  <2>1. mid \in Seq(Char) /\ Joins(mid, front, mark)
    BY <1>0, <1>1, Joined
  <2> QED
    BY <1>0, <1>1, <2>1 DEF Joins
<1>3. mid[11 + Len(name)] = Separator
  BY <1>0, <1>1, <1>2
<1>4. \A i \in 1..Len(name) : mid[10 + i] = name[i]
  <2> SUFFICES ASSUME NEW i \in 1..Len(name)
               PROVE  mid[10 + i] = name[i]
    OBVIOUS
  <2>1. 10 + i \in 1..Len(front)
    BY <1>0, <1>1
  <2> QED
    BY <1>1, <1>2, <2>1
<1> HIDE DEF mid
<1>5. /\ url \in Seq(Char)
      /\ Len(url) = Len(mid) + Len(id)
      /\ \A i \in 1..Len(mid) : url[i] = mid[i]
      /\ \A i \in 1..Len(id) : url[Len(mid) + i] = id[i]
  <2>1. url \in Seq(Char) /\ Joins(url, mid, id)
    BY <1>2, Joined
  <2> QED
    BY <2>1 DEF Joins
<1>6. \A i \in 1..Len(name) : url[10 + i] = name[i]
  <2> SUFFICES ASSUME NEW i \in 1..Len(name)
               PROVE  url[10 + i] = name[i]
    OBVIOUS
  <2>1. 10 + i \in 1..Len(mid)
    BY <1>0, <1>2
  <2> QED
    BY <1>4, <1>5, <2>1
<1>7. url[11 + Len(name)] = Separator
  <2>1. 11 + Len(name) \in 1..Len(mid)
    BY <1>0, <1>2
  <2> QED
    BY <1>3, <1>5, <2>1
<1>8. url = greynet_url(name, id)
  BY DEF greynet_url, mid, front, mark
<1> HIDE DEF url
<1>9. Layout(url, name, id)
  BY <1>0, <1>2, <1>5, <1>6, <1>7 DEF Layout
<1> QED
  BY <1>5, <1>8, <1>9

\* The factory finds the ";" that was put between the name and the sid,
\* whatever the sid contains.
LEMMA FirstSeparator ==
    ASSUME NEW Char, Scheme \in Seq(Char), Separator \in Char,
           NEW name \in Seq(Char), NEW id \in Seq(Char),
           \A i \in 1..Len(name) : name[i] # Separator
    PROVE  offset2(greynet_url(name, id)) = 11 + Len(name)
<1> DEFINE url == greynet_url(name, id)
           at  == 11 + Len(name)
<1>1. /\ Len(url) = 11 + Len(name) + Len(id)
      /\ \A i \in 1..Len(name) : url[10 + i] = name[i]
      /\ url[at] = Separator
  <2>1. Layout(url, name, id)
    BY UrlLayout
  <2> HIDE DEF url
  <2> QED
    BY <2>1 DEF Layout
<1>2. at \in Separators(url)
  BY <1>1 DEF Separators, offset
<1>3. \A k \in Separators(url) : at <= k
  <2> SUFFICES ASSUME NEW k \in Separators(url), k < at
               PROVE  FALSE
    BY <1>1 DEF Separators, offset
  <2>1. k \in 11..(10 + Len(name)) /\ url[k] = Separator
    BY DEF Separators, offset
  <2>2. k - 10 \in 1..Len(name) /\ k = 10 + (k - 10)
    BY <2>1
  <2>3. url[k] = name[k - 10]
    BY <1>1, <2>2
  <2> QED
    BY <2>1, <2>2, <2>3
<1>4. \A i \in Separators(url) : (\A k \in Separators(url) : i <= k) => i = at
  BY <1>1, <1>2, <1>3 DEF Separators, offset
<1> QED
  BY <1>2, <1>3, <1>4 DEF offset2

\* factory gets back the name of the connection and the sid that
\* handle_queryresult put into the url, provided that the name, a full jid,
\* has no ";" in its resource.
THEOREM UrlRoundTrip ==
    ASSUME NEW Char, Scheme \in Seq(Char), Separator \in Char,
           NEW name \in Seq(Char), NEW id \in Seq(Char),
           \A i \in 1..Len(name) : name[i] # Separator
    PROVE  /\ username(greynet_url(name, id)) = name
           /\ sid(greynet_url(name, id)) = id
<1> DEFINE url == greynet_url(name, id)
<1>0. Len(name) \in Nat /\ Len(id) \in Nat
  OBVIOUS
<1>1. /\ url \in Seq(Char)
      /\ Len(url) = 11 + Len(name) + Len(id)
      /\ \A i \in 1..Len(name) : url[10 + i] = name[i]
      /\ \A i \in 1..Len(id) : url[11 + Len(name) + i] = id[i]
  <2>1. url \in Seq(Char) /\ Layout(url, name, id)
    BY UrlLayout
  <2> HIDE DEF url
  <2> QED
    BY <2>1 DEF Layout
<1>2. offset2(url) = 11 + Len(name)
  BY FirstSeparator
<1> HIDE DEF url
<1>3. username(url) = SubSeq(url, 11, 10 + Len(name))
  BY <1>2 DEF username, offset
<1>4. SubSeq(url, 11, 10 + Len(name)) = name
  <2> DEFINE part == SubSeq(url, 11, 10 + Len(name))
  <2>1. /\ 11 \in Int /\ 10 + Len(name) \in Int
        /\ \A i \in 11..(10 + Len(name)) : url[i] \in Char
    BY <1>0, <1>1
  <2>2. /\ part \in Seq(Char)
        /\ Len(part) = IF 11 <= 10 + Len(name) THEN (10 + Len(name)) - 11 + 1 ELSE 0
        /\ \A i \in 1..((10 + Len(name)) - 11 + 1) : part[i] = url[11 + i - 1]
    BY <2>1, SubSeqProperties
  <2> HIDE DEF part
  <2>3. Len(part) = Len(name)
    BY <1>0, <2>2
  <2>4. \A i \in 1..Len(part) : part[i] = name[i]
    <3> SUFFICES ASSUME NEW i \in 1..Len(name)
                 PROVE  part[i] = name[i]
      BY <2>3
    <3>1. part[i] = url[11 + i - 1] /\ 11 + i - 1 = 10 + i
      BY <1>0, <2>2
    <3> QED
      BY <1>1, <3>1
  <2>5. part = name
    BY <2>2, <2>3, <2>4, SeqEqual
  <2> QED
    BY <2>5 DEF part
<1>5. sid(url) = SubSeq(url, 12 + Len(name), Len(url))
  BY <1>2 DEF sid
<1>6. SubSeq(url, 12 + Len(name), Len(url)) = id
  <2> DEFINE part == SubSeq(url, 12 + Len(name), Len(url))
  <2>1. /\ 12 + Len(name) \in Int /\ Len(url) \in Int
        /\ \A i \in (12 + Len(name))..Len(url) : url[i] \in Char
    BY <1>0, <1>1
  <2>2. /\ part \in Seq(Char)
        /\ Len(part) = IF 12 + Len(name) <= Len(url)
                          THEN Len(url) - (12 + Len(name)) + 1 ELSE 0
        /\ \A i \in 1..(Len(url) - (12 + Len(name)) + 1) :
              part[i] = url[12 + Len(name) + i - 1]
    BY <2>1, SubSeqProperties
  <2> HIDE DEF part
  <2>3. Len(part) = Len(id)
    BY <1>0, <1>1, <2>2
  <2>4. \A i \in 1..Len(part) : part[i] = id[i]
    <3> SUFFICES ASSUME NEW i \in 1..Len(id)
                 PROVE  part[i] = id[i]
      BY <2>3
    <3>1. /\ part[i] = url[12 + Len(name) + i - 1]
          /\ 12 + Len(name) + i - 1 = 11 + Len(name) + i
      BY <1>0, <1>1, <2>2
    <3> QED
      BY <1>1, <3>1
  <2>5. part = id
    BY <2>2, <2>3, <2>4, SeqEqual
  <2> QED
    BY <2>5 DEF part
<1> QED
  BY <1>3, <1>4, <1>5, <1>6 DEF url

=============================================================================
