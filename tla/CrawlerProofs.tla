---------------------------- MODULE CrawlerProofs ----------------------------
(***************************************************************************)
(* Proofs about the crawl: what each operation of the frontier does to the *)
(* queues and the invariants of the frontier on its own; then, with the    *)
(* same facts about the operations, the inductive invariant of the crawl   *)
(* loop that composes them and what follows from it, politeness first, and *)
(* that the loop implements PoliteCrawl.                                   *)
(*                                                                         *)
(* The argument goes host by host.  A running task holds its host, and two *)
(* tasks never hold the same one, so a step of a task disturbs only what   *)
(* is said of that task and of its host.  VisitKeeps and AbsorbKeeps say   *)
(* so once for every step of a task and for every result the loop takes    *)
(* in; the actions have to show only what they do to their own host.       *)
(***************************************************************************)
EXTENDS CrawlerRefinement, FiniteSetTheorems, SequenceTheorems, TLAPS

-----------------------------------------------------------------------------
(* The frontier *)

\* The URLs of new are appended to the queues of their hosts, each once.
Appends(new, more, depth) ==
  /\ IsFiniteSet(new)
  /\ queue' = [h \in Hosts |-> queue[h] \o more[h]]
  /\ seen' = seen \cup Keys(new)
  /\ queued' = queued + Cardinality(new)
  /\ \A h \in Hosts : \A i \in DOMAIN more[h] :
       more[h][i].url \in AtHost(new, h) /\ more[h][i].depth = depth
  /\ \A h \in Hosts : \A i, j \in DOMAIN more[h] :
       more[h][i].url = more[h][j].url => i = j
  /\ \A h \in Hosts : \A u \in AtHost(new, h) :
       \E i \in DOMAIN more[h] : more[h][i].url = u

\* Every place of the queues is one that was there, unchanged, or a new one
\* behind them that holds a URL of new, on its own host, each once.
Places(new) ==
  /\ queue' \in [Hosts -> Seq(Candidate)]
  /\ seen' = seen \cup Keys(new)
  /\ queued' = queued + Cardinality(new)
  /\ \A h \in Hosts :
       LET old == DOMAIN queue[h]
           added == DOMAIN queue'[h] \ old
       IN  /\ old \subseteq DOMAIN queue'[h]
           /\ \A i \in old : queue'[h][i] = queue[h][i]
           /\ \A i \in added : queue'[h][i].url \in AtHost(new, h)
           /\ \A i, j \in added :
                queue'[h][i].url = queue'[h][j].url => i = j
           /\ \A u \in AtHost(new, h) :
                \E i \in added : queue'[h][i].url = u

\* What maps the first n numbers to elements of S is a sequence over S.
LEMMA SeqOfPlaces ==
  ASSUME NEW S, NEW n \in Nat, NEW s \in [1..n -> S]
  PROVE  s \in Seq(S)
<1>1. s \in UNION {[1..m -> S] : m \in Nat}
  OBVIOUS
<1> QED
  BY <1>1, SeqDef, Zenon

\* What pushing links does: some welcome ones, of different keys, are appended
\* to the queues of their hosts, each once.
LEMMA OfferAdds ==
  ASSUME FrontierTypeOK,
         NEW links \in Links, NEW depth \in Nat, NEW taken,
         Offer(links, depth, taken)
  PROVE  \E new \in Admissions(links, depth, taken),
            more \in [Hosts -> Seq(Candidate)] :
           Appends(new, more, depth)
<1>1. PICK new \in Admissions(links, depth, taken) :
        /\ \E tail \in Arrivals(new) :
             queue' = [h \in Hosts |-> queue[h] \o
                         [i \in DOMAIN tail[h] |->
                            [url |-> tail[h][i], depth |-> depth]]]
        /\ seen' = seen \cup Keys(new)
        /\ queued' = queued + Cardinality(new)
  BY DEF Offer
<1>2. PICK tail \in Arrivals(new) :
        queue' = [h \in Hosts |-> queue[h] \o
                    [i \in DOMAIN tail[h] |->
                       [url |-> tail[h][i], depth |-> depth]]]
  BY <1>1
<1> DEFINE more == [h \in Hosts |-> [i \in DOMAIN tail[h] |->
                                       [url |-> tail[h][i], depth |-> depth]]]
<1>3. new \subseteq links /\ new \subseteq Urls
  BY DEF Admissions, Links
<1>4. IsFiniteSet(new)
  BY <1>3, FS_Subset DEF Links
<1>5. ASSUME NEW h \in Hosts
      PROVE  /\ Cardinality(AtHost(new, h)) \in Nat
             /\ tail[h] \in [1..Cardinality(AtHost(new, h)) -> AtHost(new, h)]
             /\ \A i, j \in DOMAIN tail[h] : tail[h][i] = tail[h][j] => i = j
             /\ \A u \in AtHost(new, h) : \E i \in DOMAIN tail[h] : tail[h][i] = u
  <2>1. AtHost(new, h) \subseteq new
    BY DEF AtHost
  <2>2. Cardinality(AtHost(new, h)) \in Nat
    BY <2>1, <1>4, FS_Subset, FS_CardinalityType
  <2>3. tail[h] \in SetToSeqs(AtHost(new, h))
    BY DEF Arrivals
  <2> DEFINE S == AtHost(new, h)
             n == Cardinality(S)
  <2>4. /\ tail[h] \in [1..n -> S]
        /\ \A i, j \in 1..n : tail[h][i] = tail[h][j] => i = j
    BY <2>3 DEF SetToSeqs
  <2>5. tail[h] \in Injection(1..n, S)
    BY <2>4 DEF Injection, IsInjective
  <2>6. IsFiniteSet(S)
    BY <2>1, <1>4, FS_Subset
  <2>7. n \in Nat
    BY <2>2
  <2> HIDE DEF n
  <2>8. Cardinality(1..n) = n
    BY <2>7, FS_Interval
  <2>9. tail[h] \in Surjection(1..n, S)
    BY <2>5, <2>6, <2>8, FS_Injection DEF n
  <2> QED
    BY <2>2, <2>4, <2>9 DEF Surjection, n
<1>6. more \in [Hosts -> Seq(Candidate)]
  <2> SUFFICES ASSUME NEW h \in Hosts PROVE more[h] \in Seq(Candidate)
    OBVIOUS
  <2> DEFINE n == Cardinality(AtHost(new, h))
  <2>1. /\ n \in Nat
        /\ tail[h] \in [1..n -> AtHost(new, h)]
    BY <1>5
  <2>2. AtHost(new, h) \subseteq Urls
    BY <1>3 DEF AtHost
  <2>3. more[h] = [i \in 1..n |-> [url |-> tail[h][i], depth |-> depth]]
    BY <2>1
  <2> HIDE DEF n, more
  <2>4. \A i \in 1..n : [url |-> tail[h][i], depth |-> depth] \in Candidate
    BY <2>1, <2>2 DEF Candidate
  <2>5. more[h] \in [1..n -> Candidate]
    BY <2>3, <2>4
  <2> QED
    BY <2>1, <2>5, SeqOfPlaces
<1>7. queue' = [h \in Hosts |-> queue[h] \o more[h]]
  BY <1>2
<1>8. \A h \in Hosts : \A i \in DOMAIN more[h] :
        more[h][i].url \in AtHost(new, h) /\ more[h][i].depth = depth
  BY <1>5
<1>9. \A h \in Hosts : \A i, j \in DOMAIN more[h] :
        more[h][i].url = more[h][j].url => i = j
  BY <1>5
<1>10. \A h \in Hosts : \A u \in AtHost(new, h) :
         \E i \in DOMAIN more[h] : more[h][i].url = u
  BY <1>5
<1> HIDE DEF more
<1> QED
  <2>1. Appends(new, more, depth)
    BY <1>1, <1>4, <1>7, <1>8, <1>9, <1>10 DEF Appends
  <2> QED
    BY <2>1, <1>6

\* The places of the queues after links were pushed: an old entry where it
\* was, or behind them all a new one, on its own host, once.
LEMMA OfferPlaces ==
  ASSUME FrontierTypeOK,
         NEW links \in Links, NEW depth \in Nat, NEW taken,
         Offer(links, depth, taken)
  PROVE  \E new \in Admissions(links, depth, taken) :
             IsFiniteSet(new) /\ Places(new)
<1>1. PICK new \in Admissions(links, depth, taken),
           more \in [Hosts -> Seq(Candidate)] : Appends(new, more, depth)
  BY OfferAdds
<1>2. ASSUME NEW h \in Hosts
      PROVE  /\ queue'[h] \in Seq(Candidate)
             /\ DOMAIN queue[h] \subseteq DOMAIN queue'[h]
             /\ \A i \in DOMAIN queue[h] : queue'[h][i] = queue[h][i]
             /\ \A i \in DOMAIN queue'[h] \ DOMAIN queue[h] :
                  queue'[h][i].url \in AtHost(new, h)
             /\ \A i, j \in DOMAIN queue'[h] \ DOMAIN queue[h] :
                  queue'[h][i].url = queue'[h][j].url => i = j
             /\ \A u \in AtHost(new, h) :
                  \E i \in DOMAIN queue'[h] \ DOMAIN queue[h] :
                    queue'[h][i].url = u
  <2> DEFINE old == queue[h]
             add == more[h]
  <2>1. old \in Seq(Candidate) /\ add \in Seq(Candidate)
    BY DEF FrontierTypeOK
  <2>2. queue'[h] = old \o add
    BY <1>1 DEF Appends
  <2>3. /\ \A i \in DOMAIN add : add[i].url \in AtHost(new, h)
        /\ \A i, j \in DOMAIN add : add[i].url = add[j].url => i = j
        /\ \A u \in AtHost(new, h) : \E i \in DOMAIN add : add[i].url = u
    BY <1>1 DEF Appends
  <2> HIDE DEF old, add
  <2>4. /\ Len(old) \in Nat /\ DOMAIN old = 1..Len(old)
        /\ Len(add) \in Nat /\ DOMAIN add = 1..Len(add)
    BY <2>1, LenProperties
  <2>5. /\ old \o add \in Seq(Candidate)
        /\ DOMAIN (old \o add) = 1..(Len(old) + Len(add))
        /\ \A i \in 1..(Len(old) + Len(add)) :
             (old \o add)[i] = IF i <= Len(old) THEN old[i] ELSE add[i - Len(old)]
    BY <2>1, ConcatProperties, LenProperties
  <2>6. \A i \in DOMAIN (old \o add) \ DOMAIN old :
          i - Len(old) \in DOMAIN add /\ (old \o add)[i] = add[i - Len(old)]
    BY <2>4, <2>5
  <2>7. \A i, j \in DOMAIN (old \o add) \ DOMAIN old :
          (old \o add)[i].url = (old \o add)[j].url => i = j
    <3> SUFFICES ASSUME NEW i \in DOMAIN (old \o add) \ DOMAIN old,
                        NEW j \in DOMAIN (old \o add) \ DOMAIN old,
                        (old \o add)[i].url = (old \o add)[j].url
                 PROVE  i = j
      OBVIOUS
    <3>1. /\ i - Len(old) \in DOMAIN add /\ (old \o add)[i] = add[i - Len(old)]
          /\ j - Len(old) \in DOMAIN add /\ (old \o add)[j] = add[j - Len(old)]
      BY <2>6
    <3>2. i - Len(old) = j - Len(old)
      BY <3>1, <2>3
    <3>3. i \in Int /\ j \in Int /\ Len(old) \in Int
      BY <2>4, <2>5
    <3> QED
      BY <3>2, <3>3
  <2>8. /\ DOMAIN old \subseteq DOMAIN (old \o add)
        /\ \A i \in DOMAIN old : (old \o add)[i] = old[i]
    BY <2>4, <2>5
  <2>9. \A j \in DOMAIN add :
          /\ j + Len(old) \in DOMAIN (old \o add) \ DOMAIN old
          /\ (old \o add)[j + Len(old)] = add[j]
    BY <2>4, <2>5
  <2>10. \A u \in AtHost(new, h) :
           \E i \in DOMAIN (old \o add) \ DOMAIN old : (old \o add)[i].url = u
    <3> SUFFICES ASSUME NEW u \in AtHost(new, h)
                 PROVE  \E i \in DOMAIN (old \o add) \ DOMAIN old :
                          (old \o add)[i].url = u
      OBVIOUS
    <3>1. PICK j \in DOMAIN add : add[j].url = u
      BY <2>3
    <3> QED
      BY <3>1, <2>9
  <2>11. \A i \in DOMAIN (old \o add) \ DOMAIN old :
           (old \o add)[i].url \in AtHost(new, h)
    BY <2>3, <2>6
  <2> DEFINE cat == old \o add
  <2>12. /\ cat \in Seq(Candidate)
         /\ DOMAIN old \subseteq DOMAIN cat
         /\ \A i \in DOMAIN old : cat[i] = old[i]
         /\ \A i \in DOMAIN cat \ DOMAIN old : cat[i].url \in AtHost(new, h)
         /\ \A i, j \in DOMAIN cat \ DOMAIN old : cat[i].url = cat[j].url => i = j
         /\ \A u \in AtHost(new, h) :
              \E i \in DOMAIN cat \ DOMAIN old : cat[i].url = u
    BY <2>5, <2>7, <2>8, <2>10, <2>11
  <2>13. queue'[h] = cat /\ queue[h] = old
    BY <2>2 DEF old
  <2> HIDE DEF cat
  <2> QED
    BY <2>12, <2>13
<1> QED
  <2>1. queue' \in [Hosts -> Seq(Candidate)]
    BY <1>1, <1>2 DEF Appends
  <2>2. IsFiniteSet(new) /\ seen' = seen \cup Keys(new)
          /\ queued' = queued + Cardinality(new)
    BY <1>1 DEF Appends
  <2>3. Places(new)
    BY <2>1, <2>2, <1>2 DEF Places
  <2> QED
    BY <2>2, <2>3

-----------------------------------------------------------------------------
(* Every operation keeps the books. *)

\* A sequence with no place is empty.
LEMMA NoPlaceEmpty ==
  ASSUME NEW S, NEW s \in Seq(S), DOMAIN s = {}
  PROVE  s = <<>>
<1>1. Len(s) \in Nat /\ DOMAIN s = 1..Len(s)
  BY LenProperties
<1>2. Len(s) = 0
  BY <1>1
<1> QED
  BY <1>2, EmptySeq

\* Pushing keeps the books: what is new was not seen before.
LEMMA OfferKeepsBooks ==
  ASSUME FrontierAssumption, FrontierTypeOK, Books,
         NEW links \in Links, NEW depth \in Nat, NEW taken,
         Offer(links, depth, taken),
         UNCHANGED <<blocked, handed>>
  PROVE  /\ queue' \in [Hosts -> Seq(Candidate)]
         /\ seen' \subseteq {KeyOf[u] : u \in Urls}
         /\ queued' \in Int
         /\ Books'
<1>1. PICK new \in Admissions(links, depth, taken) :
        IsFiniteSet(new) /\ Places(new)
  BY OfferPlaces
<1>2. /\ new \subseteq Urls
      /\ \A u \in new : KeyOf[u] \notin seen /\ ~blocked[HostOf[u]]
      /\ \A u, v \in new : KeyOf[u] = KeyOf[v] => u = v
  BY DEF Admissions, Links, Welcome
<1>3. \A u \in new : HostOf[u] \in Hosts /\ u \in AtHost(new, HostOf[u])
  BY <1>2 DEF FrontierAssumption, AtHost
<1>4. \A h \in Hosts : AtHost(new, h) \subseteq new
  BY DEF AtHost
<1>5. \A h \in Hosts : Waiting(h)' = Waiting(h) \cup AtHost(new, h)
  <2> SUFFICES ASSUME NEW h \in Hosts
               PROVE  Waiting(h)' = Waiting(h) \cup AtHost(new, h)
    OBVIOUS
  <2>1. Waiting(h)' = {queue'[h][i].url : i \in DOMAIN queue'[h]}
    BY DEF Waiting
  <2>2. Waiting(h)' \subseteq Waiting(h) \cup AtHost(new, h)
    BY <2>1, <1>1 DEF Places, Waiting
  <2>3. Waiting(h) \subseteq Waiting(h)'
    BY <2>1, <1>1 DEF Places, Waiting
  <2>4. AtHost(new, h) \subseteq Waiting(h)'
    BY <2>1, <1>1 DEF Places
  <2> QED
    BY <2>2, <2>3, <2>4
<1>6. WaitingUrls' = WaitingUrls \cup new
  BY <1>3, <1>4, <1>5 DEF WaitingUrls
<1>7. WaitingUrls \cap new = {}
  BY <1>2 DEF Books, NothingLost, Keys
<1>8. queue' \in [Hosts -> Seq(Candidate)] /\ seen' = seen \cup Keys(new)
        /\ queued' = queued + Cardinality(new)
  BY <1>1 DEF Places
<1>9. Cardinality(new) \in Nat
  BY <1>1, FS_CardinalityType
<1>10. QueuedAtHome'
  BY <1>5 DEF Books, QueuedAtHome, AtHost
<1>11. BlockedIsEmpty'
  <2> SUFFICES ASSUME NEW h \in Hosts, blocked[h] PROVE queue'[h] = <<>>
    BY DEF BlockedIsEmpty
  <2>1. AtHost(new, h) = {}
    BY <1>2 DEF AtHost
  <2>2. queue[h] = <<>>
    BY DEF Books, BlockedIsEmpty
  <2>3. DOMAIN queue'[h] = {}
    BY <2>1, <2>2, <1>1 DEF Places
  <2> QED
    BY <2>3, <1>8, NoPlaceEmpty
<1>12. IsFiniteSet(WaitingUrls)' /\ QueuedIsExact'
  <2>1. /\ IsFiniteSet(WaitingUrls')
        /\ Cardinality(WaitingUrls') = Cardinality(WaitingUrls) + Cardinality(new)
    <3>1. /\ IsFiniteSet(WaitingUrls \cup new)
          /\ Cardinality(WaitingUrls \cup new) =
               Cardinality(WaitingUrls) + Cardinality(new)
                 - Cardinality(WaitingUrls \cap new)
      BY <1>1, FS_Union DEF Books
    <3>2. Cardinality(WaitingUrls) \in Nat
      BY FS_CardinalityType DEF Books
    <3>3. Cardinality(WaitingUrls \cap new) = 0
      BY <1>7, FS_EmptySet
    <3> QED
      BY <3>1, <3>2, <3>3, <1>6, <1>9
  <2> QED
    BY <2>1, <1>8 DEF Books, QueuedIsExact
<1>13. NothingLost'
  <2>1. Keys(WaitingUrls') = Keys(WaitingUrls) \cup Keys(new)
    BY <1>6 DEF Keys
  <2> QED
    BY <2>1, <1>8 DEF Books, NothingLost, Keys
<1>14. Unrepeated'
  <2>1. ASSUME NEW g \in Hosts, NEW h \in Hosts,
               NEW i \in DOMAIN queue'[g], NEW j \in DOMAIN queue'[h],
               KeyOf[queue'[g][i].url] = KeyOf[queue'[h][j].url]
        PROVE  g = h /\ i = j
    <3>1. /\ i \in DOMAIN queue[g] =>
               queue'[g][i] = queue[g][i] /\ KeyOf[queue[g][i].url] \in seen
          /\ i \notin DOMAIN queue[g] => queue'[g][i].url \in AtHost(new, g)
      BY <1>1 DEF Places, Books, NothingLost, Keys, WaitingUrls, Waiting
    <3>2. /\ j \in DOMAIN queue[h] =>
               queue'[h][j] = queue[h][j] /\ KeyOf[queue[h][j].url] \in seen
          /\ j \notin DOMAIN queue[h] => queue'[h][j].url \in AtHost(new, h)
      BY <1>1 DEF Places, Books, NothingLost, Keys, WaitingUrls, Waiting
    <3>3. CASE i \in DOMAIN queue[g]
      <4>1. j \in DOMAIN queue[h]
        BY <2>1, <3>1, <3>2, <3>3, <1>2, <1>4
      <4> QED
        BY <2>1, <3>1, <3>2, <3>3, <4>1 DEF Books, Unrepeated
    <3>4. CASE i \notin DOMAIN queue[g]
      <4>1. j \notin DOMAIN queue[h]
        BY <2>1, <3>1, <3>2, <3>4, <1>2, <1>4
      <4>2. queue'[g][i].url = queue'[h][j].url
        BY <2>1, <3>1, <3>2, <3>4, <4>1, <1>2, <1>4
      <4>3. g = h
        BY <3>1, <3>2, <3>4, <4>1, <4>2 DEF AtHost
      <4> QED
        BY <1>1, <3>4, <4>1, <4>2, <4>3 DEF Places
    <3> QED
      BY <3>3, <3>4
  <2>2. Keys(WaitingUrls') \cap Keys(handed') = {}
    <3>1. Keys(WaitingUrls') = Keys(WaitingUrls) \cup Keys(new)
      BY <1>6 DEF Keys
    <3>2. Keys(new) \cap seen = {}
      BY <1>2 DEF Keys
    <3> QED
      BY <3>1, <3>2 DEF Books, NothingLost, Unrepeated
  <2> QED
    BY <2>1, <2>2 DEF Books, Unrepeated
<1> QED
  <2>1. seen' \subseteq {KeyOf[u] : u \in Urls}
    BY <1>2, <1>8 DEF FrontierTypeOK, Keys
  <2>2. queued' \in Int
    BY <1>8, <1>9 DEF FrontierTypeOK
  <2> QED
    BY <2>1, <2>2, <1>8, <1>10, <1>11, <1>12, <1>13, <1>14 DEF Books

\* The head of a sequence and its tail, place by place.
LEMMA HeadAndTail ==
  ASSUME NEW S, NEW s \in Seq(S), s # <<>>
  PROVE  /\ Len(s) \in Nat /\ DOMAIN s = 1..Len(s) /\ 1 \in DOMAIN s
         /\ Head(s) = s[1] /\ Head(s) \in S
         /\ Tail(s) \in Seq(S) /\ DOMAIN Tail(s) = 1..(Len(s) - 1)
         /\ \A i \in DOMAIN Tail(s) : i + 1 \in DOMAIN s /\ Tail(s)[i] = s[i + 1]
<1>1. Len(s) \in Nat \ {0} /\ DOMAIN s = 1..Len(s)
  BY EmptySeq, LenProperties
<1>2. Head(s) \in S /\ Tail(s) \in Seq(S) /\ Len(Tail(s)) = Len(s) - 1
  BY HeadTailProperties
<1>3. DOMAIN Tail(s) = 1..(Len(s) - 1)
  BY <1>2, LenProperties
<1>4. Head(s) = s[1]
  BY <1>1
<1>5. \A i \in 1..(Len(s) - 1) : Tail(s)[i] = s[i + 1]
  BY <1>1
<1> QED
  BY <1>1, <1>2, <1>3, <1>4, <1>5

\* Taking a host's front URL moves it from the queue to the URLs handed out.
LEMMA TakeKeepsBooks ==
  ASSUME FrontierTypeOK, Books, NEW h \in Hosts, Take(h)
  PROVE  /\ queue' \in [Hosts -> Seq(Candidate)]
         /\ handed' \subseteq Urls
         /\ Head(queue[h]) \in Candidate
         /\ HostOf[Head(queue[h]).url] = h
         /\ Books'
<1> DEFINE s == queue[h]
           u == Head(s).url
<1>1. s \in Seq(Candidate) /\ s # <<>>
  BY DEF FrontierTypeOK, Take, Ready, Eligible
<1> HIDE DEF s
<1>2. /\ Len(s) \in Nat /\ DOMAIN s = 1..Len(s) /\ 1 \in DOMAIN s
      /\ Head(s) = s[1] /\ Head(s) \in Candidate
      /\ Tail(s) \in Seq(Candidate) /\ DOMAIN Tail(s) = 1..(Len(s) - 1)
      /\ \A i \in DOMAIN Tail(s) : i + 1 \in DOMAIN s /\ Tail(s)[i] = s[i + 1]
  BY <1>1, HeadAndTail
<1>3. /\ queue' = [queue EXCEPT ![h] = Tail(s)]
      /\ queued' = queued - 1
      /\ handed' = handed \cup {u}
      /\ blocked' = blocked /\ seen' = seen
  BY DEF Take, s
<1>4. /\ queue' \in [Hosts -> Seq(Candidate)]
      /\ queue'[h] = Tail(s)
      /\ \A g \in Hosts : g # h => queue'[g] = queue[g]
  BY <1>2, <1>3 DEF FrontierTypeOK
<1>5. u \in Urls /\ u \in Waiting(h)
  BY <1>2 DEF Candidate, Waiting, s
<1>6. HostOf[u] = h
  BY <1>5 DEF Books, QueuedAtHome
<1>7. \A i \in DOMAIN s : s[i].url = u => i = 1
  BY <1>2 DEF Books, Unrepeated, s
<1>8. Waiting(h)' = Waiting(h) \ {u}
  <2>1. Waiting(h)' = {Tail(s)[i].url : i \in DOMAIN Tail(s)}
    BY <1>4 DEF Waiting
  <2>2. Waiting(h) = {s[i].url : i \in DOMAIN s}
    BY DEF Waiting, s
  <2>3. \A i \in DOMAIN Tail(s) : Tail(s)[i].url \in Waiting(h) \ {u}
    BY <2>2, <1>2, <1>7
  <2>4. \A i \in DOMAIN s : s[i].url # u =>
          i - 1 \in DOMAIN Tail(s) /\ Tail(s)[i - 1] = s[i]
    BY <1>2
  <2>5. Waiting(h) \ {u} \subseteq Waiting(h)'
    BY <2>1, <2>2, <2>4
  <2> QED
    BY <2>1, <2>3, <2>5
<1>9. \A g \in Hosts : g # h => Waiting(g)' = Waiting(g) /\ u \notin Waiting(g)
  BY <1>4, <1>6 DEF Waiting, Books, QueuedAtHome
<1>10. WaitingUrls' = WaitingUrls \ {u} /\ u \in WaitingUrls
  BY <1>5, <1>8, <1>9 DEF WaitingUrls
<1>11. QueuedAtHome'
  BY <1>8, <1>9 DEF Books, QueuedAtHome
<1>12. BlockedIsEmpty'
  BY <1>3, <1>4 DEF Books, BlockedIsEmpty, Take, Ready, Eligible
<1>13. IsFiniteSet(WaitingUrls)' /\ QueuedIsExact'
  <2>1. IsFiniteSet(WaitingUrls \ {u})
          /\ Cardinality(WaitingUrls \ {u}) = Cardinality(WaitingUrls) - 1
    BY <1>10, FS_RemoveElement DEF Books
  <2> QED
    BY <2>1, <1>3, <1>10 DEF Books, QueuedIsExact
<1>14. NothingLost'
  BY <1>3, <1>10 DEF Books, NothingLost, Keys
<1>15. Unrepeated'
  <2>1. ASSUME NEW f \in Hosts, NEW g \in Hosts,
               NEW i \in DOMAIN queue'[f], NEW j \in DOMAIN queue'[g],
               KeyOf[queue'[f][i].url] = KeyOf[queue'[g][j].url]
        PROVE  f = g /\ i = j
    \* Every place of the new queues was a place of the old ones.
    <3> DEFINE Was(e, k) == IF e = h THEN k + 1 ELSE k
    <3>1. ASSUME NEW e \in Hosts, NEW k \in DOMAIN queue'[e]
          PROVE  /\ Was(e, k) \in DOMAIN queue[e]
                 /\ queue'[e][k] = queue[e][Was(e, k)]
                 /\ e = h => k \in Int
      <4>1. CASE e = h
        <5>1. k \in DOMAIN Tail(s)
          BY <3>1, <4>1, <1>4
        <5>2. k + 1 \in DOMAIN s /\ Tail(s)[k] = s[k + 1] /\ k \in Int
          BY <5>1, <1>2
        <5> QED
          BY <4>1, <5>2, <1>4 DEF s
      <4>2. CASE e # h
        BY <3>1, <4>2, <1>4
      <4> QED
        BY <4>1, <4>2
    <3>2. f = g /\ Was(f, i) = Was(g, j)
      <4>1. /\ Was(f, i) \in DOMAIN queue[f] /\ queue'[f][i] = queue[f][Was(f, i)]
            /\ Was(g, j) \in DOMAIN queue[g] /\ queue'[g][j] = queue[g][Was(g, j)]
        BY <3>1
      <4> HIDE DEF Was
      <4> QED
        BY <2>1, <4>1 DEF Books, Unrepeated
    <3> QED
      BY <3>1, <3>2
  <2>2. \A v \in WaitingUrls : KeyOf[v] = KeyOf[u] => v = u
    <3>1. ASSUME NEW v \in WaitingUrls, KeyOf[v] = KeyOf[u] PROVE v = u
      <4>1. PICK g \in Hosts : \E i \in DOMAIN queue[g] : queue[g][i].url = v
        BY <3>1 DEF WaitingUrls, Waiting
      <4>2. queue[h][1].url = u /\ 1 \in DOMAIN queue[h]
        BY <1>2 DEF s
      <4> QED
        BY <3>1, <4>1, <4>2 DEF Books, Unrepeated
    <3> QED
      BY <3>1
  <2>3. Keys(WaitingUrls') \cap Keys(handed') = {}
    <3>1. Keys(WaitingUrls) \cap Keys(handed) = {}
      BY DEF Books, Unrepeated
    <3>2. KeyOf[u] \notin Keys(WaitingUrls')
      BY <2>2, <1>10 DEF Keys
    <3>3. Keys(handed') = Keys(handed) \cup {KeyOf[u]}
      BY <1>3 DEF Keys
    <3>4. Keys(WaitingUrls') \subseteq Keys(WaitingUrls)
      BY <1>10 DEF Keys
    <3> QED
      BY <3>1, <3>2, <3>3, <3>4
  <2>4. \A v, w \in handed' : KeyOf[v] = KeyOf[w] => v = w
    BY <1>3, <1>10 DEF Books, Unrepeated, Keys
  <2> QED
    BY <2>1, <2>3, <2>4 DEF Unrepeated
<1> QED
  BY <1>2, <1>3, <1>4, <1>5, <1>6, <1>11, <1>12, <1>13, <1>14, <1>15
     DEF Books, FrontierTypeOK, s

\* Blocking a host drops as many URLs as it takes off the counter.
LEMMA BlockKeepsBooks ==
  ASSUME FrontierAssumption, FrontierTypeOK, Books, NEW h \in Hosts, BlockHost(h),
         UNCHANGED <<seen, handed>>
  PROVE  /\ queue' \in [Hosts -> Seq(Candidate)]
         /\ blocked' \in [Hosts -> BOOLEAN]
         /\ Books'
<1> DEFINE s == queue[h]
<1>1. /\ s \in Seq(Candidate)
      /\ Len(s) \in Nat /\ DOMAIN s = 1..Len(s)
  BY LenProperties DEF FrontierTypeOK
<1> HIDE DEF s
<1>2. /\ queue' = [queue EXCEPT ![h] = <<>>]
      /\ queued' = queued - Len(s)
      /\ blocked' = [blocked EXCEPT ![h] = TRUE]
      /\ seen' = seen /\ handed' = handed
  BY DEF BlockHost, s
<1>3. /\ queue' \in [Hosts -> Seq(Candidate)]
      /\ queue'[h] = <<>> /\ DOMAIN queue'[h] = {}
      /\ \A g \in Hosts : g # h => queue'[g] = queue[g]
  <2>1. <<>> \in Seq(Candidate)
    BY EmptySeq
  <2>2. queue' \in [Hosts -> Seq(Candidate)] /\ queue'[h] = <<>>
    BY <2>1, <1>2 DEF FrontierTypeOK
  <2>3. \A g \in Hosts : g # h => queue'[g] = queue[g]
    BY <1>2 DEF FrontierTypeOK
  <2> QED
    BY <2>2, <2>3
<1>4. /\ blocked' \in [Hosts -> BOOLEAN] /\ blocked'[h] = TRUE
      /\ \A g \in Hosts : g # h => blocked'[g] = blocked[g]
  BY <1>2 DEF FrontierTypeOK
<1>5. Waiting(h)' = {}
  BY <1>3 DEF Waiting
<1>6. \A g \in Hosts : g # h =>
        Waiting(g)' = Waiting(g) /\ Waiting(g) \cap Waiting(h) = {}
  <2>1. \A g \in Hosts : g # h => Waiting(g)' = Waiting(g)
    BY <1>3 DEF Waiting
  <2>2. \A g \in Hosts : g # h => Waiting(g) \cap Waiting(h) = {}
    BY DEF Books, QueuedAtHome
  <2> QED
    BY <2>1, <2>2
<1>7. WaitingUrls' = WaitingUrls \ Waiting(h) /\ Waiting(h) \subseteq WaitingUrls
  BY <1>5, <1>6 DEF WaitingUrls
<1>8. QueuedAtHome'
  BY <1>5, <1>6 DEF Books, QueuedAtHome
<1>9. BlockedIsEmpty'
  BY <1>3, <1>4 DEF Books, BlockedIsEmpty
<1>10. IsFiniteSet(Waiting(h)) /\ Cardinality(Waiting(h)) = Len(s)
  <2> DEFINE f == [i \in 1..Len(s) |-> s[i].url]
  <2>1. Waiting(h) = {s[i].url : i \in 1..Len(s)}
    BY <1>1 DEF Waiting, s
  <2>2. \A i, j \in 1..Len(s) : s[i].url = s[j].url => i = j
    BY <1>1 DEF Books, Unrepeated, s
  <2>3. f \in Injection(1..Len(s), Waiting(h))
    BY <2>1, <2>2 DEF Injection, IsInjective
  <2>4. f \in Surjection(1..Len(s), Waiting(h))
    BY <2>1 DEF Surjection
  <2>5. ExistsBijection(1..Len(s), Waiting(h))
    BY <2>3, <2>4 DEF ExistsBijection, Bijection
  <2>6. IsFiniteSet(Waiting(h))
    BY <1>7, FS_Subset DEF Books
  <2> QED
    BY <2>5, <2>6, <1>1, FS_CountingElements
<1>11. IsFiniteSet(WaitingUrls)' /\ QueuedIsExact'
  <2>1. /\ IsFiniteSet(WaitingUrls \ Waiting(h))
        /\ Cardinality(WaitingUrls \ Waiting(h)) =
             Cardinality(WaitingUrls) - Cardinality(WaitingUrls \cap Waiting(h))
    BY FS_Difference DEF Books
  <2>2. WaitingUrls \cap Waiting(h) = Waiting(h)
    BY <1>7
  <2> QED
    BY <2>1, <2>2, <1>2, <1>7, <1>10 DEF Books, QueuedIsExact
<1>12. NothingLost'
  <2> DEFINE found == Keys(WaitingUrls) \cup Keys(handed)
             left == Keys(WaitingUrls') \cup Keys(handed)
  <2>1. found \subseteq seen
          /\ \A u \in Urls : KeyOf[u] \in seen \ found => blocked[HostOf[u]]
    BY DEF Books, NothingLost
  <2>2. left \subseteq found
    BY <1>7 DEF Keys
  <2>3. ASSUME NEW u \in Urls, KeyOf[u] \in seen \ left PROVE blocked'[HostOf[u]]
    <3>1. HostOf[u] \in Hosts
      BY DEF FrontierAssumption
    <3>2. CASE KeyOf[u] \in found
      <4>1. KeyOf[u] \in Keys(Waiting(h))
        BY <2>3, <3>2, <1>7 DEF Keys
      <4>2. PICK v \in Waiting(h) : KeyOf[v] = KeyOf[u]
        BY <4>1 DEF Keys
      <4>3. HostOf[v] = h
        BY <4>2 DEF Books, QueuedAtHome
      <4>4. PICK i \in DOMAIN s : v = s[i].url
        BY <4>2 DEF Waiting, s
      <4>5. v \in Urls
        <5>1. s[i] \in Candidate
          BY <1>1, ElementOfSeq
        <5> QED
          BY <4>4, <5>1 DEF Candidate
      <4> QED
        BY <4>2, <4>3, <4>5, <1>4 DEF FrontierAssumption
    <3>3. CASE KeyOf[u] \notin found
      <4>1. blocked[HostOf[u]]
        BY <2>1, <2>3, <3>3
      <4> QED
        BY <4>1, <3>1, <1>4
    <3> QED
      BY <3>2, <3>3
  <2>4. left \subseteq seen
    BY <2>1, <2>2
  <2> HIDE DEF found
  <2> QED
    BY <2>3, <2>4, <1>2 DEF NothingLost
<1>13. Unrepeated'
  <2>1. ASSUME NEW f \in Hosts, NEW g \in Hosts,
               NEW i \in DOMAIN queue'[f], NEW j \in DOMAIN queue'[g],
               KeyOf[queue'[f][i].url] = KeyOf[queue'[g][j].url]
        PROVE  f = g /\ i = j
    <3>1. f # h /\ g # h
      BY <2>1, <1>3
    <3>2. queue'[f] = queue[f] /\ queue'[g] = queue[g]
      BY <3>1, <1>3
    <3> QED
      BY <2>1, <3>2 DEF Books, Unrepeated
  <2>2. Keys(WaitingUrls') \subseteq Keys(WaitingUrls)
    BY <1>7 DEF Keys
  <2>3. Keys(WaitingUrls') \cap Keys(handed') = {}
    BY <2>2, <1>2 DEF Books, Unrepeated
  <2> QED
    BY <2>1, <2>3, <1>2 DEF Books, Unrepeated
<1> QED
  BY <1>3, <1>4, <1>7, <1>8, <1>9, <1>11, <1>12, <1>13 DEF Books

-----------------------------------------------------------------------------
(* The frontier on its own *)

\* The empty frontier keeps its books.
LEMMA FrontierInitInv == FrontierAssumption /\ FrontierInit => FrontierInv
<1> SUFFICES ASSUME FrontierAssumption, FrontierInit PROVE FrontierInv
  OBVIOUS
<1>1. \A h \in Hosts : queue[h] = <<>> /\ Waiting(h) = {}
  BY DEF FrontierInit, Waiting
<1>2. WaitingUrls = {}
  BY <1>1 DEF WaitingUrls
<1>3. IsFiniteSet(WaitingUrls) /\ Cardinality(WaitingUrls) = 0
  BY <1>2, FS_EmptySet
<1>4. FrontierTypeOK
  BY EmptySeq DEF FrontierInit, FrontierTypeOK, FrontierAssumption
<1>5. QueuedAtHome /\ BlockedIsEmpty
  BY <1>1 DEF QueuedAtHome, BlockedIsEmpty
<1>6. Unrepeated /\ NothingLost /\ QueuedIsExact
  BY <1>1, <1>2, <1>3
     DEF FrontierInit, Unrepeated, NothingLost, QueuedIsExact, Keys
<1>7. DelayAtLeastDefault
  BY DEF FrontierInit, FrontierAssumption, DelayAtLeastDefault
<1> QED
  BY <1>3, <1>4, <1>5, <1>6, <1>7 DEF FrontierInv, Books

\* The books speak of the queues, the seen set, the marks and the counter.
LEMMA BooksUnchanged ==
  ASSUME Books, UNCHANGED <<queue, blocked, seen, queued, handed>>
  PROVE  Books'
<1>1. WaitingUrls' = WaitingUrls
  BY DEF WaitingUrls, Waiting
<1>2. QueuedAtHome' /\ BlockedIsEmpty'
  BY DEF Books, QueuedAtHome, BlockedIsEmpty, Waiting
<1>3. Unrepeated'
  BY <1>1 DEF Books, Unrepeated
<1>4. NothingLost' /\ QueuedIsExact' /\ IsFiniteSet(WaitingUrls)'
  BY <1>1 DEF Books, NothingLost, QueuedIsExact
<1> QED
  BY <1>2, <1>3, <1>4 DEF Books

\* Every call, and the passing of time, keeps the inductive invariant.
LEMMA FrontierNextInv ==
  FrontierAssumption /\ FrontierInv /\ [FrontierNext]_frontierVars => FrontierInv'
<1> SUFFICES ASSUME FrontierAssumption, FrontierInv, [FrontierNext]_frontierVars
             PROVE  FrontierInv'
  OBVIOUS
<1> USE DEF FrontierInv
<1>1. ASSUME NEW u \in Urls, NEW depth \in 0..MaxDepth + 1, CallPush(u, depth)
      PROVE  FrontierInv'
  <2>1. {u} \in Links /\ depth \in Nat
    BY FS_Singleton DEF Links, FrontierAssumption
  <2>2. /\ queue' \in [Hosts -> Seq(Candidate)]
        /\ seen' \subseteq {KeyOf[v] : v \in Urls}
        /\ queued' \in Int
        /\ Books'
    BY <1>1, <2>1, OfferKeepsBooks DEF CallPush
  <2> QED
    BY <1>1, <2>2 DEF CallPush, FrontierTypeOK, DelayAtLeastDefault
<1>2. ASSUME NEW h \in Hosts, Take(h) PROVE FrontierInv'
  <2>1. /\ queue' \in [Hosts -> Seq(Candidate)]
        /\ handed' \subseteq Urls
        /\ Books'
    BY <1>2, TakeKeepsBooks
  <2> QED
    BY <1>2, <2>1 DEF Take, FrontierTypeOK, DelayAtLeastDefault
<1>3. ASSUME NEW h \in Hosts, CallNoteFetched(h) PROVE FrontierInv'
  <2>1. Books'
    BY <1>3, BooksUnchanged DEF CallNoteFetched
  <2> QED
    BY <1>3, <2>1
       DEF CallNoteFetched, NoteFetched, FrontierTypeOK, DelayAtLeastDefault
<1>4. ASSUME NEW h \in Hosts, CallNoteSkipped(h) PROVE FrontierInv'
  <2>1. Books'
    BY <1>4, BooksUnchanged DEF CallNoteSkipped
  <2> QED
    BY <1>4, <2>1
       DEF CallNoteSkipped, NoteSkipped, FrontierTypeOK, DelayAtLeastDefault
<1>5. ASSUME NEW h \in Hosts, NEW d \in CrawlDelays, CallSetHostDelay(h, d)
      PROVE  FrontierInv'
  <2>1. Books'
    BY <1>5, BooksUnchanged DEF CallSetHostDelay
  <2>2. d \in Nat /\ DefaultDelay \in Nat
    BY DEF FrontierAssumption
  <2> QED
    BY <1>5, <2>1, <2>2
       DEF CallSetHostDelay, SetHostDelay, FrontierTypeOK, DelayAtLeastDefault
<1>6. ASSUME NEW h \in Hosts, CallBlockHost(h) PROVE FrontierInv'
  <2>1. /\ queue' \in [Hosts -> Seq(Candidate)]
        /\ blocked' \in [Hosts -> BOOLEAN]
        /\ Books'
    BY <1>6, BlockKeepsBooks DEF CallBlockHost
  <2>2. queued' \in Int
    <3>1. Len(queue[h]) \in Nat
      BY LenProperties DEF FrontierTypeOK
    <3> QED
      BY <1>6, <3>1 DEF CallBlockHost, BlockHost, FrontierTypeOK
  <2> QED
    BY <1>6, <2>1, <2>2 DEF CallBlockHost, FrontierTypeOK, DelayAtLeastDefault
<1>7. CASE Elapse
  <2>1. Books'
    BY <1>7, BooksUnchanged DEF Elapse
  <2> QED
    BY <1>7, <2>1
       DEF Elapse, CoolDown, Cooled, FrontierTypeOK, DelayAtLeastDefault
<1>8. CASE UNCHANGED frontierVars
  <2>1. Books'
    BY <1>8, BooksUnchanged DEF frontierVars
  <2> QED
    BY <1>8, <2>1 DEF frontierVars, FrontierTypeOK, DelayAtLeastDefault
<1> QED
  BY <1>1, <1>2, <1>3, <1>4, <1>5, <1>6, <1>7, <1>8 DEF FrontierNext

\* The frontier keeps its inductive invariant, whatever its caller does.
THEOREM FrontierInvariant == FrontierSpec => []FrontierInv
BY FrontierInitInv, FrontierNextInv, FrontierAssumption, PTL DEF FrontierSpec

\* The variables of the frontier keep their types (frontier.rs, HostQueue and
\* Frontier).
THEOREM FrontierTypes == FrontierSpec => []FrontierTypeOK
<1>1. FrontierInv => FrontierTypeOK
  BY DEF FrontierInv
<1> QED
  BY <1>1, FrontierInvariant, PTL

\* No URL is queued or handed out twice, under any spelling of its dedupe key,
\* for any web, any caller and any limits (frontier.rs, push and next).
THEOREM FrontierNeverRepeats == FrontierSpec => []Unrepeated
<1>1. FrontierInv => Unrepeated
  BY DEF FrontierInv, Books
<1> QED
  BY <1>1, FrontierInvariant, PTL

\* What is marked seen was handed out, is waiting, or was dropped with its
\* host: the frontier forgets no URL (frontier.rs, push and block_host).
THEOREM FrontierForgetsNothing == FrontierSpec => []NothingLost
<1>1. FrontierInv => NothingLost
  BY DEF FrontierInv, Books
<1> QED
  BY <1>1, FrontierInvariant, PTL

\* The queued counter is exact, so the unsigned subtractions of next and
\* block_host never go below zero.
THEOREM FrontierCountsExactly == FrontierSpec => []QueuedIsExact
<1>1. FrontierInv => QueuedIsExact
  BY DEF FrontierInv, Books
<1> QED
  BY <1>1, FrontierInvariant, PTL

\* A blocked host's queue stays empty (frontier.rs, block_host and push).
THEOREM FrontierBlockedStaysEmpty == FrontierSpec => []BlockedIsEmpty
<1>1. FrontierInv => BlockedIsEmpty
  BY DEF FrontierInv, Books
<1> QED
  BY <1>1, FrontierInvariant, PTL

\* No declared delay undercuts the configured one (frontier.rs,
\* set_host_delay).
THEOREM FrontierKeepsItsDelay == FrontierSpec => []DelayAtLeastDefault
<1>1. FrontierInv => DelayAtLeastDefault
  BY DEF FrontierInv
<1> QED
  BY <1>1, FrontierInvariant, PTL

-----------------------------------------------------------------------------
(* Types *)

\* A disallowed visit and a visit under way report outcomes of the right type.
LEMMA NoOutcomes ==
  NoOutcome \in Outcome /\ Disallowed("path") \in Outcome
    /\ Disallowed("host") \in Outcome
BY DEF Outcome

\* A free slot is a task state.
LEMMA IdleTyped == Idle \in TaskState
BY NoOutcomes DEF Idle, TaskState, Stages

\* A task that has a stage other than idle has a URL, and its host is a host.
LEMMA TaskHost ==
  ASSUME FrontierAssumption, TypeOK, NEW t \in Tasks, Running(t)
  PROVE  task[t].url \in Urls /\ HostOfTask(t) \in Hosts
BY DEF TypeOK, Running, HostOfTask, FrontierAssumption

-----------------------------------------------------------------------------
(* A step of one task *)

\* A task's step keeps the types when it keeps those of what it changes.
LEMMA VisitTyped ==
  ASSUME TypeOK, NEW t \in Tasks, Running(t),
         UNCHANGED <<frontierVars, loopVars>>,
         task' \in [Tasks -> TaskState], task'[t].url = task[t].url,
         \A s \in Tasks : s # t => task'[s] = task[s],
         robots' \in [Hosts -> Robots \cup {None}],
         quiet' \in [Hosts -> 0..Horizon],
         asked' \in [Hosts -> Nat],
         paged' \in [Hosts -> 0..2]
  PROVE  TypeOK'
<1>1. FrontierTypeOK'
  BY DEF TypeOK, FrontierTypeOK, frontierVars
<1>2. phase' = phase /\ napping' = napping /\ stored' = stored
  BY DEF loopVars
<1>3. \A s \in Tasks : task'[s].stage # "idle" => task'[s].url \in Urls
  BY DEF TypeOK, Running
<1> QED
  BY <1>1, <1>2, <1>3 DEF TypeOK

\* A task's step keeps the invariant when it leaves every other task and host
\* alone and does right by its own.
LEMMA VisitKeeps ==
  ASSUME FrontierAssumption, CrawlerInv,
         NEW t \in Tasks, Running(t),
         UNCHANGED <<frontierVars, loopVars>>,
         TypeOK',
         Running(t)', task'[t].url = task[t].url,
         \A s \in Tasks : s # t => task'[s] = task[s],
         \A h \in Hosts : h # HostOfTask(t) =>
           quiet'[h] = quiet[h] /\ robots'[h] = robots[h] /\ asked'[h] = asked[h],
         asked'[HostOfTask(t)] <= 1,
         AtWork(t)'
  PROVE  CrawlerInv'
<1> DEFINE h == HostOfTask(t)
<1>1. /\ queue' = queue /\ blocked' = blocked /\ seen' = seen
      /\ queued' = queued /\ handed' = handed /\ delay' = delay
      /\ inFlight' = inFlight /\ readyIn' = readyIn
      /\ phase' = phase /\ stored' = stored
  BY DEF frontierVars, loopVars
<1>2. Books'
  BY <1>1, BooksUnchanged DEF CrawlerInv
<1>3. DelayAtLeastDefault' /\ Unfinished' /\ EndIsJustified'
  BY <1>1 DEF CrawlerInv, DelayAtLeastDefault, Unfinished, EndIsJustified
<1>4. h \in Hosts /\ inFlight[h]
  BY TaskHost DEF CrawlerInv, AtWork
<1>5. HostOfTask(t)' = h
  BY DEF HostOfTask
<1>6. ASSUME NEW s \in Tasks, s # t, Running(s)'
      PROVE  /\ Running(s) /\ HostOfTask(s)' = HostOfTask(s)
             /\ HostOfTask(s) # h /\ HostOfTask(s) \in Hosts
  <2>1. Running(s) /\ HostOfTask(s)' = HostOfTask(s)
    BY <1>6 DEF Running, HostOfTask
  <2>2. HostOfTask(s) # h
    BY <1>6, <2>1 DEF CrawlerInv, OneTaskPerHost
  <2>3. HostOfTask(s) \in Hosts
    BY <2>1, TaskHost DEF CrawlerInv
  <2> QED
    BY <2>1, <2>2, <2>3
<1>7. OneTaskPerHost'
  <2> SUFFICES ASSUME NEW r \in Tasks, NEW s \in Tasks, Running(r)', Running(s)',
                      HostOfTask(r)' = HostOfTask(s)'
               PROVE  r = s
    BY DEF OneTaskPerHost
  <2>1. CASE r # t /\ s # t
    BY <2>1, <1>6 DEF CrawlerInv, OneTaskPerHost
  <2>2. CASE r = t \/ s = t
    BY <2>2, <1>5, <1>6
  <2> QED
    BY <2>1, <2>2
<1>8. RobotsAskedOnce'
  BY DEF CrawlerInv, RobotsAskedOnce
<1>9. \A g \in Hosts : AtRest(g)'
  <2> SUFFICES ASSUME NEW g \in Hosts, ~inFlight[g] PROVE AtRest(g)'
    BY <1>1 DEF AtRest
  <2>1. g # h
    BY <1>4
  <2> QED
    BY <2>1, <1>1 DEF CrawlerInv, AtRest
<1>10. \A s \in Tasks : AtWork(s)'
  <2> SUFFICES ASSUME NEW s \in Tasks, s # t, Running(s)' PROVE AtWork(s)'
    BY DEF AtWork
  <2>1. AtWork(s)
    BY DEF CrawlerInv
  <2>2. task'[s] = task[s]
    OBVIOUS
  <2> QED
    BY <2>1, <2>2, <1>1, <1>6 DEF AtWork, Skipped
<1>11. \A g \in Hosts : Held(g)'
  <2>1. \A s \in Tasks : Running(s) => Running(s)' /\ HostOfTask(s)' = HostOfTask(s)
    BY <1>5 DEF Running, HostOfTask
  <2> QED
    BY <2>1, <1>1 DEF CrawlerInv, Held
<1> QED
  BY <1>2, <1>3, <1>7, <1>8, <1>9, <1>10, <1>11 DEF CrawlerInv

\* A decision made by the rules in the cache, on a host at rest.
LEMMA DecideKeeps ==
  ASSUME FrontierAssumption, CrawlerAssumption, CrawlerInv,
         NEW t \in Tasks, task[t].stage \in {"start", "pause"},
         NEW r \in Robots, robots[HostOfTask(t)] = r,
         quiet[HostOfTask(t)] >= DefaultDelay,
         Decide(t, r),
         UNCHANGED <<frontierVars, loopVars, robots, asked>>
  PROVE  CrawlerInv'
<1> DEFINE h == HostOfTask(t)
<1>1. /\ Running(t) /\ AtWork(t) /\ TypeOK
      /\ h \in Hosts /\ task[t].url \in Urls /\ task[t] \in TaskState
  <2>1. Running(t) /\ AtWork(t) /\ TypeOK
    BY DEF Running, CrawlerInv
  <2> QED
    BY <2>1, TaskHost DEF TypeOK
<1>2. r # None
  BY DEF CrawlerAssumption
<1>3. CASE Allows(r, task[t].url)
  <2>1. /\ task' = [task EXCEPT ![t].stage = "page", ![t].rules = r]
        /\ quiet' = [quiet EXCEPT ![h] = 0]
        /\ paged' = [paged EXCEPT ![h] = IF @ < 2 THEN @ + 1 ELSE 2]
    BY <1>3 DEF Decide
  <2>2. /\ task'[t] = [task[t] EXCEPT !.stage = "page", !.rules = r]
        /\ \A s \in Tasks : s # t => task'[s] = task[s]
    BY <1>1, <2>1 DEF TypeOK
  <2>3. /\ task'[t] \in TaskState /\ task'[t].stage = "page"
        /\ task'[t].url = task[t].url /\ task'[t].rules = r
    BY <1>1, <2>2 DEF TaskState, Stages
  <2>4. task' \in [Tasks -> TaskState]
    BY <1>1, <2>1, <2>3 DEF TypeOK
  <2>5. quiet' \in [Hosts -> 0..Horizon] /\ paged' \in [Hosts -> 0..2]
    BY <1>1, <2>1 DEF TypeOK, CrawlerAssumption
  <2>6. TypeOK'
    BY <1>1, <2>2, <2>3, <2>4, <2>5, VisitTyped DEF TypeOK
  <2>7. AtWork(t)' /\ Running(t)'
    BY <1>1, <1>2, <1>3, <2>3 DEF AtWork, Running, HostOfTask, frontierVars
  <2>8. \A g \in Hosts : g # h => quiet'[g] = quiet[g]
    BY <1>1, <2>1 DEF TypeOK
  <2> QED
    BY <1>1, <2>2, <2>3, <2>6, <2>7, <2>8, VisitKeeps
       DEF CrawlerInv, RobotsAskedOnce
<1>4. CASE ~Allows(r, task[t].url)
  <2> DEFINE o == Disallowed(IF AllowsRoot(r) THEN "path" ELSE "host")
  <2>1. /\ task' = [task EXCEPT ![t].stage = "done", ![t].rules = r, ![t].outcome = o]
        /\ quiet' = quiet /\ paged' = paged
    BY <1>4 DEF Decide
  <2>2. o \in Outcome
    BY NoOutcomes
  <2> HIDE DEF o
  <2>3. /\ task'[t] = [task[t] EXCEPT !.stage = "done", !.rules = r, !.outcome = o]
        /\ \A s \in Tasks : s # t => task'[s] = task[s]
    BY <1>1, <2>1 DEF TypeOK
  <2>4. /\ task'[t] \in TaskState /\ task'[t].stage = "done"
        /\ task'[t].url = task[t].url /\ task'[t].rules = r
    BY <1>1, <2>2, <2>3 DEF TaskState, Stages
  <2>5. task' \in [Tasks -> TaskState]
    BY <1>1, <2>1, <2>4 DEF TypeOK
  <2>6. TypeOK'
    BY <1>1, <2>1, <2>3, <2>4, <2>5, VisitTyped DEF TypeOK
  <2>7. AtWork(t)' /\ Running(t)'
    BY <1>1, <1>2, <2>1, <2>4 DEF AtWork, Running, HostOfTask, frontierVars
  <2> QED
    BY <1>1, <2>1, <2>3, <2>4, <2>6, <2>7, VisitKeeps
       DEF CrawlerInv, RobotsAskedOnce
<1> QED
  BY <1>3, <1>4

\* The rules are in the cache: the host has been at rest since it was taken.
LEMMA UseKnownRobotsKeeps ==
  ASSUME FrontierAssumption, CrawlerAssumption, CrawlerInv,
         NEW t \in Tasks, UseKnownRobots(t)
  PROVE  CrawlerInv'
<1> DEFINE h == HostOfTask(t)
<1>1. task[t].stage = "start" /\ robots[h] # None /\ Decide(t, robots[h])
  BY DEF UseKnownRobots
<1>2. Running(t) /\ AtWork(t) /\ TypeOK
  BY <1>1 DEF Running, CrawlerInv
<1>3. h \in Hosts
  BY <1>2, TaskHost
<1>4. robots[h] \in Robots
  BY <1>1, <1>2, <1>3 DEF TypeOK
<1>5. quiet[h] >= DefaultDelay
  BY <1>1, <1>2 DEF AtWork
<1> QED
  BY <1>1, <1>4, <1>5, DecideKeeps DEF UseKnownRobots

\* The pause after robots.txt is over: the host has been at rest that long.
LEMMA ProceedKeeps ==
  ASSUME FrontierAssumption, CrawlerAssumption, CrawlerInv,
         NEW t \in Tasks, Proceed(t)
  PROVE  CrawlerInv'
<1> DEFINE h == HostOfTask(t)
<1>1. task[t].stage = "pause" /\ task[t].nap = 0 /\ Decide(t, task[t].rules)
  BY DEF Proceed
<1>2. Running(t) /\ AtWork(t) /\ TypeOK
  BY <1>1 DEF Running, CrawlerInv
<1>3. h \in Hosts
  BY <1>2, TaskHost
<1>4. robots[h] \in Robots /\ task[t].rules = robots[h]
  BY <1>1, <1>2, <1>3 DEF TypeOK, AtWork
<1>5. quiet[h] >= DefaultDelay
  BY <1>1, <1>2, <1>3 DEF AtWork, TypeOK
<1> QED
  BY <1>1, <1>4, <1>5, DecideKeeps DEF Proceed

\* First contact happens once, after a rest.
LEMMA AskRobotsKeeps ==
  ASSUME FrontierAssumption, CrawlerAssumption, CrawlerInv,
         NEW t \in Tasks, AskRobots(t)
  PROVE  CrawlerInv'
<1> DEFINE h == HostOfTask(t)
<1>1. /\ task[t].stage = "start" /\ robots[h] = None
      /\ task' = [task EXCEPT ![t].stage = "robots"]
      /\ quiet' = [quiet EXCEPT ![h] = 0]
      /\ asked' = [asked EXCEPT ![h] = @ + 1]
      /\ UNCHANGED <<frontierVars, loopVars, robots, paged>>
  BY DEF AskRobots
<1>2. Running(t) /\ AtWork(t) /\ TypeOK
  BY <1>1 DEF Running, CrawlerInv
<1>3. h \in Hosts /\ task[t] \in TaskState
  BY <1>2, TaskHost DEF TypeOK
<1>4. /\ task'[t] = [task[t] EXCEPT !.stage = "robots"]
      /\ \A s \in Tasks : s # t => task'[s] = task[s]
  BY <1>1, <1>2 DEF TypeOK
<1>5. /\ task'[t] \in TaskState /\ task'[t].stage = "robots"
      /\ task'[t].url = task[t].url
  BY <1>3, <1>4 DEF TaskState, Stages
<1>6. task' \in [Tasks -> TaskState]
  BY <1>1, <1>2, <1>5 DEF TypeOK
<1>7. asked[h] = 0
  BY <1>1, <1>2 DEF AtWork
<1>8. /\ quiet' \in [Hosts -> 0..Horizon] /\ asked' \in [Hosts -> Nat]
      /\ asked'[h] = 1
      /\ \A g \in Hosts : g # h => quiet'[g] = quiet[g] /\ asked'[g] = asked[g]
  BY <1>1, <1>2, <1>3, <1>7 DEF TypeOK, CrawlerAssumption
<1>9. TypeOK'
  BY <1>1, <1>2, <1>4, <1>5, <1>6, <1>8, VisitTyped DEF TypeOK
<1>10. AtWork(t)' /\ Running(t)'
  BY <1>1, <1>2, <1>5 DEF AtWork, Running, HostOfTask, frontierVars
<1> QED
  BY <1>1, <1>2, <1>4, <1>5, <1>8, <1>9, <1>10, VisitKeeps

\* The answer is in the cache and the pause covers the rest the host is owed.
LEMMA RobotsAnswerKeeps ==
  ASSUME FrontierAssumption, CrawlerAssumption, CrawlerInv,
         NEW t \in Tasks, RobotsAnswer(t)
  PROVE  CrawlerInv'
<1> DEFINE h == HostOfTask(t)
<1>1. PICK r \in RobotsOf[h] :
        /\ task' = [task EXCEPT ![t].stage = "pause", ![t].rules = r,
                                ![t].made = TRUE, ![t].nap = DefaultDelay]
        /\ robots' = [robots EXCEPT ![h] = IF @ = None THEN r ELSE @]
  BY DEF RobotsAnswer
<1>2. /\ task[t].stage = "robots"
      /\ UNCHANGED <<frontierVars, loopVars, histories>>
  BY DEF RobotsAnswer
<1>3. Running(t) /\ AtWork(t) /\ TypeOK
  BY <1>2 DEF Running, CrawlerInv
<1>4. h \in Hosts /\ task[t] \in TaskState
  BY <1>3, TaskHost DEF TypeOK
<1>5. r \in Robots /\ r # None /\ DefaultDelay \in Nat
  BY <1>4 DEF CrawlerAssumption, FrontierAssumption
<1>6. /\ task'[t] = [task[t] EXCEPT !.stage = "pause", !.rules = r,
                                   !.made = TRUE, !.nap = DefaultDelay]
      /\ \A s \in Tasks : s # t => task'[s] = task[s]
  BY <1>1, <1>3 DEF TypeOK
<1>7. /\ task'[t] \in TaskState /\ task'[t].stage = "pause"
      /\ task'[t].url = task[t].url /\ task'[t].rules = r
      /\ task'[t].nap = DefaultDelay
  BY <1>4, <1>5, <1>6 DEF TaskState, Stages
<1>8. task' \in [Tasks -> TaskState]
  BY <1>1, <1>3, <1>7 DEF TypeOK
<1>9. robots[h] = None
  BY <1>2, <1>3 DEF AtWork
<1>10. /\ robots' \in [Hosts -> Robots \cup {None}] /\ robots'[h] = r
       /\ \A g \in Hosts : g # h => robots'[g] = robots[g]
  BY <1>1, <1>3, <1>4, <1>5, <1>9 DEF TypeOK
<1>11. quiet' = quiet /\ asked' = asked /\ paged' = paged
  BY <1>2 DEF histories
<1>12. TypeOK'
  BY <1>2, <1>3, <1>6, <1>7, <1>8, <1>10, <1>11, VisitTyped DEF TypeOK
<1>13. HostOfTask(t)' = h /\ Running(t)'
  BY <1>7 DEF HostOfTask, Running
<1>14. quiet[h] \in Nat
  BY <1>3, <1>4 DEF TypeOK, CrawlerAssumption
<1>15. AtWork(t)'
  BY <1>2, <1>3, <1>5, <1>7, <1>10, <1>11, <1>13, <1>14 DEF AtWork, frontierVars
<1> QED
  BY <1>2, <1>3, <1>4, <1>6, <1>7, <1>10, <1>11, <1>12, <1>13, <1>15, VisitKeeps
     DEF CrawlerInv, RobotsAskedOnce

\* The page is answered: from here only the loop can give the host away.
LEMMA PageAnswerKeeps ==
  ASSUME FrontierAssumption, CrawlerAssumption, CrawlerInv,
         NEW t \in Tasks, PageAnswer(t)
  PROVE  CrawlerInv'
<1> DEFINE h == HostOfTask(t)
<1>1. PICK a \in Web[task[t].url] :
        task' = [task EXCEPT ![t].stage = "done", ![t].outcome = a]
  BY DEF PageAnswer
<1>2. /\ task[t].stage = "page"
      /\ UNCHANGED <<frontierVars, loopVars, robots, quiet, asked, paged>>
  BY DEF PageAnswer, histories
<1>3. Running(t) /\ AtWork(t) /\ TypeOK
  BY <1>2 DEF Running, CrawlerInv
<1>4. h \in Hosts /\ task[t] \in TaskState /\ task[t].url \in Urls
  BY <1>3, TaskHost DEF TypeOK
<1>5. a \in Answer /\ a \in Outcome
  BY <1>4 DEF CrawlerAssumption, Outcome
<1>6. a.kind \notin {"path", "host"}
  BY <1>5 DEF Answer
<1>7. /\ task'[t] = [task[t] EXCEPT !.stage = "done", !.outcome = a]
      /\ \A s \in Tasks : s # t => task'[s] = task[s]
  BY <1>1, <1>3 DEF TypeOK
<1>8. /\ task'[t] \in TaskState /\ task'[t].stage = "done"
      /\ task'[t].url = task[t].url /\ task'[t].outcome = a
      /\ task'[t].rules = task[t].rules
  BY <1>4, <1>5, <1>7 DEF TaskState, Stages
<1>9. task' \in [Tasks -> TaskState]
  BY <1>1, <1>3, <1>8 DEF TypeOK
<1>11. TypeOK'
  BY <1>2, <1>3, <1>7, <1>8, <1>9, VisitTyped DEF TypeOK
<1>12. HostOfTask(t)' = h /\ Running(t)' /\ ~Skipped(t)'
  BY <1>6, <1>8 DEF HostOfTask, Running, Skipped
<1>13. AtWork(t)'
  BY <1>2, <1>3, <1>8, <1>12 DEF AtWork, frontierVars
<1> QED
  BY <1>2, <1>3, <1>4, <1>7, <1>8, <1>11, <1>12, <1>13, VisitKeeps
     DEF CrawlerInv, RobotsAskedOnce

\* A task that panics goes on holding its host.
LEMMA PanicKeeps ==
  ASSUME FrontierAssumption, CrawlerAssumption, CrawlerInv,
         NEW t \in Tasks, Panic(t)
  PROVE  CrawlerInv'
<1> DEFINE h == HostOfTask(t)
<1>1. /\ h \in Brittle /\ task[t].stage \in {"start", "robots", "pause", "page"}
      /\ task' = [task EXCEPT ![t] = [Idle EXCEPT !.stage = "panicked",
                                        !.url = task[t].url]]
      /\ UNCHANGED <<frontierVars, loopVars, robots, histories>>
  BY DEF Panic
<1>2. Running(t) /\ AtWork(t) /\ TypeOK
  BY <1>1 DEF Running, CrawlerInv
<1>3. h \in Hosts /\ task[t].url \in Urls
  BY <1>2, TaskHost
<1>4. /\ task'[t] = [Idle EXCEPT !.stage = "panicked", !.url = task[t].url]
      /\ \A s \in Tasks : s # t => task'[s] = task[s]
  BY <1>1, <1>2 DEF TypeOK
<1>5. /\ task'[t] \in TaskState /\ task'[t].stage = "panicked"
      /\ task'[t].url = task[t].url
  BY <1>3, <1>4, IdleTyped DEF TaskState, Stages
<1>6. task' \in [Tasks -> TaskState]
  BY <1>1, <1>2, <1>5 DEF TypeOK
<1>7. quiet' = quiet /\ asked' = asked /\ paged' = paged
  BY <1>1 DEF histories
<1>8. TypeOK'
  BY <1>1, <1>2, <1>4, <1>5, <1>6, <1>7, VisitTyped DEF TypeOK
<1>9. HostOfTask(t)' = h /\ Running(t)'
  BY <1>5 DEF HostOfTask, Running
<1>10. AtWork(t)'
  BY <1>1, <1>2, <1>5, <1>9 DEF AtWork, frontierVars
<1> QED
  BY <1>1, <1>2, <1>3, <1>4, <1>5, <1>7, <1>8, <1>9, <1>10, VisitKeeps
     DEF CrawlerInv, RobotsAskedOnce

-----------------------------------------------------------------------------
(* A result absorbed by the loop *)

\* A released host is at rest: it owes a cooldown no shorter than the
\* configured delay, or was not contacted at all.
LEMMA ReleaseRests ==
  ASSUME FrontierAssumption, CrawlerAssumption, CrawlerInv,
         NEW t \in Tasks, task[t].stage = "done", Release(t),
         NEW h \in Hosts, h = HostOfTask(t),
         UNCHANGED <<robots, histories>>
  PROVE  /\ readyIn' \in [Hosts -> Nat]
         /\ fetched' \in [Hosts -> Nat]
         /\ delay' \in [Hosts -> Nat]
         /\ inFlight' \in [Hosts -> BOOLEAN]
         /\ DelayAtLeastDefault'
         /\ \A g \in Hosts : g # h =>
              inFlight'[g] = inFlight[g] /\ readyIn'[g] = readyIn[g]
         /\ AtRest(h)' /\ ~inFlight'[h]
<1>1. Running(t) /\ AtWork(t) /\ TypeOK /\ FrontierTypeOK /\ DelayAtLeastDefault
  BY DEF Running, CrawlerInv, TypeOK
<1>2. h \in Hosts
  OBVIOUS
<1>3. /\ robots[h] # None /\ task[t].rules = robots[h]
      /\ Skipped(t) => quiet[h] >= DefaultDelay
  BY <1>1 DEF AtWork
<1>4. task[t].rules \in Robots
  BY <1>1, <1>2, <1>3 DEF TypeOK
<1>5. CrawlDelay(task[t].rules) \in Nat
  BY <1>4 DEF CrawlDelay, Robots, FrontierAssumption
<1>6. delay' \in [Hosts -> Nat] /\ DelayAtLeastDefault'
  <2>1. CASE task[t].made
    <3> DEFINE d == CrawlDelay(task[t].rules)
    <3>1. delay' = [delay EXCEPT ![h] = IF d > @ THEN d ELSE @]
      BY <2>1 DEF Release, SetHostDelay
    <3>2. d \in Nat /\ DefaultDelay \in Nat
      BY <1>5 DEF FrontierAssumption
    <3> HIDE DEF d
    <3> QED
      BY <3>1, <3>2, <1>1 DEF FrontierTypeOK, DelayAtLeastDefault
  <2>2. CASE ~task[t].made
    BY <2>2, <1>1 DEF Release, FrontierTypeOK, DelayAtLeastDefault
  <2> QED
    BY <2>1, <2>2
<1>7. quiet' = quiet /\ asked' = asked /\ robots' = robots
        /\ quiet[h] \in Nat /\ DefaultDelay \in Nat
        /\ delay[h] \in Nat /\ delay[h] >= DefaultDelay
  BY <1>1, <1>2
     DEF histories, TypeOK, FrontierTypeOK, DelayAtLeastDefault,
         CrawlerAssumption, FrontierAssumption
<1>8. CASE Skipped(t)
  <2>1. /\ inFlight' = [inFlight EXCEPT ![h] = FALSE]
        /\ fetched' = fetched /\ readyIn' = readyIn
    BY <1>8 DEF Release, NoteSkipped
  <2>2. readyIn[h] \in Nat
    BY <1>1, <1>2 DEF FrontierTypeOK
  <2>3. AtRest(h)'
    BY <2>1, <2>2, <1>3, <1>7, <1>8 DEF AtRest
  <2> QED
    BY <2>1, <2>3, <1>1, <1>2, <1>6 DEF FrontierTypeOK
<1>9. CASE ~Skipped(t)
  <2>1. /\ fetched' = [fetched EXCEPT ![h] = @ + 1]
        /\ readyIn' = [readyIn EXCEPT ![h] = delay[h]]
        /\ inFlight' = [inFlight EXCEPT ![h] = FALSE]
    BY <1>9 DEF Release, NoteFetched
  <2>2. readyIn'[h] = delay[h]
    BY <2>1, <1>1, <1>2 DEF FrontierTypeOK
  <2>3. AtRest(h)'
    BY <2>2, <1>3, <1>7 DEF AtRest
  <2> QED
    BY <2>1, <2>3, <1>1, <1>2, <1>6, <1>7 DEF FrontierTypeOK
<1> QED
  BY <1>8, <1>9

\* Absorbing a result keeps the invariant when it leaves every other host
\* alone and its own at rest.
LEMMA AbsorbKeeps ==
  ASSUME FrontierAssumption, CrawlerAssumption, CrawlerInv,
         NEW t \in Tasks, Running(t), phase = "join",
         NEW h \in Hosts, h = HostOfTask(t),
         \/ Resume(t)
         \/ phase' = "failed" /\ task' = [s \in Tasks |-> Idle],
         stored' \in 0..MaxPages,
         UNCHANGED <<napping, robots, histories>>,
         FrontierTypeOK', Books', DelayAtLeastDefault',
         \A g \in Hosts : g # h =>
           /\ inFlight'[g] = inFlight[g] /\ blocked'[g] = blocked[g]
           /\ readyIn'[g] = readyIn[g],
         AtRest(h)', ~inFlight'[h] \/ h \in Brittle
  PROVE  CrawlerInv'
<1>1. TypeOK
  BY DEF CrawlerInv
<1>2. /\ napping' = napping /\ robots' = robots
      /\ quiet' = quiet /\ asked' = asked /\ paged' = paged
  BY DEF histories
<1>3. Idle \in TaskState /\ Idle.stage = "idle"
  BY IdleTyped DEF Idle
<1>4. /\ \/ phase' = "dispatch" /\ stored' < MaxPages
         \/ phase' = "done" /\ stored' = MaxPages
         \/ phase' = "failed"
      /\ task' \in [Tasks -> TaskState]
      /\ \A s \in Tasks : task'[s] = Idle \/ (s # t /\ task'[s] = task[s])
      /\ phase' = "dispatch" => \A s \in Tasks : s # t => task'[s] = task[s]
  <2>1. CASE phase' = "failed" /\ task' = [s \in Tasks |-> Idle]
    BY <2>1, <1>3
  <2>2. CASE Resume(t) /\ stored' < MaxPages
    BY <2>2, <1>1, <1>3 DEF Resume, TypeOK
  <2>3. CASE Resume(t) /\ ~(stored' < MaxPages)
    <3>1. phase' = "done" /\ task' = [s \in Tasks |-> Idle]
      BY <2>3 DEF Resume
    <3>2. stored' = MaxPages
      BY <2>3 DEF CrawlerAssumption
    <3> QED
      BY <3>1, <3>2, <1>3
  <2> QED
    BY <2>1, <2>2, <2>3
<1>5. TypeOK'
  <2>1. \A s \in Tasks : task'[s].stage # "idle" => task'[s].url \in Urls
    BY <1>1, <1>3, <1>4 DEF TypeOK
  <2>2. phase' \in {"seed", "dispatch", "join", "sleep", "done", "failed"}
    BY <1>4
  <2> QED
    BY <2>1, <2>2, <1>1, <1>2, <1>4 DEF TypeOK
<1>6. ASSUME NEW s \in Tasks, Running(s)'
      PROVE  /\ Running(s) /\ task'[s] = task[s] /\ HostOfTask(s)' = HostOfTask(s)
             /\ HostOfTask(s) # h /\ HostOfTask(s) \in Hosts
  <2>1. s # t /\ task'[s] = task[s]
    BY <1>3, <1>4, <1>6 DEF Running
  <2>2. Running(s) /\ HostOfTask(s)' = HostOfTask(s)
    BY <2>1, <1>6 DEF Running, HostOfTask
  <2>3. HostOfTask(s) # h
    BY <2>1, <2>2 DEF CrawlerInv, OneTaskPerHost
  <2>4. HostOfTask(s) \in Hosts
    BY <2>2, TaskHost DEF CrawlerInv
  <2> QED
    BY <2>1, <2>2, <2>3, <2>4
<1>7. OneTaskPerHost'
  BY <1>6 DEF CrawlerInv, OneTaskPerHost
<1>8. RobotsAskedOnce'
  BY <1>2 DEF CrawlerInv, RobotsAskedOnce
<1>9. \A g \in Hosts : AtRest(g)'
  <2> SUFFICES ASSUME NEW g \in Hosts, g # h PROVE AtRest(g)'
    OBVIOUS
  <2>1. AtRest(g)
    BY DEF CrawlerInv
  <2> QED
    BY <2>1, <1>2 DEF AtRest
<1>10. \A s \in Tasks : AtWork(s)'
  <2> SUFFICES ASSUME NEW s \in Tasks, Running(s)' PROVE AtWork(s)'
    BY DEF AtWork
  <2>1. AtWork(s)
    BY DEF CrawlerInv
  <2> QED
    BY <2>1, <1>2, <1>6 DEF AtWork, Skipped
<1>11. Unfinished' /\ EndIsJustified'
  BY <1>4 DEF Unfinished, EndIsJustified
<1>12. \A g \in Hosts : Held(g)'
  <2> SUFFICES ASSUME NEW g \in Hosts, inFlight'[g], g \notin Brittle, phase' = "dispatch"
               PROVE  \E s \in Tasks : Running(s)' /\ HostOfTask(s)' = g
    BY <1>4 DEF Held
  <2>1. g # h /\ inFlight[g]
    OBVIOUS
  <2>2. PICK s \in Tasks : Running(s) /\ HostOfTask(s) = g
    BY <2>1 DEF CrawlerInv, Held
  <2>3. task'[s] = task[s]
    BY <2>1, <2>2, <1>4
  <2> QED
    BY <2>2, <2>3 DEF Running, HostOfTask
<1> QED
  BY <1>5, <1>7, <1>8, <1>9, <1>10, <1>11, <1>12 DEF CrawlerInv

\* What a completed task reports can be queued.
LEMMA OutcomeLinks ==
  ASSUME FrontierAssumption, TypeOK, NEW t \in Tasks,
         task[t].outcome.kind \in {"page", "redirect"}
  PROVE  task[t].outcome.links \in Links /\ task[t].depth \in Nat
<1>1. task[t].outcome \in Outcome /\ task[t].depth \in Nat
  BY DEF TypeOK, TaskState
<1>2. task[t].outcome \in Answer
  BY <1>1 DEF Outcome, NoOutcome, Disallowed
<1> QED
  BY <1>1, <1>2 DEF Answer

\* A result that brings links.
LEMMA AbsorbLinks ==
  ASSUME FrontierAssumption, CrawlerAssumption, CrawlerInv,
         NEW t \in Tasks, phase = "join", task[t].stage = "done",
         Release(t),
         NEW links \in Links, NEW depth \in Nat, Offer(links, depth, fetched'),
         \/ Resume(t)
         \/ phase' = "failed" /\ task' = [s \in Tasks |-> Idle],
         stored' \in 0..MaxPages,
         UNCHANGED <<blocked, handed, napping, robots, histories>>
  PROVE  CrawlerInv'
<1>1. Running(t) /\ FrontierTypeOK /\ Books
  BY DEF Running, CrawlerInv, TypeOK
<1>2. PICK h \in Hosts : h = HostOfTask(t)
  BY <1>1, TaskHost DEF CrawlerInv
<1>3. /\ readyIn' \in [Hosts -> Nat]
      /\ fetched' \in [Hosts -> Nat]
      /\ delay' \in [Hosts -> Nat]
      /\ inFlight' \in [Hosts -> BOOLEAN]
      /\ DelayAtLeastDefault'
      /\ \A g \in Hosts : g # h =>
           inFlight'[g] = inFlight[g] /\ readyIn'[g] = readyIn[g]
      /\ AtRest(h)' /\ ~inFlight'[h]
  BY <1>2, ReleaseRests
<1>4. /\ queue' \in [Hosts -> Seq(Candidate)]
      /\ seen' \subseteq {KeyOf[u] : u \in Urls}
      /\ queued' \in Int
      /\ Books'
  BY <1>1, OfferKeepsBooks
<1>5. FrontierTypeOK'
  BY <1>1, <1>3, <1>4 DEF FrontierTypeOK
<1> QED
  BY <1>1, <1>2, <1>3, <1>4, <1>5, AbsorbKeeps

\* Absorbing a redirect: the host is released and the target offered.
LEMMA AbsorbRedirectKeeps ==
  ASSUME FrontierAssumption, CrawlerAssumption, CrawlerInv,
         NEW t \in Tasks, AbsorbRedirect(t)
  PROVE  CrawlerInv'
<1>1. phase = "join" /\ task[t].stage = "done" /\ task[t].outcome.kind = "redirect"
  BY DEF AbsorbRedirect, Completed
<1>2. TypeOK /\ stored' \in 0..MaxPages
  BY DEF AbsorbRedirect, CrawlerInv, TypeOK
<1>3. task[t].outcome.links \in Links /\ task[t].depth \in Nat
  BY <1>1, <1>2, OutcomeLinks
<1> QED
  BY <1>1, <1>2, <1>3, AbsorbLinks DEF AbsorbRedirect

\* Absorbing a page: the host is released, the links are offered.
LEMMA AbsorbPageKeeps ==
  ASSUME FrontierAssumption, CrawlerAssumption, CrawlerInv,
         NEW t \in Tasks, AbsorbPage(t)
  PROVE  CrawlerInv'
<1>1. phase = "join" /\ task[t].stage = "done" /\ task[t].outcome.kind = "page"
  BY DEF AbsorbPage, Completed
<1>2. TypeOK /\ stored \in 0..MaxPages /\ stored < MaxPages /\ MaxPages \in Nat
  BY <1>1 DEF CrawlerInv, TypeOK, Unfinished, CrawlerAssumption
<1>3. stored' \in 0..MaxPages
  BY <1>2 DEF AbsorbPage
<1>4. task[t].outcome.links \in Links /\ task[t].depth + 1 \in Nat
  BY <1>1, <1>2, OutcomeLinks
<1> QED
  BY <1>1, <1>3, <1>4, AbsorbLinks DEF AbsorbPage

\* A failing disk ends the crawl with every task aborted.
LEMMA StoreFailsKeeps ==
  ASSUME FrontierAssumption, CrawlerAssumption, CrawlerInv,
         NEW t \in Tasks, StoreFails(t)
  PROVE  CrawlerInv'
<1>1. phase = "join" /\ task[t].stage = "done" /\ task[t].outcome.kind = "page"
  BY DEF StoreFails, Completed
<1>2. TypeOK /\ stored' \in 0..MaxPages
  BY DEF StoreFails, CrawlerInv, TypeOK
<1>3. task[t].outcome.links \in Links /\ task[t].depth + 1 \in Nat
  BY <1>1, <1>2, OutcomeLinks
<1> QED
  BY <1>1, <1>2, <1>3, AbsorbLinks DEF StoreFails

\* A result that brings no link and blocks nothing.
LEMMA AbsorbNothing ==
  ASSUME FrontierAssumption, CrawlerAssumption, CrawlerInv,
         NEW t \in Tasks, phase = "join", task[t].stage = "done",
         Release(t), stored' = stored, Resume(t),
         UNCHANGED <<queue, queued, seen, blocked, handed, napping, robots,
                     histories>>
  PROVE  CrawlerInv'
<1>1. Running(t) /\ FrontierTypeOK /\ Books /\ stored' \in 0..MaxPages
  BY DEF Running, CrawlerInv, TypeOK
<1>2. PICK h \in Hosts : h = HostOfTask(t)
  BY <1>1, TaskHost DEF CrawlerInv
<1>3. /\ readyIn' \in [Hosts -> Nat]
      /\ fetched' \in [Hosts -> Nat]
      /\ delay' \in [Hosts -> Nat]
      /\ inFlight' \in [Hosts -> BOOLEAN]
      /\ DelayAtLeastDefault'
      /\ \A g \in Hosts : g # h =>
           inFlight'[g] = inFlight[g] /\ readyIn'[g] = readyIn[g]
      /\ AtRest(h)' /\ ~inFlight'[h]
  BY <1>2, ReleaseRests
<1>4. Books'
  BY <1>1, BooksUnchanged
<1>5. FrontierTypeOK'
  BY <1>1, <1>3 DEF FrontierTypeOK
<1> QED
  BY <1>1, <1>2, <1>3, <1>4, <1>5, AbsorbKeeps

\* Blocking a host: its one task is the one being absorbed.
LEMMA AbsorbHostDisallowedKeeps ==
  ASSUME FrontierAssumption, CrawlerAssumption, CrawlerInv,
         NEW t \in Tasks, AbsorbHostDisallowed(t)
  PROVE  CrawlerInv'
<1>1. /\ phase = "join" /\ task[t].stage = "done"
      /\ Release(t) /\ BlockHost(HostOfTask(t)) /\ Resume(t)
      /\ stored' = stored
      /\ UNCHANGED <<seen, handed, napping, robots, histories>>
  BY DEF AbsorbHostDisallowed, Completed
<1>2. Running(t) /\ FrontierTypeOK /\ Books /\ stored' \in 0..MaxPages
  BY <1>1 DEF Running, CrawlerInv, TypeOK
<1>3. PICK h \in Hosts : h = HostOfTask(t)
  BY <1>2, TaskHost DEF CrawlerInv
<1>4. /\ readyIn' \in [Hosts -> Nat]
      /\ fetched' \in [Hosts -> Nat]
      /\ delay' \in [Hosts -> Nat]
      /\ inFlight' \in [Hosts -> BOOLEAN]
      /\ DelayAtLeastDefault'
      /\ \A g \in Hosts : g # h =>
           inFlight'[g] = inFlight[g] /\ readyIn'[g] = readyIn[g]
      /\ AtRest(h)' /\ ~inFlight'[h]
  BY <1>1, <1>3, ReleaseRests
<1>5. BlockHost(h)
  BY <1>1, <1>3
<1>6. /\ queue' \in [Hosts -> Seq(Candidate)]
      /\ blocked' \in [Hosts -> BOOLEAN]
      /\ Books'
  BY <1>1, <1>2, <1>5, BlockKeepsBooks
<1>7. queued' \in Int
  <2>1. Len(queue[h]) \in Nat
    BY <1>2, LenProperties DEF FrontierTypeOK
  <2> QED
    BY <1>2, <1>5, <2>1 DEF BlockHost, FrontierTypeOK
<1>8. \A g \in Hosts : g # h => blocked'[g] = blocked[g]
  BY <1>2, <1>5 DEF BlockHost, FrontierTypeOK
<1>9. FrontierTypeOK'
  BY <1>1, <1>2, <1>4, <1>6, <1>7 DEF FrontierTypeOK
<1> QED
  BY <1>1, <1>2, <1>3, <1>4, <1>6, <1>8, <1>9, AbsorbKeeps

\* A panicked task is forgotten and its host is not released.
LEMMA JoinPanickedKeeps ==
  ASSUME FrontierAssumption, CrawlerAssumption, CrawlerInv,
         NEW t \in Tasks, JoinPanicked(t)
  PROVE  CrawlerInv'
<1>1. /\ phase = "join" /\ task[t].stage = "panicked" /\ Resume(t)
      /\ stored' = stored
      /\ UNCHANGED <<frontierVars, napping, robots, histories>>
  BY DEF JoinPanicked
<1>2. Running(t) /\ AtWork(t) /\ TypeOK /\ FrontierTypeOK /\ Books
        /\ stored' \in 0..MaxPages /\ DelayAtLeastDefault
  BY <1>1 DEF Running, CrawlerInv, TypeOK
<1>3. PICK h \in Hosts : h = HostOfTask(t)
  BY <1>2, TaskHost
<1>4. FrontierTypeOK' /\ DelayAtLeastDefault'
  BY <1>1, <1>2 DEF FrontierTypeOK, frontierVars, DelayAtLeastDefault
<1>5. Books'
  BY <1>1, <1>2, BooksUnchanged DEF frontierVars
<1>6. AtRest(h)'
  BY <1>1, <1>2, <1>3 DEF AtRest, AtWork, frontierVars
<1>7. inFlight' = inFlight /\ blocked' = blocked /\ readyIn' = readyIn
  BY <1>1 DEF frontierVars
<1>8. h \in Brittle
  BY <1>1, <1>2, <1>3 DEF AtWork
<1> QED
  BY <1>1, <1>2, <1>3, <1>4, <1>5, <1>6, <1>7, <1>8, AbsorbKeeps

-----------------------------------------------------------------------------
(* A step of the loop alone *)

\* A step that moves only the loop keeps the invariant if it runs on only
\* while pages are missing, and stops only for a reason.
LEMMA LoopKeeps ==
  ASSUME CrawlerInv,
         UNCHANGED <<frontierVars, stored, task, robots, histories>>,
         phase \notin {"done", "failed"},
         phase' \in {"dispatch", "join", "sleep", "done"}, napping' \in Nat,
         phase' # "done" => stored < MaxPages,
         EndIsJustified'
  PROVE  CrawlerInv'
<1>1. /\ queue' = queue /\ blocked' = blocked /\ seen' = seen
      /\ queued' = queued /\ handed' = handed /\ delay' = delay
      /\ inFlight' = inFlight /\ readyIn' = readyIn /\ fetched' = fetched
      /\ stored' = stored /\ task' = task /\ robots' = robots
      /\ quiet' = quiet /\ asked' = asked /\ paged' = paged
  BY DEF frontierVars, histories
<1>2. Books'
  BY <1>1, BooksUnchanged DEF CrawlerInv
<1>3. FrontierTypeOK'
  BY <1>1 DEF CrawlerInv, TypeOK, FrontierTypeOK
<1>4. TypeOK'
  BY <1>1, <1>3 DEF CrawlerInv, TypeOK
<1>5. DelayAtLeastDefault' /\ RobotsAskedOnce' /\ Unfinished'
  BY <1>1 DEF CrawlerInv, DelayAtLeastDefault, RobotsAskedOnce, Unfinished
<1>6. OneTaskPerHost'
  BY <1>1 DEF CrawlerInv, OneTaskPerHost, Running, HostOfTask
<1>7. \A h \in Hosts : AtRest(h)'
  BY <1>1 DEF CrawlerInv, AtRest
<1>8. \A t \in Tasks : AtWork(t)'
  BY <1>1 DEF CrawlerInv, AtWork, Running, HostOfTask, Skipped
<1>9. \A h \in Hosts : Held(h)'
  BY <1>1 DEF CrawlerInv, Held, Running, HostOfTask
<1> QED
  BY <1>2, <1>4, <1>5, <1>6, <1>7, <1>8, <1>9 DEF CrawlerInv

\* Turning to join_next changes the phase only.
LEMMA AwaitTaskKeeps ==
  ASSUME CrawlerInv, AwaitTask PROVE CrawlerInv'
<1>1. /\ phase = "dispatch" /\ phase' = "join"
      /\ napping' = napping /\ stored < MaxPages /\ napping \in Nat
  BY DEF AwaitTask, Dispatched, CrawlerInv, Unfinished, TypeOK
<1> QED
  BY <1>1, LoopKeeps DEF AwaitTask, EndIsJustified

\* Going to sleep changes the phase and the time to sleep.
LEMMA SleepKeeps ==
  ASSUME CrawlerInv, Sleep PROVE CrawlerInv'
<1>1. phase = "dispatch" /\ phase' = "sleep" /\ stored < MaxPages
  BY DEF Sleep, Dispatched, CrawlerInv, Unfinished
<1>2. napping' \in Nat
  <2>1. \A h \in Cooling : readyIn[h] \in Nat
    BY DEF CrawlerInv, TypeOK, FrontierTypeOK, Cooling
  <2> QED
    BY <2>1 DEF Sleep, WaitTimes
<1> QED
  BY <1>1, <1>2, LoopKeeps DEF Sleep, EndIsJustified

\* Waking up changes the phase only.
LEMMA WakeKeeps ==
  ASSUME CrawlerInv, Wake PROVE CrawlerInv'
<1>1. /\ phase = "sleep" /\ phase' = "dispatch" /\ napping' = napping
      /\ stored < MaxPages /\ napping \in Nat
  BY DEF Wake, CrawlerInv, Unfinished, TypeOK
<1> QED
  BY <1>1, LoopKeeps DEF Wake, EndIsJustified

\* With no task running, a host is either held by a task that panicked, or
\* ready, or cooling down, or has nothing queued.
LEMMA ExhaustedKeeps ==
  ASSUME CrawlerAssumption, CrawlerInv, Exhausted PROVE CrawlerInv'
<1>1. /\ phase = "dispatch" /\ phase' = "done"
      /\ napping' = napping /\ napping \in Nat
      /\ UNCHANGED <<frontierVars, stored, task, robots, histories>>
  BY DEF Exhausted, Dispatched, CrawlerInv, TypeOK
<1>2. \A h \in Hosts : ~Ready(h)
  BY DEF Exhausted, Dispatched, CrawlerAssumption
<1>3. ASSUME NEW h \in Hosts PROVE queue[h] = <<>> \/ (h \in Brittle /\ inFlight[h])
  <2>1. readyIn[h] \in Nat
    BY DEF CrawlerInv, TypeOK, FrontierTypeOK
  <2>2. ~Eligible(h)
    BY <2>1, <1>2 DEF Exhausted, Cooling, Ready
  <2>3. inFlight[h] => h \in Brittle
    BY <1>1 DEF Exhausted, CrawlerInv, Held
  <2> QED
    BY <2>2, <2>3 DEF Eligible, CrawlerInv, Books, BlockedIsEmpty
<1>4. EndIsJustified'
  BY <1>1, <1>3 DEF EndIsJustified, frontierVars
<1> QED
  BY <1>1, <1>4, LoopKeeps

\* Pushing the seeds starts from the empty frontier.
LEMMA PushSeedsKeeps ==
  ASSUME FrontierAssumption, CrawlerAssumption, CrawlerInv, PushSeeds
  PROVE  CrawlerInv'
<1>1. /\ Offer(Seeds, 0, fetched)
      /\ UNCHANGED <<readyIn, fetched, delay, blocked, inFlight, handed,
                     napping, stored, task, robots, histories>>
  BY DEF PushSeeds
<1>2. TypeOK /\ FrontierTypeOK /\ Books /\ Seeds \in Links /\ 0 \in Nat
  BY DEF CrawlerInv, TypeOK, CrawlerAssumption
<1>3. /\ queue' \in [Hosts -> Seq(Candidate)]
      /\ seen' \subseteq {KeyOf[u] : u \in Urls}
      /\ queued' \in Int
      /\ Books'
  BY <1>1, <1>2, OfferKeepsBooks
<1>4. /\ stored = 0 /\ MaxPages \in Nat
      /\ \/ phase' = "failed"
         \/ phase' = "done" /\ MaxPages = 0
         \/ phase' = "dispatch" /\ MaxPages # 0
  BY DEF PushSeeds, CrawlerInv, Unfinished, CrawlerAssumption
<1>5. /\ quiet' = quiet /\ asked' = asked /\ paged' = paged
      /\ task' = task /\ robots' = robots /\ stored' = stored
      /\ napping' = napping
  BY <1>1 DEF histories
<1>6. FrontierTypeOK'
  BY <1>1, <1>2, <1>3 DEF FrontierTypeOK
<1>7. TypeOK'
  BY <1>2, <1>4, <1>5, <1>6 DEF TypeOK
<1>8. DelayAtLeastDefault' /\ RobotsAskedOnce' /\ Unfinished' /\ EndIsJustified'
  BY <1>1, <1>4, <1>5
     DEF CrawlerInv, DelayAtLeastDefault, RobotsAskedOnce, Unfinished,
         EndIsJustified
<1>9. OneTaskPerHost'
  BY <1>5 DEF CrawlerInv, OneTaskPerHost, Running, HostOfTask
<1>10. \A h \in Hosts : AtRest(h)'
  BY <1>1, <1>5 DEF CrawlerInv, AtRest
<1>11. \A t \in Tasks : AtWork(t)'
  BY <1>1, <1>5 DEF CrawlerInv, AtWork, Running, HostOfTask, Skipped
<1>12. \A h \in Hosts : Held(h)'
  BY <1>1, <1>5 DEF PushSeeds, CrawlerInv, Held, Running, HostOfTask
<1> QED
  BY <1>3, <1>7, <1>8, <1>9, <1>10, <1>11, <1>12 DEF CrawlerInv

\* The host a task is given was free: no task has it, and it is at rest.
LEMMA DispatchKeeps ==
  ASSUME FrontierAssumption, CrawlerAssumption, CrawlerInv,
         NEW t \in Tasks, NEW h \in Hosts, Dispatch(t, h)
  PROVE  CrawlerInv'
<1> DEFINE c == Head(queue[h])
           new == [Idle EXCEPT !.stage = "start", !.url = c.url, !.depth = c.depth]
<1>1. /\ phase = "dispatch" /\ ~Running(t) /\ Take(h)
      /\ task' = [task EXCEPT ![t] = new]
      /\ UNCHANGED <<loopVars, robots, histories>>
  BY DEF Dispatch
<1>2. TypeOK /\ FrontierTypeOK /\ Books /\ DelayAtLeastDefault
  BY DEF CrawlerInv, TypeOK
<1>3. /\ queue' \in [Hosts -> Seq(Candidate)]
      /\ handed' \subseteq Urls
      /\ c \in Candidate
      /\ HostOf[c.url] = h
      /\ Books'
  BY <1>1, <1>2, TakeKeepsBooks
<1>4. /\ ~inFlight[h] /\ ~blocked[h] /\ readyIn[h] = 0
      /\ queued' = queued - 1
      /\ inFlight' = [inFlight EXCEPT ![h] = TRUE]
      /\ UNCHANGED <<readyIn, fetched, delay, blocked, seen>>
  BY <1>1 DEF Take, Ready, Eligible
<1>5. /\ inFlight' \in [Hosts -> BOOLEAN] /\ inFlight'[h] = TRUE
      /\ \A g \in Hosts : g # h => inFlight'[g] = inFlight[g]
  BY <1>2, <1>4 DEF FrontierTypeOK
<1>6. FrontierTypeOK'
  BY <1>2, <1>3, <1>4, <1>5 DEF FrontierTypeOK
<1>7. c.url \in Urls /\ c.depth \in Nat
  BY <1>3 DEF Candidate
<1>8. /\ new \in TaskState /\ new.stage = "start" /\ new.url = c.url
  BY <1>7, IdleTyped DEF TaskState, Stages
<1> HIDE DEF new
<1>9. /\ task' \in [Tasks -> TaskState] /\ task'[t] = new
      /\ \A s \in Tasks : s # t => task'[s] = task[s]
  BY <1>1, <1>2, <1>8 DEF TypeOK
<1>10. /\ quiet' = quiet /\ asked' = asked /\ paged' = paged
       /\ phase' = phase /\ stored' = stored /\ napping' = napping
       /\ robots' = robots
  BY <1>1 DEF histories, loopVars
<1>11. TypeOK'
  <2>1. \A s \in Tasks : task'[s].stage # "idle" => task'[s].url \in Urls
    BY <1>2, <1>7, <1>8, <1>9 DEF TypeOK
  <2> QED
    BY <2>1, <1>2, <1>6, <1>9, <1>10 DEF TypeOK
<1>12. /\ Running(t)' /\ HostOfTask(t)' = h
  BY <1>3, <1>8, <1>9 DEF Running, HostOfTask
<1>13. ASSUME NEW s \in Tasks, s # t, Running(s)'
       PROVE  /\ Running(s) /\ HostOfTask(s)' = HostOfTask(s)
              /\ HostOfTask(s) # h /\ HostOfTask(s) \in Hosts
  <2>1. Running(s) /\ HostOfTask(s)' = HostOfTask(s)
    BY <1>9, <1>13 DEF Running, HostOfTask
  <2>2. HostOfTask(s) # h
    BY <2>1, <1>4 DEF CrawlerInv, AtWork
  <2>3. HostOfTask(s) \in Hosts
    BY <2>1, TaskHost DEF CrawlerInv
  <2> QED
    BY <2>1, <2>2, <2>3
<1>14. OneTaskPerHost'
  <2> SUFFICES ASSUME NEW r \in Tasks, NEW s \in Tasks, Running(r)', Running(s)',
                      HostOfTask(r)' = HostOfTask(s)'
               PROVE  r = s
    BY DEF OneTaskPerHost
  <2>1. CASE r # t /\ s # t
    BY <2>1, <1>13 DEF CrawlerInv, OneTaskPerHost
  <2>2. CASE r = t \/ s = t
    BY <2>2, <1>12, <1>13
  <2> QED
    BY <2>1, <2>2
<1>15. DelayAtLeastDefault' /\ RobotsAskedOnce' /\ Unfinished' /\ EndIsJustified'
  BY <1>1, <1>4, <1>10
     DEF CrawlerInv, DelayAtLeastDefault, RobotsAskedOnce, Unfinished,
         EndIsJustified
<1>16. \A g \in Hosts : AtRest(g)'
  <2> SUFFICES ASSUME NEW g \in Hosts, ~inFlight'[g] PROVE AtRest(g)'
    BY DEF AtRest
  <2>1. AtRest(g) /\ ~inFlight[g]
    BY <1>5 DEF CrawlerInv
  <2> QED
    BY <2>1, <1>4, <1>10 DEF AtRest
<1>17. AtWork(t)'
  <2>1. AtRest(h)
    BY DEF CrawlerInv
  <2>2. quiet[h] \in Nat
    BY <1>2 DEF TypeOK, CrawlerAssumption
  <2>3. quiet[h] >= DefaultDelay /\ (robots[h] = None => asked[h] = 0)
    BY <2>1, <2>2, <1>4 DEF AtRest
  <2> QED
    BY <2>3, <1>4, <1>5, <1>8, <1>9, <1>10, <1>12 DEF AtWork
<1>18. ASSUME NEW s \in Tasks, s # t PROVE AtWork(s)'
  <2> SUFFICES ASSUME Running(s)' PROVE AtWork(s)'
    BY DEF AtWork
  <2>1. AtWork(s) /\ task'[s] = task[s]
    BY <1>9, <1>18 DEF CrawlerInv
  <2> QED
    BY <2>1, <1>4, <1>5, <1>10, <1>13, <1>18 DEF AtWork, Skipped
<1>19. \A g \in Hosts : Held(g)'
  <2> SUFFICES ASSUME NEW g \in Hosts, g # h, inFlight'[g], g \notin Brittle
               PROVE  \E s \in Tasks : Running(s)' /\ HostOfTask(s)' = g
    BY <1>12 DEF Held
  <2>1. PICK s \in Tasks : Running(s) /\ HostOfTask(s) = g
    BY <1>1, <1>5 DEF CrawlerInv, Held
  <2>2. task'[s] = task[s]
    BY <2>1, <1>1, <1>9
  <2> QED
    BY <2>1, <2>2 DEF Running, HostOfTask
<1> QED
  BY <1>3, <1>11, <1>14, <1>15, <1>16, <1>17, <1>18, <1>19 DEF CrawlerInv

\* Time only adds to the rest of a host that answers no request, as much as it
\* takes off any cooldown or pause.
LEMMA TimePassesKeeps ==
  ASSUME FrontierAssumption, CrawlerAssumption, CrawlerInv, TimePasses
  PROVE  CrawlerInv'
<1>1. /\ readyIn' = [h \in Hosts |-> Cooled(readyIn[h])]
      /\ napping' = Cooled(napping)
      /\ task' = [t \in Tasks |-> [task[t] EXCEPT !.nap = Cooled(@)]]
      /\ quiet' = [h \in Hosts |->
           IF Requesting(h) # {} THEN 0
           ELSE IF quiet[h] < Horizon THEN quiet[h] + 1 ELSE Horizon]
      /\ UNCHANGED <<queue, fetched, delay, blocked, inFlight, seen, queued,
                     handed, phase, stored, robots, asked, paged>>
  BY DEF TimePasses, CoolDown
<1>2. /\ TypeOK /\ FrontierTypeOK /\ Books
      /\ DefaultDelay \in Nat /\ Horizon \in Nat /\ Horizon >= DefaultDelay
  BY DEF CrawlerInv, TypeOK, FrontierAssumption, CrawlerAssumption
<1>3. \A n \in Nat : Cooled(n) \in Nat /\ n <= Cooled(n) + 1
  BY DEF Cooled
<1>4. ASSUME NEW t \in Tasks
      PROVE  /\ task[t] \in TaskState
             /\ task'[t] = [task[t] EXCEPT !.nap = Cooled(task[t].nap)]
             /\ task'[t] \in TaskState /\ task[t].nap \in Nat
             /\ task'[t].stage = task[t].stage /\ task'[t].url = task[t].url
             /\ task'[t].rules = task[t].rules /\ task'[t].made = task[t].made
             /\ task'[t].outcome = task[t].outcome
             /\ task'[t].nap = Cooled(task[t].nap)
  <2>1. task[t] \in TaskState /\ task[t].nap \in Nat
    BY <1>2 DEF TypeOK, TaskState
  <2>2. task'[t] = [task[t] EXCEPT !.nap = Cooled(task[t].nap)]
    BY <1>1
  <2>3. Cooled(task[t].nap) \in Nat
    BY <2>1, <1>3
  <2> QED
    BY <2>1, <2>2, <2>3 DEF TaskState
<1>5. /\ \A t \in Tasks : Running(t)' = Running(t) /\ HostOfTask(t)' = HostOfTask(t)
      /\ \A t \in Tasks : Skipped(t)' = Skipped(t)
  BY <1>4 DEF Running, HostOfTask, Skipped
<1>6. TypeOK'
  <2>1. FrontierTypeOK'
    BY <1>1, <1>2, <1>3 DEF FrontierTypeOK
  <2>2. task' \in [Tasks -> TaskState]
    BY <1>1, <1>4
  <2>3. \A t \in Tasks : task'[t].stage # "idle" => task'[t].url \in Urls
    BY <1>2, <1>4 DEF TypeOK
  <2>4. quiet' \in [Hosts -> 0..Horizon]
    BY <1>1, <1>2 DEF TypeOK
  <2>5. napping' \in Nat
    BY <1>1, <1>2, <1>3 DEF TypeOK
  <2> QED
    BY <2>1, <2>2, <2>3, <2>4, <2>5, <1>1, <1>2 DEF TypeOK
<1>7. Books'
  BY <1>1, <1>2, BooksUnchanged
<1>8. DelayAtLeastDefault' /\ RobotsAskedOnce' /\ Unfinished' /\ EndIsJustified'
  BY <1>1
     DEF CrawlerInv, DelayAtLeastDefault, RobotsAskedOnce, Unfinished,
         EndIsJustified
<1>9. OneTaskPerHost'
  BY <1>5 DEF CrawlerInv, OneTaskPerHost
\* A rest of n, counting a timer that runs, does not shrink.
<1>10. ASSUME NEW h \in Hosts, Requesting(h) = {}
       PROVE  /\ quiet[h] \in Nat /\ quiet'[h] \in Nat
              /\ quiet'[h] = quiet[h] + 1 \/ quiet'[h] >= DefaultDelay
              /\ quiet[h] >= DefaultDelay => quiet'[h] >= DefaultDelay
  BY <1>1, <1>2, <1>10 DEF TypeOK
<1>11. \A h \in Hosts : AtRest(h)'
  <2> SUFFICES ASSUME NEW h \in Hosts, ~inFlight[h] PROVE AtRest(h)'
    BY <1>1 DEF AtRest
  <2>1. Requesting(h) = {}
    BY DEF Requesting, Running, CrawlerInv, AtWork
  <2>2. AtRest(h)
    BY DEF CrawlerInv
  <2>3. readyIn[h] \in Nat /\ readyIn'[h] = Cooled(readyIn[h])
    BY <1>1, <1>2 DEF FrontierTypeOK
  <2>4. readyIn'[h] + quiet'[h] >= DefaultDelay
    BY <2>1, <2>2, <2>3, <1>2, <1>3, <1>10 DEF AtRest
  <2> QED
    BY <2>2, <2>4, <1>1 DEF AtRest
<1>12. \A t \in Tasks : AtWork(t)'
  <2> SUFFICES ASSUME NEW t \in Tasks, Running(t) PROVE AtWork(t)'
    BY <1>5 DEF AtWork
  <2> DEFINE h == HostOfTask(t)
  <2>1. AtWork(t) /\ h \in Hosts /\ HostOfTask(t)' = h
    BY <1>2, <1>5, TaskHost DEF CrawlerInv
  <2>2. task[t].stage \in {"start", "pause", "done"} => Requesting(h) = {}
    BY DEF Requesting, Running, CrawlerInv, OneTaskPerHost
  <2>3. task[t].stage = "start" => quiet'[h] >= DefaultDelay
    BY <2>1, <2>2, <1>10 DEF AtWork
  <2>4. task[t].stage = "pause" => task'[t].nap + quiet'[h] >= DefaultDelay
    <3> SUFFICES ASSUME task[t].stage = "pause"
                 PROVE  task'[t].nap + quiet'[h] >= DefaultDelay
      OBVIOUS
    <3> DEFINE n == task[t].nap
    <3>1. n + quiet[h] >= DefaultDelay
      BY <2>1 DEF AtWork
    <3>2. /\ n \in Nat /\ Cooled(n) \in Nat /\ n <= Cooled(n) + 1
          /\ task'[t].nap = Cooled(n)
      BY <1>3, <1>4
    <3>3. /\ quiet[h] \in Nat /\ quiet'[h] \in Nat
          /\ quiet'[h] = quiet[h] + 1 \/ quiet'[h] >= DefaultDelay
      BY <2>1, <2>2, <1>10
    <3> HIDE DEF n, h
    <3> QED
      BY <3>1, <3>2, <3>3, <1>2
  <2>5. task[t].stage = "done" /\ Skipped(t) => quiet'[h] >= DefaultDelay
    BY <2>1, <2>2, <1>10 DEF AtWork
  <2> HIDE DEF h
  <2> QED
    BY <2>1, <2>3, <2>4, <2>5, <1>1, <1>4, <1>5 DEF AtWork, h
<1>13. \A h \in Hosts : Held(h)'
  BY <1>1, <1>5 DEF CrawlerInv, Held
<1> QED
  BY <1>6, <1>7, <1>8, <1>9, <1>11, <1>12, <1>13 DEF CrawlerInv

-----------------------------------------------------------------------------
(* The crawl *)

\* The crawler starts in its invariant.
LEMMA CrawlerInitInv ==
  FrontierAssumption /\ CrawlerAssumption /\ Init => CrawlerInv
<1> SUFFICES ASSUME FrontierAssumption, CrawlerAssumption, Init PROVE CrawlerInv
  OBVIOUS
<1>1. FrontierTypeOK /\ Books /\ DelayAtLeastDefault
  BY FrontierInitInv DEF Init, FrontierInv
<1>2. /\ \A t \in Tasks : task[t] = Idle /\ ~Running(t)
      /\ \A h \in Hosts : ~inFlight[h] /\ readyIn[h] = 0 /\ asked[h] = 0
      /\ \A h \in Hosts : quiet[h] = Horizon
  BY DEF Init, FrontierInit, Running, Idle
<1>3. TypeOK
  BY <1>1, <1>2, IdleTyped DEF Init, TypeOK, CrawlerAssumption, Running
<1>4. \A h \in Hosts : AtRest(h)
  BY <1>2 DEF AtRest, CrawlerAssumption, FrontierAssumption
<1>5. OneTaskPerHost /\ \A t \in Tasks : AtWork(t)
  BY <1>2 DEF OneTaskPerHost, AtWork
<1>6. RobotsAskedOnce /\ Unfinished /\ EndIsJustified
  BY <1>2 DEF Init, RobotsAskedOnce, Unfinished, EndIsJustified
<1>7. \A h \in Hosts : Held(h)
  BY <1>2 DEF Held
<1> QED
  BY <1>1, <1>3, <1>4, <1>5, <1>6, <1>7 DEF CrawlerInv

\* The invariant speaks of the variables only.
LEMMA CrawlerStutter ==
  ASSUME CrawlerInv, UNCHANGED vars PROVE CrawlerInv'
<1>1. /\ UNCHANGED <<frontierVars, stored, task, robots, histories>>
      /\ phase' = phase /\ napping' = napping
  BY DEF vars, loopVars
<1>2. /\ queue' = queue /\ blocked' = blocked /\ seen' = seen
      /\ queued' = queued /\ handed' = handed /\ delay' = delay
      /\ inFlight' = inFlight /\ readyIn' = readyIn /\ fetched' = fetched
      /\ stored' = stored /\ task' = task /\ robots' = robots
      /\ quiet' = quiet /\ asked' = asked /\ paged' = paged
  BY <1>1 DEF frontierVars, histories
<1>3. Books'
  BY <1>2, BooksUnchanged DEF CrawlerInv
<1>4. TypeOK'
  BY <1>1, <1>2 DEF CrawlerInv, TypeOK, FrontierTypeOK
<1>5. /\ DelayAtLeastDefault' /\ RobotsAskedOnce' /\ Unfinished'
      /\ EndIsJustified' /\ OneTaskPerHost'
  BY <1>1, <1>2
     DEF CrawlerInv, DelayAtLeastDefault, RobotsAskedOnce, Unfinished,
         EndIsJustified, OneTaskPerHost, Running, HostOfTask
<1>6. \A h \in Hosts : AtRest(h)'
  BY <1>2 DEF CrawlerInv, AtRest
<1>7. \A t \in Tasks : AtWork(t)'
  BY <1>2 DEF CrawlerInv, AtWork, Running, HostOfTask, Skipped
<1>8. \A h \in Hosts : Held(h)'
  BY <1>1, <1>2 DEF CrawlerInv, Held, Running, HostOfTask
<1> QED
  BY <1>3, <1>4, <1>5, <1>6, <1>7, <1>8 DEF CrawlerInv

\* Every step of the crawler keeps the inductive invariant.
LEMMA CrawlerNextInv ==
  FrontierAssumption /\ CrawlerAssumption /\ CrawlerInv /\ [Next]_vars
    => CrawlerInv'
<1> SUFFICES ASSUME FrontierAssumption, CrawlerAssumption, CrawlerInv, [Next]_vars
             PROVE  CrawlerInv'
  OBVIOUS
<1>1. CASE PushSeeds
  BY <1>1, PushSeedsKeeps
<1>2. ASSUME NEW t \in Tasks, NEW h \in Hosts, Dispatch(t, h) PROVE CrawlerInv'
  BY <1>2, DispatchKeeps
<1>3. CASE AwaitTask
  BY <1>3, AwaitTaskKeeps
<1>4. CASE Sleep
  BY <1>4, SleepKeeps
<1>5. CASE Wake
  BY <1>5, WakeKeeps
<1>6. CASE Exhausted
  BY <1>6, ExhaustedKeeps
<1>7. ASSUME NEW t \in Tasks, Join(t) PROVE CrawlerInv'
  <2>1. CASE AbsorbRedirect(t)
    BY <2>1, AbsorbRedirectKeeps
  <2>2. CASE AbsorbPage(t)
    BY <2>2, AbsorbPageKeeps
  <2>3. CASE StoreFails(t)
    BY <2>3, StoreFailsKeeps
  <2>4. CASE AbsorbPathDisallowed(t)
    BY <2>4, AbsorbNothing DEF AbsorbPathDisallowed, Completed
  <2>5. CASE AbsorbHostDisallowed(t)
    BY <2>5, AbsorbHostDisallowedKeeps
  <2>6. CASE AbsorbError(t)
    BY <2>6, AbsorbNothing DEF AbsorbError, Completed
  <2>7. CASE JoinPanicked(t)
    BY <2>7, JoinPanickedKeeps
  <2> QED
    BY <1>7, <2>1, <2>2, <2>3, <2>4, <2>5, <2>6, <2>7 DEF Join
<1>8. ASSUME NEW t \in Tasks, Visit(t) PROVE CrawlerInv'
  BY <1>8, UseKnownRobotsKeeps, AskRobotsKeeps, RobotsAnswerKeeps,
     ProceedKeeps, PageAnswerKeeps DEF Visit
<1>9. ASSUME NEW t \in Tasks, Panic(t) PROVE CrawlerInv'
  BY <1>9, PanicKeeps
<1>10. CASE TimePasses
  BY <1>10, TimePassesKeeps
<1>11. CASE UNCHANGED vars
  BY <1>11, CrawlerStutter
<1> QED
  BY <1>1, <1>2, <1>3, <1>4, <1>5, <1>6, <1>7, <1>8, <1>9, <1>10, <1>11
     DEF Next, Loop, Over

\* The crawl keeps its inductive invariant, whatever the sites answer.
THEOREM CrawlerInvariant == Spec => []CrawlerInv
BY CrawlerInitInv, CrawlerNextInv, FrontierAssumption, CrawlerAssumption, PTL
   DEF Spec

\* The variables of the crawl keep their types.
THEOREM CrawlerTypes == Spec => []TypeOK
<1>1. CrawlerInv => TypeOK
  BY DEF CrawlerInv
<1> QED
  BY <1>1, CrawlerInvariant, PTL

\* Concurrency is across hosts and never within one, for any number of tasks.
THEOREM OneTaskHasAHost == Spec => []OneTaskPerHost
<1>1. CrawlerInv => OneTaskPerHost
  BY DEF CrawlerInv
<1> QED
  BY <1>1, CrawlerInvariant, PTL

\* robots.txt is never fetched twice, even when tasks panic half way.
THEOREM RobotsIsAskedOnce == Spec => []RobotsAskedOnce
<1>1. CrawlerInv => RobotsAskedOnce
  BY DEF CrawlerInv
<1> QED
  BY <1>1, CrawlerInvariant, PTL

\* No page is requested without its host's permission.
THEOREM RobotsIsObeyed == Spec => []RobotsObeyed
<1>1. CrawlerInv => RobotsObeyed
  <2> SUFFICES ASSUME CrawlerInv, NEW t \in Tasks, task[t].stage = "page"
               PROVE  LET r == robots[HostOfTask(t)]
                      IN  /\ r # None
                          /\ r.status \notin {"denied", "unavailable"}
                          /\ r.status = "body" => task[t].url \in r.allowed
    BY DEF RobotsObeyed
  <2>1. /\ robots[HostOfTask(t)] # None
        /\ Allows(robots[HostOfTask(t)], task[t].url)
    BY DEF CrawlerInv, AtWork, Running
  <2> QED
    BY <2>1 DEF Allows
<1> QED
  BY <1>1, CrawlerInvariant, PTL

\* A host that is off limits is left alone: no queue, no task.
THEOREM BlockedHostIsSilent == Spec => []BlockedIsSilent
<1>1. CrawlerInv => BlockedIsSilent
  BY DEF CrawlerInv, Books, BlockedIsEmpty, AtWork, BlockedIsSilent
<1> QED
  BY <1>1, CrawlerInvariant, PTL

\* No URL is queued or visited twice in a crawl.
THEOREM NothingIsVisitedTwice == Spec => []Unrepeated
<1>1. CrawlerInv => Unrepeated
  BY DEF CrawlerInv, Books
<1> QED
  BY <1>1, CrawlerInvariant, PTL

\* A crawl that ends has its pages, or has nothing left that it could visit.
THEOREM TheEndIsJustified == Spec => []EndIsJustified
<1>1. CrawlerInv => EndIsJustified
  BY DEF CrawlerInv
<1> QED
  BY <1>1, CrawlerInvariant, PTL

\* Where no task panics, a host is held exactly while a task has it.
THEOREM HeldHostIsVisited == Spec => []HeldMeansVisited
<1>1. CrawlerInv => HeldMeansVisited
  <2> SUFFICES ASSUME CrawlerInv, phase \notin {"done", "failed"},
                      NEW h \in Hosts \ Brittle
               PROVE  inFlight[h] <=> \E t \in Tasks : Running(t) /\ HostOfTask(t) = h
    BY DEF HeldMeansVisited
  <2> QED
    BY DEF CrawlerInv, Held, AtWork
<1> QED
  BY <1>1, CrawlerInvariant, PTL

\* A task that starts a request has a host at rest: it is at the start of its
\* visit, or its pause is over.
LEMMA RequestsStartAtRest ==
  ASSUME FrontierAssumption, CrawlerAssumption, CrawlerInv,
         NEW t \in Tasks, task[t].stage \in {"start", "pause"},
         task[t].stage = "pause" => task[t].nap = 0
  PROVE  quiet[HostOfTask(t)] >= DefaultDelay
<1>1. Running(t) /\ AtWork(t) /\ TypeOK
  BY DEF Running, CrawlerInv
<1>2. HostOfTask(t) \in Hosts
  BY <1>1, TaskHost
<1>3. quiet[HostOfTask(t)] \in Nat
  BY <1>1, <1>2 DEF TypeOK, CrawlerAssumption
<1> QED
  BY <1>1, <1>3 DEF AtWork

\* Only a task's own step starts a request.
LEMMA RequestsAreStarted ==
  ASSUME FrontierAssumption, CrawlerAssumption, CrawlerInv, [Next]_vars,
         NEW t \in Tasks, task'[t].stage \in {"robots", "page"}
  PROVE  \/ task'[t].stage = task[t].stage /\ task'[t].url = task[t].url
         \/ /\ task'[t].url = task[t].url
            /\ task[t].stage \in {"start", "pause"}
            /\ task[t].stage = "pause" => task[t].nap = 0
<1> DEFINE Same == task'[t].stage = task[t].stage /\ task'[t].url = task[t].url
           Starts == /\ task'[t].url = task[t].url
                     /\ task[t].stage \in {"start", "pause"}
                     /\ task[t].stage = "pause" => task[t].nap = 0
<1> SUFFICES Same \/ Starts
  OBVIOUS
<1>1. /\ task \in [Tasks -> TaskState] /\ Idle.stage = "idle"
      /\ task[t] \in TaskState
  BY DEF CrawlerInv, TypeOK, Idle
<1>2. CASE UNCHANGED task
  BY <1>2
<1>3. ASSUME NEW s \in Tasks, NEW h \in Hosts, Dispatch(s, h) PROVE Same
  <2>1. s # t
    BY <1>1, <1>3 DEF Dispatch
  <2> QED
    BY <2>1, <1>1, <1>3 DEF Dispatch
<1>4. ASSUME NEW s \in Tasks, Resume(s) \/ task' = [r \in Tasks |-> Idle]
      PROVE  Same
  <2>1. task'[t] = Idle \/ task'[t] = task[t]
    BY <1>1, <1>4 DEF Resume
  <2> QED
    BY <2>1, <1>1
<1>5. ASSUME NEW s \in Tasks, Join(s) PROVE Same
  BY <1>4, <1>5
     DEF Join, AbsorbRedirect, AbsorbPage, StoreFails, AbsorbPathDisallowed,
         AbsorbHostDisallowed, AbsorbError, JoinPanicked
<1>6. ASSUME NEW s \in Tasks, UseKnownRobots(s) \/ Proceed(s) PROVE Same \/ Starts
  <2>1. /\ task[s].stage \in {"start", "pause"}
        /\ task[s].stage = "pause" => task[s].nap = 0
        /\ \E r : Decide(s, r)
    BY <1>6 DEF UseKnownRobots, Proceed
  <2>2. CASE s # t
    BY <2>1, <2>2, <1>1 DEF Decide
  <2>3. CASE s = t
    BY <2>1, <2>3, <1>1 DEF Decide, TaskState
  <2> QED
    BY <2>2, <2>3
<1>7. ASSUME NEW s \in Tasks, AskRobots(s) PROVE Same \/ Starts
  BY <1>1, <1>7 DEF AskRobots, TaskState
<1>8. ASSUME NEW s \in Tasks, RobotsAnswer(s) PROVE Same
  BY <1>1, <1>8 DEF RobotsAnswer, TaskState
<1>9. ASSUME NEW s \in Tasks, PageAnswer(s) PROVE Same
  BY <1>1, <1>9 DEF PageAnswer, TaskState
<1>10. ASSUME NEW s \in Tasks, Panic(s) PROVE Same
  BY <1>1, <1>10, IdleTyped DEF Panic, TaskState
<1>11. CASE TimePasses
  BY <1>1, <1>11 DEF TimePasses, TaskState
<1>12. PushSeeds \/ AwaitTask \/ Sleep \/ Wake \/ Exhausted \/ UNCHANGED vars
         => UNCHANGED task
  BY DEF PushSeeds, AwaitTask, Sleep, Wake, Exhausted, vars
<1> QED
  BY <1>2, <1>3, <1>5, <1>6, <1>7, <1>8, <1>9, <1>10, <1>11, <1>12
     DEF Next, Loop, Visit, Over

\* A step from the invariant that makes a request finds the host rested: only a
\* task at its start or its pause makes one, and both know how long it rested.
LEMMA RequestsAreSpaced ==
  FrontierAssumption /\ CrawlerAssumption /\ CrawlerInv /\ [Next]_vars
    => [\A h \in Hosts : Requests(h) => quiet[h] >= DefaultDelay]_vars
<1> SUFFICES ASSUME FrontierAssumption, CrawlerAssumption, CrawlerInv, [Next]_vars,
                    NEW h \in Hosts, Requests(h)
             PROVE  quiet[h] >= DefaultDelay
  OBVIOUS
<1>1. PICK t \in Tasks : /\ task'[t].stage \in {"robots", "page"}
                         /\ HostOf[task'[t].url] = h
  BY DEF Requests, Requesting, HostOfTask
<1>2. ~(task[t].stage \in {"robots", "page"} /\ HostOfTask(t) = h)
  BY DEF Requests, Requesting
<1>3. /\ task'[t].url = task[t].url
      /\ task[t].stage \in {"start", "pause"}
      /\ task[t].stage = "pause" => task[t].nap = 0
  BY <1>1, <1>2, RequestsAreStarted DEF HostOfTask
<1> QED
  BY <1>1, <1>3, RequestsStartAtRest DEF HostOfTask

\* Politeness, for any web, any answers, any number of tasks and any delay: the
\* configured delay passes between a host's last answer and its next request.
THEOREM TheCrawlIsPolite == Spec => Polite
<1>1. Spec => []CrawlerInv
  BY CrawlerInvariant
<1> QED
  BY <1>1, RequestsAreSpaced, FrontierAssumption, CrawlerAssumption, PTL
     DEF Spec, Polite

-----------------------------------------------------------------------------
(* The Crawl-delay *)

\* What is declared is a number, and no longer than the histories count.
LEMMA DeclaredTyped ==
  ASSUME FrontierAssumption, CrawlerAssumption, TypeOK, NEW h \in Hosts
  PROVE  Declared(h) \in Nat /\ Declared(h) <= Horizon
<1>1. robots[h] = None \/ robots[h] \in Robots
  BY DEF TypeOK
<1>2. ASSUME NEW r \in Robots PROVE CrawlDelay(r) \in Nat /\ CrawlDelay(r) <= Horizon
  BY DEF CrawlDelay, Robots, FrontierAssumption, CrawlerAssumption
<1> QED
  BY <1>1, <1>2 DEF Declared, CrawlerAssumption

\* A task's step settles what it settled before when it does right by its own
\* visit and leaves the frontier and the other hosts alone.
LEMMA VisitSettles ==
  ASSUME FrontierAssumption, SettleInv,
         NEW t \in Tasks, Running(t),
         UNCHANGED frontierVars,
         task'[t].url = task[t].url,
         \A s \in Tasks : s # t => task'[s] = task[s],
         \A h \in Hosts : h # HostOfTask(t) =>
           quiet'[h] = quiet[h] /\ robots'[h] = robots[h] /\ paged'[h] = paged[h],
         robots'[HostOfTask(t)] # None \/ paged'[HostOfTask(t)] = 0,
         SettledAtWork(t)'
  PROVE  Settled'
<1> DEFINE h == HostOfTask(t)
<1>1. delay' = delay /\ inFlight' = inFlight /\ readyIn' = readyIn
  BY DEF frontierVars
<1>2. h \in Hosts /\ inFlight[h]
  BY TaskHost DEF SettleInv, CrawlerInv, AtWork
<1>3. ASSUME NEW g \in Hosts PROVE SettledAtRest(g)'
  <2>1. CASE g = h
    BY <2>1, <1>1, <1>2 DEF SettledAtRest
  <2>2. CASE g # h
    BY <2>2, <1>1 DEF SettleInv, Settled, SettledAtRest, Declared
  <2> QED
    BY <2>1, <2>2
<1>4. ASSUME NEW s \in Tasks, s # t PROVE SettledAtWork(s)'
  <2> SUFFICES ASSUME Running(s)' PROVE SettledAtWork(s)'
    BY DEF SettledAtWork
  <2>1. /\ task'[s] = task[s] /\ Running(s) /\ HostOfTask(s)' = HostOfTask(s)
        /\ Skipped(s)' = Skipped(s)
    BY <1>4 DEF Running, HostOfTask, Skipped
  <2>2. HostOfTask(s) # h /\ HostOfTask(s) \in Hosts
    BY <2>1, <1>4, TaskHost DEF SettleInv, CrawlerInv, OneTaskPerHost
  <2>3. SettledAtWork(s)
    BY DEF SettleInv, Settled
  <2> QED
    BY <2>1, <2>2, <2>3, <1>1 DEF SettledAtWork, RestedAsDeclared, Declared
<1> QED
  BY <1>3, <1>4 DEF Settled

\* The rules decide: the page is requested, or the host keeps its rest.
LEMMA DecideSettles ==
  ASSUME FrontierAssumption, CrawlerAssumption, SettleInv,
         NEW t \in Tasks, task[t].stage \in {"start", "pause"},
         NEW r \in Robots, robots[HostOfTask(t)] = r,
         Decide(t, r),
         UNCHANGED <<frontierVars, loopVars, robots, asked>>
  PROVE  Settled'
<1> DEFINE h == HostOfTask(t)
<1>1. Running(t) /\ TypeOK /\ SettledAtWork(t) /\ r # None
  BY DEF Running, SettleInv, Settled, CrawlerInv, CrawlerAssumption
<1>2. h \in Hosts /\ task[t] \in TaskState /\ paged[h] \in 0..2
  BY <1>1, TaskHost DEF TypeOK
<1>3. /\ task[t].made => paged[h] = 0
      /\ ~task[t].made => delay[h] >= Declared(h)
      /\ ~task[t].made => task[t].stage = "start" /\ RestedAsDeclared(h)
  BY <1>1 DEF SettledAtWork
<1>4. delay' = delay /\ robots' = robots
  BY DEF frontierVars
<1>5. CASE Allows(r, task[t].url)
  <2>1. /\ task' = [task EXCEPT ![t].stage = "page", ![t].rules = r]
        /\ quiet' = [quiet EXCEPT ![h] = 0]
        /\ paged' = [paged EXCEPT ![h] = IF @ < 2 THEN @ + 1 ELSE 2]
    BY <1>5 DEF Decide
  <2>2. /\ task'[t] = [task[t] EXCEPT !.stage = "page", !.rules = r]
        /\ \A s \in Tasks : s # t => task'[s] = task[s]
    BY <1>1, <2>1 DEF TypeOK
  <2>3. /\ task'[t].stage = "page" /\ task'[t].url = task[t].url
        /\ task'[t].made = task[t].made
    BY <1>2, <2>2 DEF TaskState
  <2>4. /\ paged'[h] = IF paged[h] < 2 THEN paged[h] + 1 ELSE 2
        /\ \A g \in Hosts : g # h => quiet'[g] = quiet[g] /\ paged'[g] = paged[g]
    BY <1>1, <1>2, <2>1 DEF TypeOK
  <2>5. HostOfTask(t)' = h
    BY <2>3 DEF HostOfTask
  <2>6. task[t].made => paged'[h] <= 1
    BY <1>2, <1>3, <2>4
  <2>7. SettledAtWork(t)'
    BY <1>3, <1>4, <2>3, <2>5, <2>6 DEF SettledAtWork, Declared
  <2> QED
    BY <1>1, <1>4, <2>2, <2>3, <2>4, <2>7, VisitSettles
<1>6. CASE ~Allows(r, task[t].url)
  <2> DEFINE o == Disallowed(IF AllowsRoot(r) THEN "path" ELSE "host")
  <2>1. /\ task' = [task EXCEPT ![t].stage = "done", ![t].rules = r, ![t].outcome = o]
        /\ quiet' = quiet /\ paged' = paged
    BY <1>6 DEF Decide
  <2> HIDE DEF o
  <2>2. /\ task'[t] = [task[t] EXCEPT !.stage = "done", !.rules = r, !.outcome = o]
        /\ \A s \in Tasks : s # t => task'[s] = task[s]
    BY <1>1, <2>1 DEF TypeOK
  <2>3. /\ task'[t].stage = "done" /\ task'[t].url = task[t].url
        /\ task'[t].made = task[t].made
    BY <1>2, <2>2 DEF TaskState
  <2>4. HostOfTask(t)' = h /\ (Skipped(t)' => ~task[t].made)
    BY <2>3 DEF HostOfTask, Skipped
  <2>5. SettledAtWork(t)'
    BY <1>2, <1>3, <1>4, <2>1, <2>3, <2>4
       DEF SettledAtWork, Declared, RestedAsDeclared
  <2> QED
    BY <1>1, <1>4, <2>1, <2>2, <2>3, <2>5, VisitSettles
<1> QED
  BY <1>5, <1>6

\* Every step of a visit settles what it settled before.
LEMMA VisitStepsSettle ==
  ASSUME FrontierAssumption, CrawlerAssumption, SettleInv,
         NEW t \in Tasks, Visit(t) \/ Panic(t)
  PROVE  Settled'
<1> DEFINE h == HostOfTask(t)
<1>1. task[t].stage \in {"start", "robots", "pause", "page"}
  BY DEF Visit, Panic, UseKnownRobots, AskRobots, RobotsAnswer, Proceed, PageAnswer
<1>2. /\ Running(t) /\ TypeOK /\ AtWork(t) /\ SettledAtWork(t)
      /\ task \in [Tasks -> TaskState]
  BY <1>1 DEF Running, SettleInv, Settled, CrawlerInv, TypeOK
<1>3. h \in Hosts /\ task[t] \in TaskState
  BY <1>2, TaskHost
<1>4. CASE UseKnownRobots(t)
  <2>1. robots[h] \in Robots
    BY <1>2, <1>3, <1>4 DEF UseKnownRobots, TypeOK
  <2> QED
    BY <2>1, <1>4, DecideSettles DEF UseKnownRobots
<1>5. CASE Proceed(t)
  <2>1. robots[h] \in Robots /\ task[t].rules = robots[h]
    BY <1>2, <1>3, <1>5 DEF Proceed, AtWork, TypeOK
  <2> QED
    BY <2>1, <1>5, DecideSettles DEF Proceed
<1>6. CASE AskRobots(t)
  <2>1. /\ task'[t] = [task[t] EXCEPT !.stage = "robots"]
        /\ \A s \in Tasks : s # t => task'[s] = task[s]
        /\ task[t].stage = "start" /\ robots[h] = None
        /\ quiet' = [quiet EXCEPT ![h] = 0]
        /\ UNCHANGED <<frontierVars, robots, paged>>
    BY <1>2, <1>6 DEF AskRobots
  <2>2. /\ task'[t].stage = "robots" /\ task'[t].url = task[t].url
        /\ task'[t].made = task[t].made
    BY <1>3, <2>1 DEF TaskState
  <2>3. HostOfTask(t)' = h /\ delay' = delay
    BY <2>1, <2>2 DEF HostOfTask, frontierVars
  <2>4. SettledAtWork(t)'
    BY <1>2, <2>1, <2>2, <2>3 DEF SettledAtWork, Declared
  <2>5. paged[h] = 0
    BY <1>3, <2>1 DEF SettleInv, Settled, SettledAtRest
  <2>6. \A g \in Hosts : g # h => quiet'[g] = quiet[g]
    BY <1>2, <2>1 DEF TypeOK
  <2> QED
    BY <1>2, <2>1, <2>2, <2>4, <2>5, <2>6, VisitSettles
<1>7. CASE RobotsAnswer(t)
  <2>1. PICK r \in RobotsOf[h] :
          /\ task' = [task EXCEPT ![t].stage = "pause", ![t].rules = r,
                                  ![t].made = TRUE, ![t].nap = DefaultDelay]
          /\ robots' = [robots EXCEPT ![h] = IF @ = None THEN r ELSE @]
    BY <1>7 DEF RobotsAnswer
  <2>2. /\ task'[t] = [task[t] EXCEPT !.stage = "pause", !.rules = r,
                                      !.made = TRUE, !.nap = DefaultDelay]
        /\ \A s \in Tasks : s # t => task'[s] = task[s]
        /\ \A g \in Hosts : g # h => robots'[g] = robots[g]
    BY <1>2, <2>1 DEF TypeOK
  <2>3. /\ task'[t].stage = "pause" /\ task'[t].url = task[t].url /\ task'[t].made
    BY <1>3, <2>2 DEF TaskState
  <2>4. HostOfTask(t)' = h /\ UNCHANGED <<frontierVars, quiet, paged>>
    BY <1>7, <2>3 DEF HostOfTask, RobotsAnswer, histories
  <2>5. robots[h] = None /\ paged[h] = 0
    BY <1>2, <1>3, <1>7
       DEF RobotsAnswer, AtWork, SettleInv, Settled, SettledAtRest
  <2>6. SettledAtWork(t)'
    BY <2>3, <2>4, <2>5 DEF SettledAtWork
  <2> QED
    BY <1>2, <2>2, <2>3, <2>4, <2>5, <2>6, VisitSettles
<1>8. CASE PageAnswer(t)
  <2>1. PICK a \in Web[task[t].url] :
          task' = [task EXCEPT ![t].stage = "done", ![t].outcome = a]
    BY <1>8 DEF PageAnswer
  <2>2. a.kind \notin {"path", "host"}
    BY <1>2 DEF CrawlerAssumption, Answer, TypeOK, Running
  <2>3. /\ task'[t] = [task[t] EXCEPT !.stage = "done", !.outcome = a]
        /\ \A s \in Tasks : s # t => task'[s] = task[s]
        /\ task[t].stage = "page"
    BY <1>2, <1>8, <2>1 DEF PageAnswer
  <2>4. /\ task'[t].stage = "done" /\ task'[t].url = task[t].url
        /\ task'[t].made = task[t].made /\ task'[t].outcome = a
    BY <1>3, <2>3 DEF TaskState
  <2>5. /\ HostOfTask(t)' = h /\ ~Skipped(t)'
        /\ UNCHANGED <<frontierVars, robots, quiet, paged>> /\ delay' = delay
    BY <1>8, <2>2, <2>4 DEF HostOfTask, Skipped, PageAnswer, histories, frontierVars
  <2>6. SettledAtWork(t)'
    BY <1>2, <2>3, <2>4, <2>5 DEF SettledAtWork, Declared
  <2>7. robots[h] # None
    BY <1>2, <2>3 DEF AtWork
  <2> QED
    BY <1>2, <2>3, <2>4, <2>5, <2>6, <2>7, VisitSettles
<1>9. CASE Panic(t)
  <2>1. /\ task' = [task EXCEPT ![t] = [Idle EXCEPT !.stage = "panicked",
                                          !.url = task[t].url]]
        /\ UNCHANGED <<frontierVars, robots, quiet, paged>>
    BY <1>9 DEF Panic, histories
  <2>2. /\ task'[t] = [Idle EXCEPT !.stage = "panicked", !.url = task[t].url]
        /\ \A s \in Tasks : s # t => task'[s] = task[s]
    BY <1>2, <2>1
  <2>3. task'[t].stage = "panicked" /\ task'[t].url = task[t].url
    BY <2>2 DEF Idle
  <2>4. SettledAtWork(t)'
    BY <2>3 DEF SettledAtWork
  <2>5. robots[h] # None \/ paged[h] = 0
    BY <1>3 DEF SettleInv, Settled, SettledAtRest
  <2> QED
    BY <1>2, <2>1, <2>2, <2>3, <2>4, <2>5, VisitSettles
<1> QED
  BY <1>4, <1>5, <1>6, <1>7, <1>8, <1>9 DEF Visit

\* A result taken in settles its host: the Crawl-delay is applied now or was
\* applied before, and a host that was asked for nothing keeps its rest.
LEMMA AbsorbSettles ==
  ASSUME FrontierAssumption, CrawlerAssumption, SettleInv,
         NEW t \in Tasks, task[t].stage = "done", Release(t),
         (phase' = "failed" /\ task' = [s \in Tasks |-> Idle]) \/ Resume(t),
         UNCHANGED <<robots, histories>>
  PROVE  Settled'
<1>1. /\ Running(t) /\ TypeOK /\ FrontierTypeOK /\ AtWork(t) /\ SettledAtWork(t)
  BY DEF Running, SettleInv, Settled, CrawlerInv, TypeOK
<1>2. PICK h \in Hosts : h = HostOfTask(t)
  BY <1>1, TaskHost
<1>3. quiet' = quiet /\ paged' = paged /\ robots' = robots
  BY DEF histories
<1>4. /\ task[t].rules = robots[h] /\ robots[h] # None
      /\ task[t].made => paged[h] <= 1
      /\ ~task[t].made => delay[h] >= Declared(h)
      /\ Skipped(t) => RestedAsDeclared(h)
  BY <1>1, <1>2 DEF AtWork, SettledAtWork
<1>5. /\ delay[h] \in Nat /\ readyIn[h] \in Nat /\ quiet[h] \in Nat
      /\ Declared(h) \in Nat /\ paged[h] \in 0..2
  <2>1. delay[h] \in Nat /\ readyIn[h] \in Nat
    BY <1>1 DEF FrontierTypeOK
  <2>2. quiet[h] \in Nat /\ paged[h] \in 0..2
    BY <1>1, <2>1 DEF TypeOK, CrawlerAssumption
  <2>3. Declared(h) \in Nat
    BY <1>1, DeclaredTyped
  <2> QED BY <2>1, <2>2, <2>3
<1>6. CrawlDelay(task[t].rules) = Declared(h)
  BY <1>4 DEF Declared
<1>7. /\ delay'[h] >= Declared(h)
      /\ ~task[t].made => delay' = delay
      /\ \A g \in Hosts : g # h => delay'[g] = delay[g]
  <2>1. CASE task[t].made
    <3>1. delay' = [delay EXCEPT ![h] = IF Declared(h) > @ THEN Declared(h) ELSE @]
      BY <2>1, <1>2, <1>6 DEF Release, SetHostDelay
    <3> QED
      BY <2>1, <3>1, <1>1, <1>5 DEF FrontierTypeOK
  <2>2. CASE ~task[t].made
    BY <2>2, <1>2, <1>4 DEF Release
  <2> QED
    BY <2>1, <2>2
<1>8. /\ Skipped(t) => readyIn' = readyIn
      /\ ~Skipped(t) => readyIn'[h] = delay[h]
      /\ \A g \in Hosts : g # h =>
           readyIn'[g] = readyIn[g] /\ inFlight'[g] = inFlight[g]
  BY <1>1, <1>2 DEF Release, NoteSkipped, NoteFetched, FrontierTypeOK
<1>9. paged[h] = 2 => readyIn'[h] + quiet[h] >= Declared(h)
  <2>1. CASE Skipped(t)
    BY <2>1, <1>4, <1>5, <1>8 DEF RestedAsDeclared
  <2>2. CASE ~Skipped(t)
    BY <2>2, <1>4, <1>5, <1>8
  <2> QED
    BY <2>1, <2>2
<1>10. \A g \in Hosts : Declared(g)' = Declared(g)
  BY <1>3 DEF Declared
<1>11. ASSUME NEW g \in Hosts PROVE SettledAtRest(g)'
  <2>1. CASE g = h
    BY <2>1, <1>3, <1>4, <1>7, <1>9, <1>10 DEF SettledAtRest
  <2>2. CASE g # h
    BY <2>2, <1>3, <1>7, <1>8, <1>10 DEF SettleInv, Settled, SettledAtRest
  <2> QED
    BY <2>1, <2>2
<1>12. ASSUME NEW s \in Tasks PROVE SettledAtWork(s)'
  <2> SUFFICES ASSUME Running(s)' PROVE SettledAtWork(s)'
    BY DEF SettledAtWork
  <2>1. s # t /\ task'[s] = task[s]
    BY <1>1 DEF Resume, Running, Idle, TypeOK
  <2>2. /\ Running(s) /\ HostOfTask(s)' = HostOfTask(s)
        /\ Skipped(s)' = Skipped(s)
    BY <2>1 DEF Running, HostOfTask, Skipped
  <2>3. HostOfTask(s) # h /\ HostOfTask(s) \in Hosts
    BY <2>1, <2>2, <1>1, <1>2, TaskHost DEF SettleInv, CrawlerInv, OneTaskPerHost
  <2>4. SettledAtWork(s)
    BY DEF SettleInv, Settled
  <2> QED
    BY <2>1, <2>2, <2>3, <2>4, <1>3, <1>7, <1>10
       DEF SettledAtWork, RestedAsDeclared
<1> QED
  BY <1>11, <1>12 DEF Settled

\* The host a task is given has settled, and the task starts from its rest.
LEMMA DispatchSettles ==
  ASSUME FrontierAssumption, CrawlerAssumption, SettleInv,
         NEW t \in Tasks, NEW h \in Hosts, Dispatch(t, h)
  PROVE  Settled'
<1> DEFINE new == [Idle EXCEPT !.stage = "start", !.url = Head(queue[h]).url,
                               !.depth = Head(queue[h]).depth]
<1>1. /\ ~Running(t) /\ Take(h)
      /\ task' = [task EXCEPT ![t] = new]
      /\ robots' = robots /\ quiet' = quiet /\ paged' = paged
  BY DEF Dispatch, histories
<1>2. TypeOK /\ FrontierTypeOK /\ Books
  BY DEF SettleInv, CrawlerInv, TypeOK
<1>3. /\ ~inFlight[h] /\ readyIn[h] = 0
      /\ inFlight' = [inFlight EXCEPT ![h] = TRUE]
      /\ readyIn' = readyIn /\ delay' = delay
  BY <1>1 DEF Take, Ready, Eligible
<1>4. HostOf[Head(queue[h]).url] = h
  BY <1>1, <1>2, TakeKeepsBooks
<1>5. /\ new.stage = "start" /\ new.url = Head(queue[h]).url /\ ~new.made
  BY DEF Idle
<1> HIDE DEF new
<1>6. task'[t] = new /\ \A s \in Tasks : s # t => task'[s] = task[s]
  BY <1>1, <1>2 DEF TypeOK
<1>7. \A g \in Hosts : Declared(g)' = Declared(g)
  BY <1>1 DEF Declared
<1>8. ASSUME NEW g \in Hosts PROVE SettledAtRest(g)'
  <2>1. SettledAtRest(g) /\ (inFlight[g] => inFlight'[g])
    BY <1>2, <1>3 DEF SettleInv, Settled, FrontierTypeOK
  <2> QED
    BY <2>1, <1>1, <1>3, <1>7 DEF SettledAtRest
<1>9. SettledAtWork(t)'
  <2>1. delay[h] >= Declared(h) /\ (paged[h] = 2 => readyIn[h] + quiet[h] >= Declared(h))
    BY <1>3 DEF SettleInv, Settled, SettledAtRest
  <2>2. quiet[h] \in Nat
    BY <1>2 DEF TypeOK, CrawlerAssumption
  <2>3. RestedAsDeclared(h)
    BY <2>1, <2>2, <1>3 DEF RestedAsDeclared
  <2>4. HostOfTask(t)' = h
    BY <1>4, <1>5, <1>6 DEF HostOfTask
  <2> QED
    BY <2>1, <2>3, <2>4, <1>1, <1>3, <1>5, <1>6, <1>7
       DEF SettledAtWork, RestedAsDeclared
<1>10. ASSUME NEW s \in Tasks, s # t PROVE SettledAtWork(s)'
  <2> SUFFICES ASSUME Running(s)' PROVE SettledAtWork(s)'
    BY DEF SettledAtWork
  <2>1. /\ task'[s] = task[s] /\ Running(s) /\ HostOfTask(s)' = HostOfTask(s)
        /\ Skipped(s)' = Skipped(s)
    BY <1>6, <1>10 DEF Running, HostOfTask, Skipped
  <2>2. SettledAtWork(s) /\ HostOfTask(s) \in Hosts
    BY <2>1, <1>2, TaskHost DEF SettleInv, Settled
  <2> QED
    BY <2>1, <2>2, <1>1, <1>3, <1>7 DEF SettledAtWork, RestedAsDeclared
<1> QED
  BY <1>8, <1>9, <1>10 DEF Settled

\* A step that leaves the tasks, their hosts and the histories alone.
LEMMA LoopSettles ==
  ASSUME SettleInv,
         UNCHANGED <<readyIn, delay, inFlight, robots, quiet, paged>>,
         \A s \in Tasks : task'[s] = task[s] \/ task'[s] = Idle
  PROVE  Settled'
<1>1. \A g \in Hosts : Declared(g)' = Declared(g)
  BY DEF Declared
<1>2. \A g \in Hosts : SettledAtRest(g)'
  BY <1>1 DEF SettleInv, Settled, SettledAtRest
<1>3. ASSUME NEW s \in Tasks PROVE SettledAtWork(s)'
  <2> SUFFICES ASSUME Running(s)' PROVE SettledAtWork(s)'
    BY DEF SettledAtWork
  <2>1. /\ task'[s] = task[s] /\ Running(s) /\ HostOfTask(s)' = HostOfTask(s)
        /\ Skipped(s)' = Skipped(s)
    BY DEF Running, HostOfTask, Skipped, Idle
  <2>2. Declared(HostOfTask(s))' = Declared(HostOfTask(s))
    BY <2>1 DEF Declared
  <2>3. SettledAtWork(s)
    BY DEF SettleInv, Settled
  <2> QED
    BY <2>1, <2>2, <2>3 DEF SettledAtWork, RestedAsDeclared
<1> QED
  BY <1>2, <1>3 DEF Settled

\* Time adds to a rest what it takes off a cooldown, up to the Horizon, which
\* no declared delay exceeds.
LEMMA TimeSettles ==
  ASSUME FrontierAssumption, CrawlerAssumption, SettleInv, TimePasses
  PROVE  Settled'
<1>1. /\ readyIn' = [h \in Hosts |-> Cooled(readyIn[h])]
      /\ task' = [t \in Tasks |-> [task[t] EXCEPT !.nap = Cooled(@)]]
      /\ quiet' = [h \in Hosts |->
           IF Requesting(h) # {} THEN 0
           ELSE IF quiet[h] < Horizon THEN quiet[h] + 1 ELSE Horizon]
      /\ UNCHANGED <<delay, inFlight, robots, paged>>
  BY DEF TimePasses, CoolDown
<1>2. TypeOK /\ FrontierTypeOK /\ Horizon \in Nat
  BY DEF SettleInv, CrawlerInv, TypeOK, CrawlerAssumption
<1>3. ASSUME NEW s \in Tasks
      PROVE  /\ task'[s].stage = task[s].stage /\ task'[s].url = task[s].url
             /\ task'[s].made = task[s].made
             /\ task'[s].outcome = task[s].outcome
  <2>1. task[s] \in TaskState
    BY <1>2 DEF TypeOK
  <2> QED
    BY <2>1, <1>1 DEF TaskState
<1>4. \A h \in Hosts : Declared(h)' = Declared(h)
  BY <1>1 DEF Declared
<1>5. ASSUME NEW h \in Hosts, Requesting(h) = {}
      PROVE  /\ quiet[h] \in Nat /\ quiet'[h] \in Nat
             /\ quiet'[h] = quiet[h] + 1 \/ quiet'[h] >= Declared(h)
             /\ quiet[h] >= Declared(h) => quiet'[h] >= Declared(h)
  <2>1. quiet[h] \in Nat /\ Declared(h) \in Nat /\ Declared(h) <= Horizon
    BY <1>2, DeclaredTyped DEF TypeOK
  <2> QED
    BY <2>1, <1>1, <1>2, <1>5
<1>6. ASSUME NEW h \in Hosts PROVE SettledAtRest(h)'
  <2>1. SettledAtRest(h)
    BY DEF SettleInv, Settled
  <2>2. ASSUME ~inFlight[h], paged[h] = 2
        PROVE  readyIn'[h] + quiet'[h] >= Declared(h)
    <3> DEFINE n == readyIn[h]
               d == Declared(h)
    <3>1. Requesting(h) = {}
      BY <2>2 DEF Requesting, Running, SettleInv, CrawlerInv, AtWork
    <3>2. n \in Nat /\ readyIn'[h] = Cooled(n) /\ n + quiet[h] >= d
      BY <2>1, <2>2, <1>1, <1>2 DEF FrontierTypeOK, SettledAtRest
    <3>3. Cooled(n) \in Nat /\ n <= Cooled(n) + 1
      BY <3>2 DEF Cooled
    <3>4. d \in Nat
      BY <1>2, DeclaredTyped
    <3>5. /\ quiet[h] \in Nat /\ quiet'[h] \in Nat
          /\ quiet'[h] = quiet[h] + 1 \/ quiet'[h] >= d
      BY <3>1, <1>5
    <3> HIDE DEF n, d
    <3>6. Cooled(n) + quiet'[h] >= d
      BY <3>2, <3>3, <3>4, <3>5
    <3> QED
      BY <3>2, <3>6 DEF d
  <2> QED
    BY <2>1, <2>2, <1>1, <1>4 DEF SettledAtRest
<1>7. ASSUME NEW s \in Tasks PROVE SettledAtWork(s)'
  <2> SUFFICES ASSUME Running(s) PROVE SettledAtWork(s)'
    BY <1>3 DEF SettledAtWork, Running
  <2>1. PICK h \in Hosts : h = HostOfTask(s)
    BY <1>2, TaskHost
  <2>2. /\ HostOfTask(s)' = h /\ Skipped(s)' = Skipped(s) /\ Running(s)' = Running(s)
    BY <2>1, <1>3 DEF HostOfTask, Skipped, Running
  <2>3. SettledAtWork(s)
    BY DEF SettleInv, Settled
  <2>4. task[s].stage \in {"start", "done"} => Requesting(h) = {}
    BY <2>1 DEF Requesting, Running, SettleInv, CrawlerInv, OneTaskPerHost
  <2>5. task[s].stage \in {"start", "done"} /\ RestedAsDeclared(h)
          => RestedAsDeclared(h)'
    BY <2>4, <1>1, <1>4, <1>5 DEF RestedAsDeclared
  <2> QED
    BY <2>1, <2>2, <2>3, <2>5, <1>1, <1>3, <1>4 DEF SettledAtWork
<1> QED
  BY <1>6, <1>7 DEF Settled

\* The crawler keeps its invariant and settles what it declared.
LEMMA SettleNextInv ==
  FrontierAssumption /\ CrawlerAssumption /\ SettleInv /\ [Next]_vars => SettleInv'
<1> SUFFICES ASSUME FrontierAssumption, CrawlerAssumption, SettleInv, [Next]_vars
             PROVE  Settled'
  BY CrawlerNextInv DEF SettleInv
<1>1. CASE /\ UNCHANGED <<readyIn, delay, inFlight, robots, quiet, paged>>
           /\ task' = task
  BY <1>1, LoopSettles
<1>2. PushSeeds \/ AwaitTask \/ Sleep \/ Wake \/ Exhausted \/ UNCHANGED vars
        => /\ UNCHANGED <<readyIn, delay, inFlight, robots, quiet, paged>>
           /\ task' = task
  BY DEF PushSeeds, AwaitTask, Sleep, Wake, Exhausted, vars, frontierVars, histories
<1>3. ASSUME NEW t \in Tasks, NEW h \in Hosts, Dispatch(t, h) PROVE Settled'
  BY <1>3, DispatchSettles
<1>4. ASSUME NEW t \in Tasks, Join(t) PROVE Settled'
  <2>1. CASE JoinPanicked(t)
    <3>1. \A s \in Tasks : task'[s] = task[s] \/ task'[s] = Idle
      BY <2>1 DEF JoinPanicked, Resume, SettleInv, CrawlerInv, TypeOK
    <3> QED
      BY <2>1, <3>1, LoopSettles DEF JoinPanicked, frontierVars, histories
  <2>2. CASE ~JoinPanicked(t)
    BY <1>4, <2>2, AbsorbSettles
       DEF Join, AbsorbRedirect, AbsorbPage, StoreFails, AbsorbPathDisallowed,
           AbsorbHostDisallowed, AbsorbError, Completed
  <2> QED
    BY <2>1, <2>2
<1>5. ASSUME NEW t \in Tasks, Visit(t) \/ Panic(t) PROVE Settled'
  BY <1>5, VisitStepsSettle
<1>6. CASE TimePasses
  BY <1>6, TimeSettles
<1> QED
  BY <1>1, <1>2, <1>3, <1>4, <1>5, <1>6 DEF Next, Loop, Over

\* The crawler starts with nothing declared and nothing requested.
LEMMA SettleInitInv ==
  FrontierAssumption /\ CrawlerAssumption /\ Init => SettleInv
<1> SUFFICES ASSUME FrontierAssumption, CrawlerAssumption, Init PROVE Settled
  BY CrawlerInitInv DEF SettleInv
<1>1. \A t \in Tasks : ~Running(t)
  BY DEF Init, Running, Idle
<1>2. \A h \in Hosts : Declared(h) = 0 /\ paged[h] = 0 /\ delay[h] = DefaultDelay
  BY DEF Init, FrontierInit, Declared
<1>3. \A h \in Hosts : SettledAtRest(h)
  BY <1>2 DEF SettledAtRest, FrontierAssumption
<1> QED
  BY <1>1, <1>3 DEF Settled, SettledAtWork

\* The crawl keeps the stronger invariant too, for whatever delays hosts declare.
THEOREM CrawlerSettles == Spec => []SettleInv
BY SettleInitInv, SettleNextInv, FrontierAssumption, CrawlerAssumption, PTL
   DEF Spec

\* A request after the second page finds the host rested as it asked: the task
\* that makes it is at its start, since a pause comes before the first page.
LEMMA DeclaredRequestsAreSpaced ==
  FrontierAssumption /\ CrawlerAssumption /\ SettleInv /\ [Next]_vars
    => [\A h \in Hosts : Requests(h) /\ paged[h] = 2 =>
          quiet[h] >= CrawlDelay(robots[h])]_vars
<1> SUFFICES ASSUME FrontierAssumption, CrawlerAssumption, SettleInv, [Next]_vars,
                    NEW h \in Hosts, Requests(h), paged[h] = 2
             PROVE  quiet[h] >= CrawlDelay(robots[h])
  OBVIOUS
<1>1. PICK t \in Tasks : /\ task'[t].stage \in {"robots", "page"}
                         /\ HostOf[task'[t].url] = h
  BY DEF Requests, Requesting, HostOfTask
<1>2. ~(task[t].stage \in {"robots", "page"} /\ HostOfTask(t) = h)
  BY DEF Requests, Requesting
<1>3. HostOfTask(t) = h /\ task[t].stage \in {"start", "pause"}
  BY <1>1, <1>2, RequestsAreStarted DEF HostOfTask, SettleInv
<1>4. SettledAtWork(t) /\ Running(t)
  BY <1>3 DEF SettleInv, Settled, Running
<1>5. task[t].stage = "start" /\ RestedAsDeclared(h)
  BY <1>3, <1>4 DEF SettledAtWork
<1>6. robots[h] # None
  BY DEF SettleInv, Settled, SettledAtRest
<1> QED
  BY <1>5, <1>6 DEF RestedAsDeclared, Declared

\* The Crawl-delay a host declares is given it from its third page on, for any
\* delays, any web and any number of tasks.
THEOREM CrawlDelayIsKept == Spec => CrawlDelaySettles
BY CrawlerSettles, DeclaredRequestsAreSpaced, FrontierAssumption,
   CrawlerAssumption, PTL DEF Spec, CrawlDelaySettles

-----------------------------------------------------------------------------
(***************************************************************************)
(* The crawler implements PoliteCrawl, for any web, any number of tasks    *)
(* and hosts: its initial states map to initial states and each of its     *)
(* steps maps to a step of a polite crawl or changes nothing it speaks of. *)
(*                                                                         *)
(* A step is mapped in two parts: what it does to the fate of the pages,   *)
(* read off four sets of keys (seen, waiting, visited now, handed out),    *)
(* and what it does to the hosts that have a request to answer.            *)
(***************************************************************************)

\* A task visits a URL that next() handed out, so that a page whose visit ends
\* counts as visited and not as dropped.
VisitsWereHanded == \A t \in Tasks : Running(t) => task[t].url \in handed

RefinementInv == CrawlerInv /\ VisitsWereHanded

-----------------------------------------------------------------------------
(* Reading the state *)

\* All spellings of a page are on the host the page is on.
LEMMA KeyHostOf ==
  ASSUME FrontierAssumption, NEW u \in Urls
  PROVE  KeyOf[u] \in PageKeys /\ KeyHost[KeyOf[u]] = HostOf[u]
<1>1. KeyOf[u] \in PageKeys
  BY DEF PageKeys, Keys
<1>2. \E v \in Urls : KeyOf[v] = KeyOf[u]
  OBVIOUS
<1> DEFINE w == CHOOSE v \in Urls : KeyOf[v] = KeyOf[u]
<1>3. w \in Urls /\ KeyOf[w] = KeyOf[u]
  BY <1>2
<1>4. HostOf[w] = HostOf[u]
  BY <1>3 DEF FrontierAssumption
<1>5. KeyHost[KeyOf[u]] = HostOf[w]
  BY <1>1 DEF KeyHost
<1> QED
  BY <1>1, <1>4, <1>5

\* The keys of waiting and of visited pages are different pages, all seen.
LEMMA KeySets ==
  ASSUME FrontierAssumption, RefinementInv
  PROVE  /\ Keys(WaitingUrls) \subseteq seen /\ Keys(handed) \subseteq seen
         /\ VisitedNow \subseteq Keys(handed)
         /\ Keys(WaitingUrls) \cap Keys(handed) = {}
         /\ seen \subseteq PageKeys
<1>1. CrawlerInv /\ Books /\ TypeOK
  BY DEF RefinementInv, CrawlerInv
<1>2. Keys(WaitingUrls) \subseteq seen /\ Keys(handed) \subseteq seen
  BY <1>1 DEF Books, NothingLost
<1>3. Keys(WaitingUrls) \cap Keys(handed) = {}
  BY <1>1 DEF Books, Unrepeated
<1>4. VisitedNow \subseteq Keys(handed)
  BY DEF RefinementInv, VisitsWereHanded, VisitedNow, Keys
<1>5. seen \subseteq PageKeys
  BY <1>1 DEF TypeOK, FrontierTypeOK, PageKeys, Keys
<1> QED
  BY <1>2, <1>3, <1>4, <1>5

\* The fate of a page by the set its key is in.
FatesBySets ==
  /\ Fate = [k \in PageKeys |-> Fate[k]]
  /\ seen \subseteq PageKeys
  /\ \A k \in PageKeys :
       /\ Fate[k] = "unknown" <=> k \notin seen
       /\ Fate[k] = "waiting" <=> k \in Keys(WaitingUrls)
       /\ Fate[k] = "visiting" <=> k \in VisitedNow
       /\ Fate[k] = "visited" <=> k \in Keys(handed) \ VisitedNow
       /\ Fate[k] \in {"unknown", "waiting", "visiting", "visited", "dropped"}

LEMMA Fates == ASSUME FrontierAssumption, RefinementInv PROVE FatesBySets
BY KeySets DEF Fate, FatesBySets

\* And after a step.
LEMMA FatesNext == RefinementInv' => FatesBySets'
<1>1. RefinementInv => FatesBySets
  BY Fates, FrontierAssumption
<1> QED
  BY <1>1, PTL

\* A page keeps its fate while the sets keep it.
LEMMA SameFates ==
  ASSUME seen' = seen, Keys(WaitingUrls)' = Keys(WaitingUrls),
         VisitedNow' = VisitedNow, Keys(handed)' = Keys(handed)
  PROVE  Fate' = Fate
BY DEF Fate

\* What a task visits is the page its host is visited for.
LEMMA Visited ==
  ASSUME FrontierAssumption, RefinementInv, NEW t \in Tasks, Running(t)
  PROVE  /\ task[t].url \in Urls /\ HostOfTask(t) \in Hosts
         /\ KeyOf[task[t].url] \in VisitedNow
         /\ KeyOf[task[t].url] \in PageKeys
         /\ KeyHost[KeyOf[task[t].url]] = HostOfTask(t)
         /\ Abstract!With("visiting") \cap Abstract!On(HostOfTask(t)) = {KeyOf[task[t].url]}
<1> DEFINE k == KeyOf[task[t].url]
<1>1. task[t].url \in Urls /\ HostOfTask(t) \in Hosts
  BY TaskHost DEF RefinementInv, CrawlerInv
<1>2. k \in VisitedNow
  BY DEF VisitedNow
<1>3. k \in PageKeys /\ KeyHost[k] = HostOfTask(t)
  BY <1>1, KeyHostOf DEF HostOfTask
<1>4. k \in Abstract!With("visiting") \cap Abstract!On(HostOfTask(t))
  BY <1>2, <1>3, Fates DEF FatesBySets, Abstract!With, Abstract!On
<1>5. ASSUME NEW j \in Abstract!With("visiting") \cap Abstract!On(HostOfTask(t))
      PROVE  j = k
  <2>1. j \in VisitedNow /\ j \in PageKeys /\ KeyHost[j] = HostOfTask(t)
    BY <1>5, Fates DEF FatesBySets, Abstract!With, Abstract!On
  <2>2. PICK s \in Tasks : Running(s) /\ j = KeyOf[task[s].url]
    BY <2>1 DEF VisitedNow
  <2>3. HostOfTask(s) = HostOfTask(t)
    BY <2>1, <2>2, TaskHost, KeyHostOf DEF RefinementInv, CrawlerInv, HostOfTask
  <2> QED
    BY <2>2, <2>3 DEF RefinementInv, CrawlerInv, OneTaskPerHost
<1> QED
  BY <1>1, <1>2, <1>3, <1>4, <1>5

\* A host that a task has is busy when that task waits for an answer.
LEMMA BusyHost ==
  ASSUME CrawlerInv, NEW t \in Tasks, Running(t), HostOfTask(t) \in Hosts
  PROVE  Busy[HostOfTask(t)] <=> task[t].stage \in {"robots", "page"}
<1>1. \A s \in Requesting(HostOfTask(t)) : s = t
  BY DEF Requesting, Running, CrawlerInv, OneTaskPerHost
<1> QED
  BY <1>1 DEF Busy, Requesting

-----------------------------------------------------------------------------
(* Steps of a task *)

\* A step of a task that goes on with its visit changes no fate, and makes no
\* host busy or free but its own.
LEMMA VisitMaps ==
  ASSUME FrontierAssumption, RefinementInv, NEW t \in Tasks, Running(t),
         UNCHANGED frontierVars,
         Running(t)', task'[t].url = task[t].url,
         \A s \in Tasks : s # t => task'[s] = task[s]
  PROVE  /\ Fate' = Fate
         /\ task'[t].stage \in {"robots", "page"} => Busy' = [Busy EXCEPT ![HostOfTask(t)] = TRUE]
         /\ task'[t].stage \notin {"robots", "page"} => Busy' = [Busy EXCEPT ![HostOfTask(t)] = FALSE]
<1> DEFINE h == HostOfTask(t)
<1>1. queue' = queue /\ seen' = seen /\ handed' = handed
  BY DEF frontierVars
<1>2. \A s \in Tasks : /\ (Running(s) <=> Running(s)') /\ task'[s].url = task[s].url
                       /\ HostOfTask(s)' = HostOfTask(s)
  BY DEF Running, HostOfTask
<1>3. Keys(WaitingUrls)' = Keys(WaitingUrls) /\ Keys(handed)' = Keys(handed)
  BY <1>1 DEF Keys, WaitingUrls, Waiting
<1>4. VisitedNow' = VisitedNow
  BY <1>2 DEF VisitedNow
<1>5. Fate' = Fate
  BY <1>1, <1>3, <1>4, SameFates
<1>6. h \in Hosts
  BY Visited
<1>7. ASSUME NEW g \in Hosts, g # h PROVE Requesting(g)' = Requesting(g)
  BY <1>2, <1>7 DEF Requesting
<1>8. Requesting(h)' # {} <=> task'[t].stage \in {"robots", "page"}
  <2>1. \A s \in Requesting(h)' : s = t
    BY <1>2 DEF Requesting, Running, RefinementInv, CrawlerInv, OneTaskPerHost
  <2> QED
    BY <2>1, <1>2 DEF Requesting
<1>9. \A g \in Hosts \ {h} : Busy'[g] = Busy[g]
  BY <1>7, Zenon DEF Busy
<1>10. /\ Busy = [g \in Hosts |-> Busy[g]] /\ Busy' = [g \in Hosts |-> Busy'[g]]
       /\ \A g \in Hosts : Busy'[g] = (Requesting(g)' # {})
  <2>1. Busy = [g \in Hosts |-> Busy[g]]
    BY DEF Busy
  <2>2. Busy' = [g \in Hosts |-> Busy'[g]]
    BY DEF Busy
  <2>3. \A g \in Hosts : Busy'[g] = (Requesting(g)' # {})
    BY Zenon DEF Busy
  <2> QED
    BY <2>1, <2>2, <2>3
<1>11. CASE task'[t].stage \in {"robots", "page"}
  <2>1. Busy'[h] = TRUE
    BY <1>2, <1>6, <1>8, <1>10, <1>11, Zenon
  <2> QED
    BY <1>5, <1>6, <1>9, <1>10, <1>11, <2>1
<1>12. CASE task'[t].stage \notin {"robots", "page"}
  <2>1. Busy'[h] = FALSE
    BY <1>2, <1>6, <1>8, <1>10, <1>12, Zenon
  <2> QED
    BY <1>5, <1>6, <1>9, <1>10, <1>12, <2>1
<1> QED
  BY <1>11, <1>12

\* A task that makes a request makes contact with its host.
LEMMA ContactMaps ==
  ASSUME FrontierAssumption, CrawlerAssumption, RefinementInv,
         NEW t \in Tasks, task[t].stage \in {"start", "pause"},
         task[t].stage = "pause" => task[t].nap = 0,
         UNCHANGED frontierVars,
         task'[t].stage \in {"robots", "page"}, task'[t].url = task[t].url,
         \A s \in Tasks : s # t => task'[s] = task[s],
         quiet' = [quiet EXCEPT ![HostOfTask(t)] = 0]
  PROVE  Abstract!Contact(HostOfTask(t)) /\ HostOfTask(t) \in Hosts
<1>1. Running(t) /\ Running(t)'
  BY DEF Running
<1>2. HostOfTask(t) \in Hosts
  BY <1>1, Visited
<1>3. Abstract!With("visiting") \cap Abstract!On(HostOfTask(t)) # {}
  BY <1>1, Visited
<1>4. Busy[HostOfTask(t)] = FALSE
  BY <1>1, <1>2, BusyHost DEF RefinementInv, Busy
<1>5. quiet[HostOfTask(t)] >= DefaultDelay
  BY RequestsStartAtRest DEF RefinementInv
<1>6. Fate' = Fate /\ Busy' = [Busy EXCEPT ![HostOfTask(t)] = TRUE]
  BY <1>1, VisitMaps
<1>7. blocked' = blocked
  BY DEF frontierVars
<1> QED
  BY <1>2, <1>3, <1>4, <1>5, <1>6, <1>7 DEF Abstract!Contact

\* A task whose request is over has an answer from its host.
LEMMA AnsweredMaps ==
  ASSUME FrontierAssumption, RefinementInv,
         NEW t \in Tasks, task[t].stage \in {"robots", "page"},
         UNCHANGED <<frontierVars, quiet>>,
         Running(t)', task'[t].stage \notin {"robots", "page"}, task'[t].url = task[t].url,
         \A s \in Tasks : s # t => task'[s] = task[s]
  PROVE  Abstract!Answered(HostOfTask(t)) /\ HostOfTask(t) \in Hosts
<1>1. Running(t)
  BY DEF Running
<1>2. HostOfTask(t) \in Hosts
  BY <1>1, Visited
<1>3. Busy[HostOfTask(t)]
  BY <1>1, <1>2, BusyHost DEF RefinementInv
<1>4. Fate' = Fate /\ Busy' = [Busy EXCEPT ![HostOfTask(t)] = FALSE]
  BY <1>1, VisitMaps
<1>5. blocked' = blocked
  BY DEF frontierVars
<1> QED
  BY <1>2, <1>3, <1>4, <1>5 DEF Abstract!Answered

\* A task that neither makes a request nor has one answered is not noticed.
LEMMA QuietVisitMaps ==
  ASSUME FrontierAssumption, RefinementInv,
         NEW t \in Tasks, Running(t), task[t].stage \notin {"robots", "page"},
         UNCHANGED <<frontierVars, quiet>>,
         Running(t)', task'[t].stage \notin {"robots", "page"}, task'[t].url = task[t].url,
         \A s \in Tasks : s # t => task'[s] = task[s]
  PROVE  UNCHANGED Abstract!vars
<1>1. HostOfTask(t) \in Hosts
  BY Visited
<1>2. ~Busy[HostOfTask(t)]
  BY <1>1, BusyHost DEF RefinementInv
<1>3. Fate' = Fate /\ Busy' = [Busy EXCEPT ![HostOfTask(t)] = FALSE]
  BY VisitMaps
<1>4. Busy' = Busy
  BY <1>1, <1>2, <1>3 DEF Busy
<1>5. blocked' = blocked
  BY DEF frontierVars
<1> QED
  BY <1>3, <1>4, <1>5 DEF Abstract!vars

\* What a decision by the rules comes to.
LEMMA DecideMaps ==
  ASSUME FrontierAssumption, CrawlerAssumption, RefinementInv,
         NEW t \in Tasks, task[t].stage \in {"start", "pause"},
         task[t].stage = "pause" => task[t].nap = 0,
         NEW r, Decide(t, r), UNCHANGED frontierVars
  PROVE  [Abstract!Next]_(Abstract!vars)
<1>1. task \in [Tasks -> TaskState] /\ task[t] \in TaskState /\ Running(t)
  BY DEF RefinementInv, CrawlerInv, TypeOK, Running
<1>2. \A s \in Tasks : s # t => task'[s] = task[s]
  BY <1>1 DEF Decide
<1>3. CASE Allows(r, task[t].url)
  <2>1. task'[t].stage = "page" /\ task'[t].url = task[t].url
    BY <1>1, <1>3 DEF Decide, TaskState
  <2>2. quiet' = [quiet EXCEPT ![HostOfTask(t)] = 0]
    BY <1>3 DEF Decide
  <2> QED
    BY <2>1, <2>2, <1>2, ContactMaps DEF Abstract!Next
<1>4. CASE ~Allows(r, task[t].url)
  <2>1. task'[t].stage = "done" /\ task'[t].url = task[t].url /\ Running(t)'
    BY <1>1, <1>4 DEF Decide, TaskState, Running
  <2>2. quiet' = quiet
    BY <1>4 DEF Decide
  <2> QED
    BY <2>1, <2>2, <1>1, <1>2, QuietVisitMaps
<1> QED
  BY <1>3, <1>4

\* A task's steps are steps of a polite crawl.
LEMMA TaskMaps ==
  ASSUME FrontierAssumption, CrawlerAssumption, RefinementInv,
         NEW t \in Tasks, Visit(t) \/ Panic(t)
  PROVE  [Abstract!Next]_(Abstract!vars)
<1>1. task \in [Tasks -> TaskState] /\ task[t] \in TaskState
  BY DEF RefinementInv, CrawlerInv, TypeOK
<1>2. CASE UseKnownRobots(t)
  BY <1>2, DecideMaps DEF UseKnownRobots
<1>3. CASE Proceed(t)
  BY <1>3, DecideMaps DEF Proceed
<1>4. CASE AskRobots(t)
  <2>1. /\ task'[t].stage = "robots" /\ task'[t].url = task[t].url
        /\ \A s \in Tasks : s # t => task'[s] = task[s]
    BY <1>1, <1>4 DEF AskRobots, TaskState
  <2> QED
    BY <2>1, <1>4, ContactMaps DEF AskRobots, Abstract!Next
<1>5. CASE RobotsAnswer(t)
  <2>1. /\ task'[t].stage = "pause" /\ task'[t].url = task[t].url /\ Running(t)'
        /\ \A s \in Tasks : s # t => task'[s] = task[s]
    BY <1>1, <1>5 DEF RobotsAnswer, TaskState, Running
  <2> QED
    BY <2>1, <1>5, AnsweredMaps DEF RobotsAnswer, Abstract!Next, histories
<1>6. CASE PageAnswer(t)
  <2>1. /\ task'[t].stage = "done" /\ task'[t].url = task[t].url /\ Running(t)'
        /\ \A s \in Tasks : s # t => task'[s] = task[s]
    BY <1>1, <1>6 DEF PageAnswer, TaskState, Running
  <2> QED
    BY <2>1, <1>6, AnsweredMaps DEF PageAnswer, Abstract!Next, histories
<1>7. CASE Panic(t)
  <2>1. /\ task'[t].stage = "panicked" /\ task'[t].url = task[t].url /\ Running(t)'
        /\ \A s \in Tasks : s # t => task'[s] = task[s]
    BY <1>1, <1>7 DEF Panic, Idle, Running
  <2>2. Running(t) /\ UNCHANGED <<frontierVars, quiet>>
    BY <1>7 DEF Panic, Running, histories
  <2>3. CASE task[t].stage \in {"robots", "page"}
    BY <2>1, <2>2, <2>3, AnsweredMaps DEF Abstract!Next
  <2>4. CASE task[t].stage \notin {"robots", "page"}
    BY <2>1, <2>2, <2>4, QuietVisitMaps
  <2> QED
    BY <2>3, <2>4
<1> QED
  BY <1>2, <1>3, <1>4, <1>5, <1>6, <1>7 DEF Visit

-----------------------------------------------------------------------------
(* Steps of the loop *)

\* Links that are pushed are of unknown pages, on hosts that are not off limits,
\* which wait from then on.
LEMMA OfferMaps ==
  ASSUME FrontierAssumption, RefinementInv,
         NEW links \in Links, NEW depth \in Nat, NEW taken, Offer(links, depth, taken)
  PROVE  \E S \in SUBSET Abstract!With("unknown") :
           /\ Abstract!Discoverable(S)
           /\ seen' = seen \cup S
           /\ Keys(WaitingUrls)' = Keys(WaitingUrls) \cup S
<1>1. FrontierTypeOK
  BY DEF RefinementInv, CrawlerInv, TypeOK
<1>2. PICK new \in Admissions(links, depth, taken) : IsFiniteSet(new) /\ Places(new)
  BY <1>1, OfferPlaces
<1>3. new \subseteq Urls /\ \A u \in new : KeyOf[u] \notin seen /\ ~blocked[HostOf[u]]
  BY DEF Admissions, Welcome, Links
<1>4. ASSUME NEW k \in Keys(new)
      PROVE  k \in PageKeys /\ k \notin seen /\ ~blocked[KeyHost[k]]
  <2>1. PICK u \in new : k = KeyOf[u]
    BY <1>4 DEF Keys
  <2> QED
    BY <2>1, <1>3, KeyHostOf
<1>5. Keys(new) \in SUBSET Abstract!With("unknown")
  BY <1>4, Fates DEF FatesBySets, Abstract!With
<1>6. Abstract!Discoverable(Keys(new))
  BY <1>4 DEF Abstract!Discoverable
<1>7. WaitingUrls' = WaitingUrls \cup new
  <2>1. ASSUME NEW u \in WaitingUrls PROVE u \in WaitingUrls'
    <3>1. PICK h \in Hosts : \E i \in DOMAIN queue[h] : u = queue[h][i].url
      BY <2>1 DEF WaitingUrls, Waiting
    <3>2. \E i \in DOMAIN queue'[h] : u = queue'[h][i].url
      BY <3>1, <1>2 DEF Places
    <3> QED
      BY <3>2 DEF WaitingUrls, Waiting
  <2>2. ASSUME NEW u \in new PROVE u \in WaitingUrls'
    <3>1. HostOf[u] \in Hosts /\ u \in AtHost(new, HostOf[u])
      BY <1>3 DEF AtHost, FrontierAssumption
    <3>2. \E i \in DOMAIN queue'[HostOf[u]] : u = queue'[HostOf[u]][i].url
      BY <3>1, <1>2 DEF Places
    <3> QED
      BY <3>1, <3>2 DEF WaitingUrls, Waiting
  <2>3. ASSUME NEW u \in WaitingUrls' PROVE u \in WaitingUrls \cup new
    <3>1. PICK h \in Hosts : \E i \in DOMAIN queue'[h] : u = queue'[h][i].url
      BY <2>3 DEF WaitingUrls, Waiting
    <3>2. PICK i \in DOMAIN queue'[h] : u = queue'[h][i].url
      BY <3>1
    <3>3. CASE i \in DOMAIN queue[h]
      BY <3>2, <3>3, <1>2 DEF Places, WaitingUrls, Waiting
    <3>4. CASE i \notin DOMAIN queue[h]
      BY <3>2, <3>4, <1>2 DEF Places, AtHost
    <3> QED
      BY <3>3, <3>4
  <2> QED
    BY <2>1, <2>2, <2>3
<1>8. Keys(WaitingUrls)' = Keys(WaitingUrls) \cup Keys(new)
  BY <1>7 DEF Keys
<1>9. seen' = seen \cup Keys(new)
  BY <1>2 DEF Places
<1> QED
  BY <1>5, <1>6, <1>8, <1>9

\* The pages whose visits end in a step.
Ended == VisitedNow \ VisitedNow'

\* When the loop takes in the result of a task, or aborts them all, visits end;
\* their hosts are no longer busy.
LEMMA VisitsEnd ==
  ASSUME FrontierAssumption, RefinementInv,
         NEW t \in Tasks, task[t].stage \in {"done", "panicked"},
         task' = [task EXCEPT ![t] = Idle] \/ task' = [s \in Tasks |-> Idle]
  PROVE  /\ Ended \in SUBSET Abstract!With("visiting")
         /\ KeyOf[task[t].url] \in Ended
         /\ VisitedNow' \subseteq VisitedNow
         /\ Busy' = [h \in Hosts |-> Busy[h] /\ Abstract!On(h) \cap Ended = {}]
<1> DEFINE k == KeyOf[task[t].url]
<1>1. task \in [Tasks -> TaskState] /\ Running(t) /\ Idle.stage = "idle"
  BY DEF RefinementInv, CrawlerInv, TypeOK, Running, Idle
<1>2. \A s \in Tasks : Running(s)' => task'[s] = task[s] /\ s # t
  BY <1>1 DEF Running
<1>3. VisitedNow' \subseteq VisitedNow
  BY <1>2 DEF VisitedNow, Running
<1>4. k \in VisitedNow /\ k \in PageKeys /\ KeyHost[k] = HostOfTask(t) /\ HostOfTask(t) \in Hosts
  BY <1>1, Visited
<1>5. ASSUME NEW s \in Tasks, Running(s), KeyOf[task[s].url] = k PROVE s = t
  <2>1. HostOfTask(s) = HostOfTask(t)
    BY <1>4, <1>5, Visited
  <2> QED
    BY <2>1, <1>1, <1>5 DEF RefinementInv, CrawlerInv, OneTaskPerHost
<1>6. k \notin VisitedNow'
  BY <1>2, <1>5 DEF VisitedNow, Running
<1>7. Ended \in SUBSET Abstract!With("visiting")
  BY Fates, KeySets DEF FatesBySets, Ended, Abstract!With
<1>8. ASSUME NEW h \in Hosts
      PROVE  (Requesting(h)' # {}) <=> (Requesting(h) # {} /\ Abstract!On(h) \cap Ended = {})
  <2>1. CASE task' = [s \in Tasks |-> Idle]
    <3>1. Requesting(h)' = {} /\ VisitedNow' = {}
      BY <2>1, <1>1 DEF Requesting, VisitedNow, Running
    <3>2. ASSUME NEW s \in Requesting(h) PROVE KeyOf[task[s].url] \in Abstract!On(h) \cap Ended
      <4>1. s \in Tasks /\ Running(s) /\ HostOfTask(s) = h
        BY <3>2 DEF Requesting, Running
      <4> QED
        BY <4>1, <3>1, Visited DEF Abstract!On, Ended
    <3> QED
      BY <3>1, <3>2
  <2>2. CASE task' = [task EXCEPT ![t] = Idle]
    <3>1. Requesting(h)' = Requesting(h)
      BY <2>2, <1>1 DEF Requesting, HostOfTask
    <3>2. ASSUME NEW s \in Requesting(h), NEW j \in Abstract!On(h) \cap Ended PROVE FALSE
      <4>1. s \in Tasks /\ Running(s) /\ HostOfTask(s) = h /\ s # t
        BY <3>2 DEF Requesting, Running
      <4>2. PICK r \in Tasks : Running(r) /\ j = KeyOf[task[r].url] /\ ~(Running(r)' /\ task'[r].url = task[r].url)
        BY <3>2 DEF Ended, VisitedNow
      <4>3. r = t
        BY <4>2, <2>2, <1>1 DEF Running
      <4>4. HostOfTask(t) = h
        BY <4>2, <4>3, <3>2, <1>4 DEF Abstract!On
      <4> QED
        BY <4>1, <4>4, <1>1 DEF RefinementInv, CrawlerInv, OneTaskPerHost
    <3> QED
      BY <3>1, <3>2
  <2> QED
    BY <2>1, <2>2
<1>9. Busy' = [h \in Hosts |-> Busy[h] /\ Abstract!On(h) \cap Ended = {}]
  <2>1. \A h \in Hosts : Busy[h] = (Requesting(h) # {}) /\ Busy'[h] = (Requesting(h)' # {})
    BY Zenon DEF Busy
  <2>2. \A h \in Hosts : Busy'[h] = (Busy[h] /\ Abstract!On(h) \cap Ended = {})
    BY <2>1, <1>8, Zenon
  <2>3. Busy' = [h \in Hosts |-> Busy'[h]]
    BY DEF Busy
  <2> QED
    BY <2>2, <2>3, Zenon
<1> QED
  BY <1>3, <1>4, <1>6, <1>7, <1>9 DEF Ended

\* A result is taken in that may bring links: visits end, pages start to wait.
LEMMA ConcludeMaps ==
  ASSUME FrontierAssumption, RefinementInv, RefinementInv',
         NEW t \in Tasks, task[t].stage \in {"done", "panicked"},
         task' = [task EXCEPT ![t] = Idle] \/ task' = [s \in Tasks |-> Idle],
         NEW S \in SUBSET Abstract!With("unknown"), Abstract!Discoverable(S),
         seen' = seen \cup S, Keys(WaitingUrls)' = Keys(WaitingUrls) \cup S,
         UNCHANGED <<handed, blocked, quiet>>
  PROVE  Abstract!Next
<1>1. /\ Ended \in SUBSET Abstract!With("visiting")
      /\ Ended # {}
      /\ VisitedNow' \subseteq VisitedNow
      /\ Busy' = [h \in Hosts |-> Busy[h] /\ Abstract!On(h) \cap Ended = {}]
  BY VisitsEnd
<1>2. FatesBySets /\ FatesBySets'
  BY Fates, FatesNext
<1>3. Keys(handed)' = Keys(handed)
  BY DEF Keys
<1>4. Keys(WaitingUrls) \cap VisitedNow = {} /\ VisitedNow \subseteq Keys(handed)
  BY KeySets
<1>5. S \subseteq PageKeys /\ S \cap seen = {} /\ VisitedNow \subseteq seen
  BY <1>2, KeySets DEF FatesBySets, Abstract!With
<1> DEFINE new == [k \in PageKeys |-> IF k \in Ended THEN "visited"
                                      ELSE IF k \in S THEN "waiting" ELSE Fate[k]]
<1>6. Fate' = new
  <2>1. ASSUME NEW k \in PageKeys PROVE Fate'[k] = new[k]
    <3>1. CASE k \in Ended
      BY <3>1, <1>2, <1>3, <1>4 DEF FatesBySets, Ended
    <3>2. CASE k \in S
      BY <3>2, <1>2, <1>5 DEF FatesBySets, Ended
    <3>3. CASE k \notin Ended /\ k \notin S
      <4>1. /\ k \in VisitedNow' <=> k \in VisitedNow
            /\ k \in Keys(WaitingUrls)' <=> k \in Keys(WaitingUrls)
            /\ k \in seen' <=> k \in seen
        BY <3>3, <1>1 DEF Ended
      <4> QED
        BY <4>1, <3>3, <1>2, <1>3 DEF FatesBySets
    <3> QED
      BY <3>1, <3>2, <3>3
  <2> QED
    BY <2>1, <1>2 DEF FatesBySets
<1>7. blocked' = [h \in Hosts |-> blocked[h] \/ h \in {}]
  BY Zenon DEF RefinementInv, CrawlerInv, TypeOK, FrontierTypeOK
<1>8. Abstract!Conclude(Ended, S, {})
  BY <1>1, <1>6, <1>7 DEF Abstract!Conclude
<1> QED
  BY <1>1, <1>8 DEF Abstract!Next

\* The result that puts a host off limits: its waiting pages are dropped.
LEMMA BlockMaps ==
  ASSUME FrontierAssumption, RefinementInv, RefinementInv',
         NEW t \in Tasks, task[t].stage = "done",
         task' = [task EXCEPT ![t] = Idle] \/ task' = [s \in Tasks |-> Idle],
         BlockHost(HostOfTask(t)), UNCHANGED <<seen, handed, quiet>>
  PROVE  Abstract!Next
<1> DEFINE h == HostOfTask(t)
<1>1. /\ Ended \in SUBSET Abstract!With("visiting")
      /\ KeyOf[task[t].url] \in Ended
      /\ VisitedNow' \subseteq VisitedNow
      /\ Busy' = [g \in Hosts |-> Busy[g] /\ Abstract!On(g) \cap Ended = {}]
  BY VisitsEnd
<1>2. FatesBySets /\ FatesBySets'
  BY Fates, FatesNext
<1>3. Keys(handed)' = Keys(handed) /\ seen' = seen
  BY DEF Keys
<1>4. Keys(WaitingUrls) \cap VisitedNow = {} /\ VisitedNow \subseteq Keys(handed)
  BY KeySets
<1>5. h \in Hosts /\ KeyHost[KeyOf[task[t].url]] = h
  BY Visited DEF Running
<1>6. \A k \in PageKeys : k \in Keys(WaitingUrls)' <=> k \in Keys(WaitingUrls) /\ KeyHost[k] # h
  <2>1. queue' = [queue EXCEPT ![h] = <<>>] /\ DOMAIN queue = Hosts
    BY DEF BlockHost, RefinementInv, CrawlerInv, TypeOK, FrontierTypeOK
  <2>2. \A g \in Hosts : Waiting(g)' = IF g = h THEN {} ELSE Waiting(g)
    BY <2>1, <1>5 DEF Waiting
  <2>3. \A g \in Hosts : \A u \in Waiting(g) : u \in Urls /\ HostOf[u] = g
    <3>1. ASSUME NEW g \in Hosts, NEW i \in DOMAIN queue[g] PROVE queue[g][i].url \in Urls
      <4>1. queue[g] \in Seq(Candidate)
        BY DEF RefinementInv, CrawlerInv, TypeOK, FrontierTypeOK
      <4>2. queue[g][i] \in Candidate
        BY <4>1, <3>1, ElementOfSeq, LenProperties
      <4> QED
        BY <4>2 DEF Candidate
    <3> QED
      BY <3>1 DEF Waiting, RefinementInv, CrawlerInv, Books, QueuedAtHome
  <2>4. \A u \in WaitingUrls : u \in Urls /\ (u \in WaitingUrls' <=> HostOf[u] # h)
    BY <2>2, <2>3, <1>5 DEF WaitingUrls
  <2>5. WaitingUrls' \subseteq WaitingUrls
    BY <2>2 DEF WaitingUrls
  <2>6. \A u \in WaitingUrls : KeyHost[KeyOf[u]] = HostOf[u]
    BY <2>4, KeyHostOf
  <2> QED
    BY <2>4, <2>5, <2>6 DEF Keys
<1> DEFINE dropped == {k \in Abstract!With("waiting") : KeyHost[k] \in {h}}
           new == [k \in PageKeys |-> IF k \in Ended THEN "visited"
                                      ELSE IF k \in {} THEN "waiting"
                                      ELSE IF k \in dropped THEN "dropped" ELSE Fate[k]]
<1>7. Fate' = new
  <2>1. ASSUME NEW k \in PageKeys PROVE Fate'[k] = new[k]
    <3>1. CASE k \in Ended
      BY <3>1, <1>2, <1>3, <1>4 DEF FatesBySets, Ended
    <3>2. CASE k \in dropped
      <4>1. /\ k \in Keys(WaitingUrls) /\ k \notin Keys(WaitingUrls)' /\ k \in seen'
            /\ k \notin Keys(handed)' /\ k \notin VisitedNow'
        BY <3>2, <1>1, <1>2, <1>3, <1>6, KeySets DEF FatesBySets, Abstract!With
      <4> QED
        BY <3>2, <4>1, <1>2, <1>4 DEF FatesBySets, Ended
    <3>3. CASE k \notin Ended /\ k \notin dropped
      <4>1. /\ k \in VisitedNow' <=> k \in VisitedNow
            /\ k \in Keys(WaitingUrls)' <=> k \in Keys(WaitingUrls)
            /\ k \in seen' <=> k \in seen
        BY <3>3, <1>1, <1>2, <1>3, <1>6 DEF FatesBySets, Ended, Abstract!With
      <4> QED
        BY <4>1, <3>3, <1>2, <1>3 DEF FatesBySets
    <3> QED
      BY <3>1, <3>2, <3>3
  <2> QED
    BY <2>1, <1>2 DEF FatesBySets
<1>8. blocked' = [g \in Hosts |-> blocked[g] \/ g \in {h}]
  <2>1. blocked \in [Hosts -> BOOLEAN] /\ blocked' = [blocked EXCEPT ![h] = TRUE]
    BY DEF BlockHost, RefinementInv, CrawlerInv, TypeOK, FrontierTypeOK
  <2>2. ASSUME NEW g \in Hosts PROVE blocked'[g] = (blocked[g] \/ g \in {h})
    BY <2>1, <1>5
  <2> QED
    BY <2>1, <2>2
<1>9. {h} \in SUBSET Abstract!HostsOf(Ended)
  BY <1>1, <1>5 DEF Abstract!HostsOf
<1>10. Abstract!Conclude(Ended, {}, {h})
  BY <1>1, <1>7, <1>8 DEF Abstract!Conclude, Abstract!Discoverable
<1> QED
  BY <1>1, <1>9, <1>10 DEF Abstract!Next

\* A result with links, taken in whole or while the disk fails.
LEMMA LinksMap ==
  ASSUME FrontierAssumption, RefinementInv, RefinementInv',
         NEW t \in Tasks, task[t].stage = "done", task[t].outcome.kind \in {"page", "redirect"},
         task' = [task EXCEPT ![t] = Idle] \/ task' = [s \in Tasks |-> Idle],
         NEW depth \in Nat, Offer(task[t].outcome.links, depth, fetched'),
         UNCHANGED <<handed, blocked, quiet>>
  PROVE  Abstract!Next
<1>1. task[t].outcome.links \in Links
  BY OutcomeLinks DEF RefinementInv, CrawlerInv
<1> QED
  BY <1>1, OfferMaps, ConcludeMaps

\* A result that brings nothing and blocks nothing.
LEMMA NoLinksMap ==
  ASSUME FrontierAssumption, RefinementInv, RefinementInv',
         NEW t \in Tasks, task[t].stage \in {"done", "panicked"},
         task' = [task EXCEPT ![t] = Idle] \/ task' = [s \in Tasks |-> Idle],
         UNCHANGED <<queue, seen, handed, blocked, quiet>>
  PROVE  Abstract!Next
<1>1. Keys(WaitingUrls)' = Keys(WaitingUrls) \cup {}
  BY DEF Keys, WaitingUrls, Waiting
<1>2. {} \in SUBSET Abstract!With("unknown") /\ Abstract!Discoverable({})
  BY DEF Abstract!Discoverable
<1>3. seen' = seen \cup {}
  OBVIOUS
<1> QED
  BY <1>1, <1>2, <1>3, ConcludeMaps

\* Whatever comes of a task, taking it in concludes a visit.
LEMMA JoinMaps ==
  ASSUME FrontierAssumption, RefinementInv, RefinementInv', NEW t \in Tasks, Join(t)
  PROVE  Abstract!Next
<1>1. ASSUME Resume(t)
      PROVE  task' = [task EXCEPT ![t] = Idle] \/ task' = [s \in Tasks |-> Idle]
  BY <1>1 DEF Resume
<1>2. task[t].depth \in Nat /\ task[t].depth + 1 \in Nat
  BY DEF RefinementInv, CrawlerInv, TypeOK, TaskState
<1>3. CASE AbsorbRedirect(t)
  BY <1>1, <1>2, <1>3, LinksMap DEF AbsorbRedirect, Completed, histories
<1>4. CASE AbsorbPage(t)
  BY <1>1, <1>2, <1>4, LinksMap DEF AbsorbPage, Completed, histories
<1>5. CASE StoreFails(t)
  BY <1>2, <1>5, LinksMap DEF StoreFails, Completed, histories
<1>6. CASE AbsorbPathDisallowed(t)
  BY <1>1, <1>6, NoLinksMap DEF AbsorbPathDisallowed, Completed, histories
<1>7. CASE AbsorbError(t)
  BY <1>1, <1>7, NoLinksMap DEF AbsorbError, Completed, histories
<1>8. CASE JoinPanicked(t)
  BY <1>1, <1>8, NoLinksMap DEF JoinPanicked, frontierVars, histories
<1>9. CASE AbsorbHostDisallowed(t)
  BY <1>1, <1>9, BlockMaps DEF AbsorbHostDisallowed, Completed, histories
<1> QED
  BY <1>3, <1>4, <1>5, <1>6, <1>7, <1>8, <1>9 DEF Join

\* The seeds are discovered.
LEMMA PushSeedsMaps ==
  ASSUME FrontierAssumption, CrawlerAssumption, RefinementInv, RefinementInv', PushSeeds
  PROVE  Abstract!Next
<1>1. Seeds \in Links /\ Offer(Seeds, 0, fetched) /\ 0 \in Nat
  BY DEF PushSeeds, CrawlerAssumption
<1>2. PICK S \in SUBSET Abstract!With("unknown") :
        /\ Abstract!Discoverable(S)
        /\ seen' = seen \cup S
        /\ Keys(WaitingUrls)' = Keys(WaitingUrls) \cup S
  BY <1>1, OfferMaps
<1>3. task' = task /\ blocked' = blocked /\ quiet' = quiet /\ handed' = handed
  BY DEF PushSeeds, histories
<1>4. VisitedNow' = VisitedNow /\ Keys(handed)' = Keys(handed) /\ Busy' = Busy
  BY <1>3 DEF VisitedNow, Running, Keys, Busy, Requesting, HostOfTask
<1>5. FatesBySets /\ FatesBySets'
  BY Fates, FatesNext
<1>6. S \subseteq PageKeys /\ S \cap seen = {} /\ VisitedNow \subseteq seen
  BY <1>5, KeySets DEF FatesBySets, Abstract!With
<1> DEFINE new == [k \in PageKeys |-> IF k \in S THEN "waiting" ELSE Fate[k]]
<1>7. Fate' = new
  <2>1. ASSUME NEW k \in PageKeys PROVE Fate'[k] = new[k]
    BY <1>2, <1>4, <1>5, <1>6 DEF FatesBySets
  <2> QED
    BY <2>1, <1>5 DEF FatesBySets
<1>8. Abstract!Discover(S)
  BY <1>2, <1>3, <1>4, <1>7 DEF Abstract!Discover
<1> QED
  BY <1>8 DEF Abstract!Next

\* A dispatched page begins to be visited: it waited, on a host that no task
\* has and that is not off limits.
LEMMA DispatchMaps ==
  ASSUME FrontierAssumption, CrawlerAssumption, RefinementInv, RefinementInv',
         NEW t \in Tasks, NEW h \in Hosts, Dispatch(t, h)
  PROVE  Abstract!Next
<1> DEFINE s == queue[h]
           u == Head(s).url
           p == KeyOf[u]
<1>1. /\ FrontierTypeOK /\ Books /\ Take(h) /\ ~Running(t)
      /\ task \in [Tasks -> TaskState]
  BY DEF RefinementInv, CrawlerInv, TypeOK, Dispatch
<1>2. s \in Seq(Candidate) /\ s # <<>> /\ ~blocked[h] /\ ~inFlight[h]
  BY <1>1 DEF FrontierTypeOK, Take, Ready, Eligible
<1>3. Head(s) \in Candidate /\ HostOf[u] = h
  BY <1>1, TakeKeepsBooks
<1>4. u \in Urls /\ p \in PageKeys /\ KeyHost[p] = h
  BY <1>3, KeyHostOf DEF Candidate
<1> HIDE DEF s
<1>5. /\ DOMAIN s = 1..Len(s) /\ 1 \in DOMAIN s /\ Head(s) = s[1]
      /\ \A i \in DOMAIN Tail(s) : i + 1 \in DOMAIN s /\ Tail(s)[i] = s[i + 1]
      /\ DOMAIN Tail(s) = 1..(Len(s) - 1) /\ Len(s) \in Nat
  BY <1>2, HeadAndTail
<1>6. /\ queue' = [queue EXCEPT ![h] = Tail(s)] /\ DOMAIN queue = Hosts
      /\ handed' = handed \cup {u}
      /\ blocked' = blocked /\ seen' = seen
  BY <1>1 DEF Take, FrontierTypeOK, s
<1>7. FatesBySets /\ FatesBySets'
  BY Fates, FatesNext
<1>8. task'[t].stage = "start" /\ task'[t].url = u /\ \A r \in Tasks : r # t => task'[r] = task[r]
  BY <1>1 DEF Dispatch, Idle, s
<1>9. VisitedNow' = VisitedNow \cup {p}
  <2>1. \A r \in Tasks : r # t => /\ Running(r)' <=> Running(r)
                                  /\ task'[r].url = task[r].url
    BY <1>8 DEF Running
  <2>2. Running(t)' /\ ~Running(t)
    BY <1>1, <1>8 DEF Running
  <2> QED
    BY <2>1, <2>2, <1>8 DEF VisitedNow
<1>10. Busy' = Busy
  <2>1. \A g \in Hosts : Requesting(g)' = Requesting(g)
    BY <1>1, <1>8 DEF Requesting, HostOfTask, Running
  <2> QED
    BY <2>1, Zenon DEF Busy
<1>11. WaitingUrls' \cup {u} = WaitingUrls
  <2>1. s[1].url \in Waiting(h) /\ Waiting(h) = Waiting(h)' \cup {u}
    <3>1. Waiting(h) = {s[i].url : i \in DOMAIN s}
      BY DEF Waiting, s
    <3>2. Waiting(h)' = {Tail(s)[i].url : i \in DOMAIN Tail(s)}
      BY <1>6 DEF Waiting
    <3>3. \A i \in DOMAIN s : i = 1 \/ (i - 1 \in DOMAIN Tail(s) /\ s[i] = Tail(s)[i - 1])
      BY <1>5
    <3>4. u = s[1].url
      BY <1>5
    <3>5. ASSUME NEW i \in DOMAIN s PROVE s[i].url \in Waiting(h)' \cup {u}
      <4>1. CASE i = 1
        BY <3>4, <4>1
      <4>2. CASE i - 1 \in DOMAIN Tail(s) /\ s[i] = Tail(s)[i - 1]
        BY <3>2, <4>2
      <4> QED
        BY <3>3, <4>1, <4>2
    <3>6. ASSUME NEW i \in DOMAIN Tail(s) PROVE Tail(s)[i].url \in Waiting(h)
      BY <3>1, <1>5
    <3>7. s[1].url \in Waiting(h)
      BY <3>1, <1>5
    <3> HIDE DEF u
    <3> QED
      BY <3>1, <3>2, <3>4, <3>5, <3>6, <3>7
  <2>2. \A g \in Hosts : g # h => Waiting(g)' = Waiting(g)
    BY <1>6 DEF Waiting
  <2> QED
    BY <2>1, <2>2, <1>5 DEF WaitingUrls
<1>12. p \in Keys(handed)' /\ p \notin Keys(WaitingUrls)'
  <2>1. p \in Keys(handed)'
    BY <1>6 DEF Keys
  <2>2. (Keys(WaitingUrls) \cap Keys(handed) = {})'
    BY DEF RefinementInv, CrawlerInv, Books, Unrepeated
  <2> QED
    BY <2>1, <2>2
<1>13. p \in Keys(WaitingUrls) /\ Keys(WaitingUrls)' = Keys(WaitingUrls) \ {p}
  BY <1>11, <1>12 DEF Keys
<1>14. Keys(handed)' = Keys(handed) \cup {p}
  BY <1>6 DEF Keys
<1>15. Fate[p] = "waiting" /\ Fate' = [Fate EXCEPT ![p] = "visiting"]
  <2>1. Fate[p] = "waiting" /\ Fate'[p] = "visiting"
    BY <1>4, <1>7, <1>9, <1>13 DEF FatesBySets
  <2>2. ASSUME NEW k \in PageKeys \ {p} PROVE Fate'[k] = Fate[k]
    <3>1. /\ k \in seen' <=> k \in seen
          /\ k \in VisitedNow' <=> k \in VisitedNow
          /\ k \in Keys(WaitingUrls)' <=> k \in Keys(WaitingUrls)
          /\ k \in Keys(handed)' <=> k \in Keys(handed)
      BY <2>2, <1>6, <1>9, <1>13, <1>14
    <3> QED
      BY <3>1, <1>7 DEF FatesBySets
  <2> QED
    BY <2>1, <2>2, <1>7 DEF FatesBySets
<1>16. Abstract!With("visiting") \cap Abstract!On(h) = {}
  <2>1. ASSUME NEW k \in PageKeys, k \in VisitedNow, KeyHost[k] = h PROVE FALSE
    <3>1. PICK r \in Tasks : Running(r) /\ k = KeyOf[task[r].url]
      BY <2>1 DEF VisitedNow
    <3>2. HostOfTask(r) = h
      BY <2>1, <3>1, Visited
    <3> QED
      BY <3>1, <3>2, <1>2 DEF RefinementInv, CrawlerInv, AtWork
  <2> QED
    BY <2>1, <1>7 DEF FatesBySets, Abstract!With, Abstract!On
<1>17. quiet' = quiet
  BY DEF Dispatch, histories
<1>18. Abstract!Begin(p)
  BY <1>2, <1>4, <1>6, <1>10, <1>15, <1>16, <1>17 DEF Abstract!Begin
<1> QED
  BY <1>4, <1>18 DEF Abstract!Next

\* Time passes for both.
LEMMA TimeMaps ==
  ASSUME FrontierAssumption, RefinementInv, TimePasses
  PROVE  Abstract!Next
<1>1. /\ queue' = queue /\ seen' = seen /\ handed' = handed /\ blocked' = blocked
      /\ task \in [Tasks -> TaskState]
  BY DEF TimePasses, RefinementInv, CrawlerInv, TypeOK
<1>2. \A t \in Tasks : task'[t].stage = task[t].stage /\ task'[t].url = task[t].url
  BY <1>1 DEF TimePasses, TaskState
<1>3. /\ Keys(WaitingUrls)' = Keys(WaitingUrls) /\ Keys(handed)' = Keys(handed)
      /\ VisitedNow' = VisitedNow
  BY <1>1, <1>2 DEF Keys, WaitingUrls, Waiting, VisitedNow, Running
<1>4. Fate' = Fate
  BY <1>1, <1>3, SameFates
<1>5. \A h \in Hosts : Requesting(h)' = Requesting(h)
  BY <1>2 DEF Requesting, HostOfTask
<1>6. Busy' = Busy
  BY <1>5, Zenon DEF Busy
<1>7. quiet' = [h \in Hosts |-> IF Busy[h] THEN 0
                                ELSE IF quiet[h] < Horizon THEN quiet[h] + 1 ELSE Horizon]
  <2>1. \A h \in Hosts : Busy[h] <=> Requesting(h) # {}
    BY DEF Busy
  <2> QED
    BY <2>1 DEF TimePasses
<1>8. Abstract!Time
  BY <1>1, <1>4, <1>6, <1>7 DEF Abstract!Time
<1> QED
  BY <1>8 DEF Abstract!Next

\* What the loop does by itself is not noticed.
LEMMA UnnoticedMaps ==
  ASSUME UNCHANGED <<frontierVars, task, quiet>>
  PROVE  UNCHANGED Abstract!vars
<1>1. /\ queue' = queue /\ seen' = seen /\ handed' = handed /\ blocked' = blocked
      /\ task' = task /\ quiet' = quiet
  BY DEF frontierVars
<1>2. Fate' = Fate
  BY <1>1, SameFates DEF Keys, WaitingUrls, Waiting, VisitedNow, Running
<1>3. \A h \in Hosts : Requesting(h)' = Requesting(h)
  BY <1>1 DEF Requesting, HostOfTask
<1>4. Busy' = Busy
  BY <1>3, Zenon DEF Busy
<1> QED
  BY <1>1, <1>2, <1>4 DEF Abstract!vars

-----------------------------------------------------------------------------
(* The refinement *)

\* What is visited stays handed out: a task gets its URL from next().
LEMMA VisitsStayHanded ==
  ASSUME FrontierAssumption, CrawlerAssumption, RefinementInv, [Next]_vars
  PROVE  VisitsWereHanded'
<1>1. /\ task \in [Tasks -> TaskState] /\ Idle.stage = "idle"
      /\ \A t \in Tasks : Running(t) => task[t].url \in handed
  BY DEF RefinementInv, VisitsWereHanded, CrawlerInv, TypeOK, Idle
<1> DEFINE Kept == /\ handed \subseteq handed'
                   /\ \A t \in Tasks : task'[t].stage # "idle" =>
                        task[t].stage # "idle" /\ task'[t].url = task[t].url
<1>2. ASSUME Kept PROVE VisitsWereHanded'
  BY <1>1, <1>2 DEF VisitsWereHanded, Running
<1>3. CASE UNCHANGED <<frontierVars, task>> \/ PushSeeds
  BY <1>2, <1>3 DEF PushSeeds, frontierVars
<1>4. ASSUME NEW t \in Tasks, NEW h \in Hosts, Dispatch(t, h) PROVE VisitsWereHanded'
  <2>1. task'[t].url \in handed' /\ handed \subseteq handed'
    BY <1>1, <1>4 DEF Dispatch, Take, Idle
  <2>2. \A s \in Tasks : s # t => task'[s] = task[s]
    BY <1>1, <1>4 DEF Dispatch
  <2> QED
    BY <2>1, <2>2, <1>1 DEF VisitsWereHanded, Running
<1>5. ASSUME NEW t \in Tasks, Join(t) PROVE VisitsWereHanded'
  <2>1. task' = [task EXCEPT ![t] = Idle] \/ task' = [s \in Tasks |-> Idle]
    BY <1>5 DEF Join, Resume, AbsorbRedirect, AbsorbPage, StoreFails,
                AbsorbPathDisallowed, AbsorbHostDisallowed, AbsorbError, JoinPanicked
  <2>2. handed' = handed
    BY <1>5 DEF Join, AbsorbRedirect, AbsorbPage, StoreFails, AbsorbPathDisallowed,
                AbsorbHostDisallowed, AbsorbError, JoinPanicked, frontierVars
  <2> QED
    BY <2>1, <2>2, <1>1, <1>2
<1>6. ASSUME NEW t \in Tasks, Visit(t) \/ Panic(t) PROVE VisitsWereHanded'
  <2>1. handed' = handed
    BY <1>6 DEF Visit, UseKnownRobots, AskRobots, RobotsAnswer, Proceed, PageAnswer, Panic, frontierVars
  <2>2. task[t].stage # "idle"
    BY <1>6 DEF Visit, UseKnownRobots, AskRobots, RobotsAnswer, Proceed, PageAnswer, Panic
  <2>3. /\ \A s \in Tasks : s # t => task'[s] = task[s]
        /\ task'[t].url = task[t].url
    <3>1. CASE UseKnownRobots(t) \/ Proceed(t)
      BY <1>1, <3>1 DEF UseKnownRobots, Proceed, Decide, TaskState
    <3>2. CASE AskRobots(t)
      BY <1>1, <3>2 DEF AskRobots, TaskState
    <3>3. CASE RobotsAnswer(t)
      BY <1>1, <3>3 DEF RobotsAnswer, TaskState
    <3>4. CASE PageAnswer(t)
      BY <1>1, <3>4 DEF PageAnswer, TaskState
    <3>5. CASE Panic(t)
      BY <1>1, <3>5 DEF Panic, Idle
    <3> QED
      BY <1>6, <3>1, <3>2, <3>3, <3>4, <3>5 DEF Visit
  <2> QED
    BY <2>1, <2>2, <2>3, <1>2
<1>7. CASE TimePasses
  <2>1. \A t \in Tasks : task'[t].stage = task[t].stage /\ task'[t].url = task[t].url
    BY <1>1, <1>7 DEF TimePasses, TaskState
  <2> QED
    BY <2>1, <1>2, <1>7 DEF TimePasses
<1>8. AwaitTask \/ Sleep \/ Wake \/ Exhausted \/ UNCHANGED vars => UNCHANGED <<frontierVars, task>>
  BY DEF AwaitTask, Sleep, Wake, Exhausted, vars
<1> QED
  BY <1>3, <1>4, <1>5, <1>6, <1>7, <1>8 DEF Next, Loop, Over

\* The invariant of the crawl, with the URLs of its visits handed out.
LEMMA RefinementInvariant == Spec => []RefinementInv
<1>1. Init => VisitsWereHanded
  BY DEF Init, VisitsWereHanded, Running, Idle
<1>2. CrawlerInv /\ VisitsWereHanded /\ [Next]_vars => VisitsWereHanded'
  BY VisitsStayHanded, FrontierAssumption, CrawlerAssumption DEF RefinementInv
<1>3. CrawlerInv /\ VisitsWereHanded <=> RefinementInv
  BY DEF RefinementInv
<1> QED
  BY <1>1, <1>2, <1>3, CrawlerInvariant, PTL DEF Spec

\* Before the crawl every page is unknown and every host free and rested.
LEMMA InitMaps == Init => Abstract!Init
<1> SUFFICES ASSUME Init PROVE Abstract!Init
  OBVIOUS
<1>1. Fate = [k \in PageKeys |-> "unknown"]
  BY DEF Init, FrontierInit, Fate
<1>2. \A h \in Hosts : Requesting(h) = {}
  BY DEF Init, Requesting, Idle
<1>3. Busy = [h \in Hosts |-> FALSE]
  BY <1>2, Zenon DEF Busy
<1> QED
  BY <1>1, <1>3 DEF Init, FrontierInit, Abstract!Init

\* Every step of the crawl is one of a polite crawl, or not noticed there.
LEMMA NextMaps ==
  RefinementInv /\ RefinementInv' /\ [Next]_vars => [Abstract!Next]_(Abstract!vars)
<1> SUFFICES ASSUME RefinementInv, RefinementInv', [Next]_vars
             PROVE  [Abstract!Next]_(Abstract!vars)
  OBVIOUS
<1> USE FrontierAssumption, CrawlerAssumption
<1>1. CASE PushSeeds
  BY <1>1, PushSeedsMaps
<1>2. ASSUME NEW t \in Tasks, NEW h \in Hosts, Dispatch(t, h) PROVE Abstract!Next
  BY <1>2, DispatchMaps
<1>3. ASSUME NEW t \in Tasks, Join(t) PROVE Abstract!Next
  BY <1>3, JoinMaps
<1>4. ASSUME NEW t \in Tasks, Visit(t) \/ Panic(t) PROVE [Abstract!Next]_(Abstract!vars)
  BY <1>4, TaskMaps
<1>5. CASE TimePasses
  BY <1>5, TimeMaps
<1>6. CASE AwaitTask \/ Sleep \/ Wake \/ Exhausted \/ UNCHANGED vars
  BY <1>6, UnnoticedMaps DEF AwaitTask, Sleep, Wake, Exhausted, vars, histories
<1> QED
  BY <1>1, <1>2, <1>3, <1>4, <1>5, <1>6 DEF Next, Loop, Over

\* The crawler implements a polite crawl: no page is visited twice, a host has
\* one visit at a time and is left in peace for the configured delay between
\* requests, and once off limits it is not visited again, whatever the sites
\* answer, in whatever order, and whichever tasks panic or are aborted.
THEOREM CrawlImplementsPoliteCrawl == Spec => ImplementsPoliteCrawl
BY RefinementInvariant, InitMaps, NextMaps, PTL DEF Spec, ImplementsPoliteCrawl, Abstract!Spec
=============================================================================
