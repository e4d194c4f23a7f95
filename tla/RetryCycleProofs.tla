-------------------------- MODULE RetryCycleProofs --------------------------
(* Theorems about RetryCycle, for every value of its constants: any number *)
(* of messages, of retries, and any limits on the queues.                  *)
EXTENDS RetryCycle, SequenceLemmas

\* No message is in a sequence twice.
Once(s) == \A i, j \in DOMAIN s : s[i] = s[j] => i = j

\* A message is in one queue or with the consumer, and only while it lives.
Placed(Q, h, f) ==
    /\ \A q \in Names : Once(Q[q]) /\ h \notin Range(Q[q])
    /\ \A p, q \in Names : p # q => Range(Q[p]) \cap Range(Q[q]) = {}
    /\ \A m \in Msgs :
          m = h \/ (\E q \in Names : m \in Range(Q[q])) => f[m] = "live"

PlacedInv == Placed(queue, hand, fate)

\* The headers of messages: published and not seen by a handler yet,
Unread(m) == deaths[m] = <<>> /\ from[m] = Published /\ returns[m] = 0

Rejection(e) == e.queue = "main" /\ e.reason = "rejected" /\ e.from = Published
Expiry(m, e) == e.queue = "retry" /\ e.reason = "expired" /\ e.count = returns[m]

\* back from the retry queue,
Back(m) == /\ Len(deaths[m]) = 2
           /\ Expiry(m, deaths[m][1]) /\ Rejection(deaths[m][2])

\* sent to the retry queue by a handler, for the first time or once more,
Rejected(m) ==
    \/ Len(deaths[m]) = 1 /\ Rejection(deaths[m][1]) /\ returns[m] = 0
    \/ /\ Len(deaths[m]) = 2
       /\ Rejection(deaths[m][1]) /\ Expiry(m, deaths[m][2])

\* or sent there because the main queue was full.
Pushed(m) == /\ Len(deaths[m]) = 1 /\ deaths[m][1].queue = "main"
             /\ deaths[m][1].reason = "maxlen" /\ m \in overflowed

\* What the place of a message says about its header, and the header about
\* what happened to the message.
Fits(m) ==
    /\ m \in Range(queue["main"]) \/ m = hand =>
          (Unread(m) \/ Back(m)) /\ (def.retry => runs[m] = returns[m])
    /\ m \in Range(queue["retry"]) =>
          /\ def.retry
          /\ Pushed(m) \/ (Rejected(m) /\ runs[m] = returns[m] + 1)
    /\ fate[m] = "new" => Unread(m) /\ runs[m] = 0
    /\ def.retry => runs[m] <= Retries
    /\ def.dlq /\ fate[m] \in {"skipped", "dropped"} => m \in overflowed

HeaderInv == def.dlqLimit = 0 => \A m \in Msgs : Fits(m)

CycleInv == TypeOK /\ PlacedInv /\ HeaderInv

-----------------------------------------------------------------------------
(* Queues.                                                                 *)

\* A message at the end of a queue.
LEMMA AppendRange ==
    ASSUME NEW s \in Seq(Msgs), NEW m \in Msgs
    PROVE  /\ Append(s, m) \in Seq(Msgs)
           /\ Range(Append(s, m)) = Range(s) \cup {m}
           /\ Once(s) /\ m \notin Range(s) => Once(Append(s, m))
<1>1. /\ Append(s, m) \in Seq(Msgs) /\ Len(Append(s, m)) = Len(s) + 1
      /\ \A i \in 1..Len(s) : Append(s, m)[i] = s[i]
      /\ Append(s, m)[Len(s) + 1] = m
  BY AppendProperties
<1>2. /\ Len(s) \in Nat /\ DOMAIN s = 1..Len(s)
      /\ DOMAIN Append(s, m) = 1..Len(s) + 1
  BY <1>1
<1> DEFINE t == Append(s, m)
<1> HIDE DEF t
<1>3. Range(t) = Range(s) \cup {m}
  <2>1. ASSUME NEW x \in Range(t) PROVE x \in Range(s) \cup {m}
    <3>1. PICK i \in 1..Len(s) + 1 : x = t[i]
      BY <1>2 DEF Range, t
    <3>2. i \in 1..Len(s) \/ i = Len(s) + 1
      BY <1>2
    <3> QED BY <3>1, <3>2, <1>1, <1>2 DEF Range, t
  <2>2. ASSUME NEW x \in Range(s) PROVE x \in Range(t)
    <3>1. PICK i \in 1..Len(s) : x = s[i]
      BY <1>2 DEF Range
    <3>2. x = t[i] /\ i \in DOMAIN t
      BY <3>1, <1>1, <1>2 DEF t
    <3> QED BY <3>2 DEF Range
  <2>3. m \in Range(t)
    <3>1. m = t[Len(s) + 1] /\ Len(s) + 1 \in DOMAIN t
      BY <1>1, <1>2 DEF t
    <3> QED BY <3>1 DEF Range
  <2> QED BY <2>1, <2>2, <2>3
<1>4. ASSUME Once(s), m \notin Range(s) PROVE Once(t)
  <2> SUFFICES ASSUME NEW i \in 1..Len(s) + 1, NEW j \in 1..Len(s) + 1, t[i] = t[j]
               PROVE  i = j
    BY <1>2 DEF Once, t
  <2>1. \A k \in 1..Len(s) : t[k] = s[k] /\ s[k] # m
    BY <1>1, <1>2, <1>4 DEF Range, t
  <2>2. \A k \in 1..Len(s) + 1 : k \in 1..Len(s) \/ k = Len(s) + 1
    BY <1>2
  <2>3. t[Len(s) + 1] = m
    BY <1>1 DEF t
  <2> QED BY <2>1, <2>2, <2>3, <1>2, <1>4 DEF Once
<1> QED BY <1>1, <1>3, <1>4 DEF t

\* The first message of a queue, and the others.
LEMMA TailRange ==
    ASSUME NEW s \in Seq(Msgs), s # <<>>
    PROVE  /\ Head(s) \in Msgs /\ Head(s) \in Range(s)
           /\ Tail(s) \in Seq(Msgs) /\ Range(Tail(s)) \subseteq Range(s)
           /\ Once(s) => Once(Tail(s)) /\ Head(s) \notin Range(Tail(s))
<1>1. /\ Head(s) = s[1] /\ Head(s) \in Msgs /\ Tail(s) \in Seq(Msgs)
      /\ Len(Tail(s)) = Len(s) - 1
      /\ \A i \in 1..Len(Tail(s)) : Tail(s)[i] = s[i + 1]
  BY HeadTailProperties
<1>2. /\ Len(s) \in Nat \ {0} /\ DOMAIN s = 1..Len(s)
      /\ DOMAIN Tail(s) = 1..Len(s) - 1
  BY <1>1, EmptySeq
<1> DEFINE t == Tail(s)
<1> HIDE DEF t
<1>3. \A i \in 1..Len(s) - 1 : t[i] = s[i + 1] /\ i + 1 \in 1..Len(s)
  BY <1>1, <1>2 DEF t
<1>4. Head(s) \in Range(s)
  <2>1. 1 \in DOMAIN s
    BY <1>2
  <2> QED BY <2>1, <1>1 DEF Range
<1>5. Range(t) \subseteq Range(s)
  BY <1>2, <1>3 DEF Range, t
<1>6. ASSUME Once(s) PROVE Once(t) /\ Head(s) \notin Range(t)
  <2>1. ASSUME NEW i \in 1..Len(s) - 1, NEW j \in 1..Len(s) - 1, t[i] = t[j]
        PROVE  i = j
    <3>1. i + 1 = j + 1
      BY <1>2, <1>3, <1>6, <2>1 DEF Once
    <3> QED BY <3>1
  <2>2. ASSUME NEW i \in 1..Len(s) - 1, t[i] = s[1] PROVE FALSE
    <3>1. i + 1 = 1
      BY <1>2, <1>3, <1>6, <2>2 DEF Once
    <3> QED BY <3>1, <1>2
  <2> QED BY <1>1, <1>2, <2>1, <2>2 DEF Once, Range, t
<1> QED BY <1>1, <1>4, <1>5, <1>6 DEF t

\* A message m that is nowhere in the queues Q is put at the end of queue n.
Put(m, n, Q, R, h, f) ==
    /\ m \in Msgs /\ n \in Names /\ m # h /\ f[m] = "live"
    /\ Q \in [Names -> Seq(Msgs)] /\ R \in [Names -> Seq(Msgs)]
    /\ \A q \in Names : m \notin Range(Q[q])
    /\ R[n] = Append(Q[n], m) /\ \A q \in Names \ {n} : R[q] = Q[q]

\* Then every message is still in one place.
LEMMA PutPlaced ==
    ASSUME NEW m, NEW n, NEW Q, NEW R, NEW h, NEW f,
           Put(m, n, Q, R, h, f), Placed(Q, h, f)
    PROVE  Placed(R, h, f) /\ Range(R[n]) = Range(Q[n]) \cup {m}
<1> USE DEF Put
<1>1. /\ Append(Q[n], m) \in Seq(Msgs) /\ Once(Append(Q[n], m))
      /\ Range(Append(Q[n], m)) = Range(Q[n]) \cup {m}
  BY AppendRange DEF Placed
<1>2. \A q \in Names : /\ Once(R[q])
                       /\ Range(R[q]) = Range(Q[q]) \cup (IF q = n THEN {m} ELSE {})
  BY <1>1 DEF Placed
<1> PICK T : T = [q \in Names |-> Range(Q[q])]
  OBVIOUS
<1>3. \A q \in Names : Range(R[q]) = T[q] \cup (IF q = n THEN {m} ELSE {})
  BY <1>2
<1>4. /\ \A q \in Names : h \notin T[q] /\ m \notin T[q]
      /\ \A p, q \in Names : p # q => T[p] \cap T[q] = {}
      /\ \A x \in Msgs : x = h \/ (\E q \in Names : x \in T[q]) => f[x] = "live"
  BY DEF Placed
<1>5. \A q \in Names : h \notin Range(R[q])
  BY <1>3, <1>4
<1>6. \A p, q \in Names : p # q => Range(R[p]) \cap Range(R[q]) = {}
  <2> SUFFICES ASSUME NEW p \in Names, NEW q \in Names, p # q,
                      NEW x \in Range(R[p]), x \in Range(R[q])
               PROVE  FALSE
    OBVIOUS
  <2>1. x \in T[p] \/ (p = n /\ x = m)
    BY <1>3
  <2>2. x \in T[q] \/ (q = n /\ x = m)
    BY <1>3
  <2> QED BY <2>1, <2>2, <1>4
<1>7. \A x \in Msgs :
          x = h \/ (\E q \in Names : x \in Range(R[q])) => f[x] = "live"
  BY <1>3, <1>4
<1>8. Placed(R, h, f)
  BY <1>2, <1>5, <1>6, <1>7 DEF Placed
<1> QED BY <1>1, <1>8

\* m is nowhere in the queues Q.
Nowhere(m, Q, h, f) ==
    /\ m \in Msgs /\ Q \in [Names -> Seq(Msgs)] /\ Placed(Q, h, f)
    /\ m # h /\ f[m] = "live" /\ \A n \in Names : m \notin Range(Q[n])

\* The queues R hold no more than the queues Q.
Fewer(Q, R) == \A q \in Names : Range(R[q]) \subseteq Range(Q[q])

\* The first message m of queue n is taken out.
Took(m, n, Q, R) ==
    /\ Q \in [Names -> Seq(Msgs)] /\ n \in Names /\ Q[n] # <<>>
    /\ m = Head(Q[n]) /\ R = [Q EXCEPT ![n] = Tail(@)]

\* Then it is nowhere, and the others are where they were.
LEMMA PopPlaced ==
    ASSUME NEW m, NEW n, NEW Q, NEW R, NEW h, NEW f,
           Took(m, n, Q, R), Placed(Q, h, f)
    PROVE  Nowhere(m, R, h, f) /\ Fewer(Q, R) /\ m \in Range(Q[n])
<1>t. Q \in [Names -> Seq(Msgs)] /\ n \in Names /\ Q[n] # <<>> /\ m = Head(Q[n])
  BY DEF Took
<1>1. /\ m \in Msgs /\ m \in Range(Q[n]) /\ Tail(Q[n]) \in Seq(Msgs)
      /\ Range(Tail(Q[n])) \subseteq Range(Q[n]) /\ Once(Tail(Q[n]))
      /\ m \notin Range(Tail(Q[n]))
  BY <1>t, TailRange DEF Placed
<1>2. /\ R \in [Names -> Seq(Msgs)] /\ R[n] = Tail(Q[n])
      /\ \A q \in Names \ {n} : R[q] = Q[q]
  BY <1>1, <1>t DEF Took
<1>3. \A q \in Names : /\ Once(R[q]) /\ Range(R[q]) \subseteq Range(Q[q])
                       /\ m \notin Range(R[q])
  BY <1>1, <1>2, <1>t DEF Placed
<1>4. m # h /\ f[m] = "live"
  BY <1>1, <1>t DEF Placed
<1>5. Placed(R, h, f)
  BY <1>3 DEF Placed
<1> QED BY <1>1, <1>2, <1>3, <1>4, <1>5 DEF Fewer, Nowhere

\* The consumer is done with its message: then it is nowhere.
LEMMA FreePlaced ==
    ASSUME NEW Q \in [Names -> Seq(Msgs)], NEW h \in Msgs, NEW f, Placed(Q, h, f)
    PROVE  /\ Placed(Q, None, f) /\ h # None /\ f[h] = "live"
           /\ \A q \in Names : h \notin Range(Q[q])
<1>1. \A q \in Names : None \notin Range(Q[q])
  <2> SUFFICES ASSUME NEW q \in Names PROVE None \notin Range(Q[q])
    OBVIOUS
  <2>1. \A i \in DOMAIN Q[q] : Q[q][i] \in Msgs
    OBVIOUS
  <2> QED BY <2>1, NamesAssumption DEF Range
<1> QED BY <1>1, NamesAssumption DEF Placed

\* The fate of a message that is nowhere is its own.
LEMMA GonePlaced ==
    ASSUME NEW Q, NEW h, NEW f, NEW g, NEW m, Placed(Q, h, f), m # h,
           \A q \in Names : m \notin Range(Q[q]),
           \A x \in Msgs \ {m} : g[x] = f[x]
    PROVE  Placed(Q, h, g)
BY DEF Placed

-----------------------------------------------------------------------------
(* Headers.                                                                *)

\* Counting stops at MaxCount.
LEMMA CappedFacts ==
    ASSUME NEW n \in 0..MaxCount
    PROVE  /\ Capped(n) \in 1..MaxCount
           /\ n < MaxCount => Capped(n) = n + 1
BY CountsAssumption DEF Capped

\* An entry for a first death.
LEMMA FirstEntry ==
    ASSUME NEW q \in Names, NEW reason \in {"rejected", "expired", "maxlen"},
           q = "retry" <=> reason = "expired", reason = "rejected" => q = "main",
           NEW source \in Sources
    PROVE  [queue |-> q, reason |-> reason, count |-> 1, from |-> source]
              \in Entry
<1>1. 1 \in 1..MaxCount
  BY CountsAssumption
<1> QED BY <1>1 DEF Entry

\* An entry that is counted up.
CountedUp(e) == [queue |-> e.queue, reason |-> e.reason,
                 count |-> Capped(e.count), from |-> e.from]

\* An entry that is counted up is an entry.
LEMMA CountedEntry ==
    ASSUME NEW e \in Entry
    PROVE  /\ CountedUp(e) \in Entry
           /\ [e EXCEPT !.count = Capped(@)] = CountedUp(e)
<1>1. e \in [queue : Names, reason : {"rejected", "expired", "maxlen"},
             count : 1..MaxCount, from : Sources]
  BY DEF Entry
<1>2. Capped(e.count) \in 1..MaxCount
  BY <1>1, CountsAssumption DEF Capped
<1>3. [e EXCEPT !.count = Capped(@)] = CountedUp(e)
  BY <1>1 DEF CountedUp
<1>4. /\ e.queue = "retry" <=> e.reason = "expired"
      /\ e.reason = "rejected" => e.queue = "main"
  BY DEF Entry
<1> DEFINE c == Capped(e.count)
<1> HIDE DEF c
<1>5. [queue |-> e.queue, reason |-> e.reason, count |-> c,
       from |-> e.from] \in Entry
  BY <1>1, <1>2, <1>4 DEF Entry, c
<1> QED BY <1>3, <1>5 DEF c, CountedUp

\* An element in front of a sequence.
LEMMA ConsFacts ==
    ASSUME NEW S, NEW s \in Seq(S), NEW e \in S
    PROVE  /\ <<e>> \o s \in Seq(S) /\ Len(<<e>> \o s) = Len(s) + 1
           /\ (<<e>> \o s)[1] = e
           /\ \A i \in 1..Len(s) : (<<e>> \o s)[i + 1] = s[i]
<1>1. <<e>> \in Seq(S) /\ Len(<<e>>) = 1 /\ <<e>>[1] = e
  OBVIOUS
<1> DEFINE a == <<e>>
<1> HIDE DEF a
<1>2. /\ a \o s \in Seq(S) /\ Len(a \o s) = Len(a) + Len(s)
      /\ \A i \in 1..Len(a) + Len(s) :
            (a \o s)[i] = IF i <= Len(a) THEN a[i] ELSE s[i - Len(a)]
  BY <1>1, ConcatProperties DEF a
<1>3. Len(s) \in Nat /\ Len(a) = 1 /\ a[1] = e
  BY <1>1 DEF a
<1>4. (a \o s)[1] = e
  BY <1>2, <1>3
<1>5. ASSUME NEW i \in 1..Len(s) PROVE (a \o s)[i + 1] = s[i]
  <2>1. i + 1 \in 1..Len(a) + Len(s) /\ ~(i + 1 <= Len(a)) /\ i + 1 - Len(a) = i
    BY <1>3
  <2> QED BY <2>1, <1>2
<1>6. Len(a \o s) = Len(s) + 1
  BY <1>2, <1>3
<1> QED BY <1>2, <1>4, <1>5, <1>6 DEF a

\* d is h with its element at place old taken out and e put in front.
Moved(d, h, old, e) ==
    /\ Len(d) = Len(h) /\ d[1] = e
    /\ \A i \in 1..old - 1 : d[i + 1] = h[i]
    /\ \A i \in old..Len(h) - 1 : d[i + 1] = h[i + 1]

\* What Died does to the header of a message that died like this before.
LEMMA MoveFacts ==
    ASSUME NEW S, NEW h \in Seq(S), NEW old \in 1..Len(h), NEW e \in S
    PROVE  /\ <<e>> \o RemoveAt(h, old) \in Seq(S)
           /\ Moved(<<e>> \o RemoveAt(h, old), h, old, e)
<1> PICK r : r = RemoveAt(h, old)
  OBVIOUS
<1>1. Len(h) \in Nat
  OBVIOUS
<1>2. /\ r \in Seq(S) /\ Len(r) = Len(h) - 1
      /\ \A i \in 1..old - 1 : r[i] = h[i]
      /\ \A i \in old..Len(h) - 1 : r[i] = h[i + 1]
  BY RemoveAtFacts
<1>3. /\ <<e>> \o r \in Seq(S) /\ Len(<<e>> \o r) = Len(r) + 1
      /\ (<<e>> \o r)[1] = e
      /\ \A i \in 1..Len(r) : (<<e>> \o r)[i + 1] = r[i]
  BY <1>2, ConsFacts
<1>4. Len(r) + 1 = Len(h)
  BY <1>1, <1>2
<1>5. \A i \in 1..old - 1 : (<<e>> \o r)[i + 1] = h[i]
  <2>1. \A i \in 1..old - 1 : i \in 1..Len(r)
    BY <1>1, <1>2
  <2> QED BY <2>1, <1>2, <1>3
<1>6. \A i \in old..Len(h) - 1 : (<<e>> \o r)[i + 1] = h[i + 1]
  <2>1. \A i \in old..Len(h) - 1 : i \in 1..Len(r)
    BY <1>1, <1>2
  <2> QED BY <2>1, <1>2, <1>3
<1> QED BY <1>3, <1>4, <1>5, <1>6 DEF Moved

\* The header when a message dies in a queue for a new reason.
LEMMA DiedNew ==
    ASSUME NEW m, NEW q \in Names, NEW reason \in {"rejected", "expired", "maxlen"},
           q = "retry" <=> reason = "expired", reason = "rejected" => q = "main",
           deaths[m] \in Seq(Entry), from[m] \in Sources,
           \A i \in 1..Len(deaths[m]) :
              ~(deaths[m][i].queue = q /\ deaths[m][i].reason = reason)
    PROVE  /\ Died(m, q, reason) \in Seq(Entry)
           /\ Len(Died(m, q, reason)) = Len(deaths[m]) + 1
           /\ Died(m, q, reason)[1] =
                 [queue |-> q, reason |-> reason, count |-> 1, from |-> from[m]]
           /\ \A i \in 1..Len(deaths[m]) :
                 Died(m, q, reason)[i + 1] = deaths[m][i]
<1> DEFINE e == [queue |-> q, reason |-> reason, count |-> 1, from |-> from[m]]
<1>1. DOMAIN deaths[m] = 1..Len(deaths[m])
  BY LenProperties, Zenon
<1>2. Died(m, q, reason) = <<e>> \o deaths[m]
  BY <1>1 DEF Died
<1>3. e \in Entry
  BY FirstEntry
<1> HIDE DEF e
<1>4. /\ <<e>> \o deaths[m] \in Seq(Entry)
      /\ Len(<<e>> \o deaths[m]) = Len(deaths[m]) + 1
      /\ (<<e>> \o deaths[m])[1] = e
      /\ \A i \in 1..Len(deaths[m]) : (<<e>> \o deaths[m])[i + 1] = deaths[m][i]
  BY <1>3, ConsFacts
<1> QED BY <1>2, <1>4 DEF e

\* CHOOSE finds a member of a set that has one.
LEMMA ChosenMember ==
    ASSUME NEW S, S # {}
    PROVE  (CHOOSE i \in S : TRUE) \in S
OBVIOUS

\* The header when a message dies as it did before.
LEMMA DiedAgain ==
    ASSUME NEW m, NEW q, NEW reason, deaths[m] \in Seq(Entry),
           NEW h, h = deaths[m], NEW d, d = Died(m, q, reason),
           \E i \in 1..Len(h) : h[i].queue = q /\ h[i].reason = reason
    PROVE  /\ d \in Seq(Entry)
           /\ \E old \in 1..Len(h) :
                 /\ h[old].queue = q /\ h[old].reason = reason
                 /\ Moved(d, h, old, CountedUp(h[old]))
<1> DEFINE same == {i \in DOMAIN h : h[i].queue = q /\ h[i].reason = reason}
<1>1. h \in Seq(Entry) /\ DOMAIN h = 1..Len(h) /\ Len(h) \in Nat
  OBVIOUS
<1>2. same # {}
  BY <1>1
<1> PICK old : old = CHOOSE i \in same : TRUE
  OBVIOUS
<1>3. old \in 1..Len(h) /\ h[old].queue = q /\ h[old].reason = reason
  <2>1. old \in same
    <3> HIDE DEF same
    <3> QED BY <1>2, ChosenMember, Zenon
  <2> QED BY <1>1, <2>1
<1>4. d = <<[h[old] EXCEPT !.count = Capped(@)]>> \o RemoveAt(h, old)
  BY <1>2 DEF Died
<1> HIDE DEF same
<1>5. h[old] \in Entry
  BY <1>1, <1>3
<1>6. CountedUp(h[old]) \in Entry /\ d = <<CountedUp(h[old])>> \o RemoveAt(h, old)
  BY <1>4, <1>5, CountedEntry
<1>8. d \in Seq(Entry) /\ Moved(d, h, old, CountedUp(h[old]))
  BY <1>1, <1>3, <1>6, MoveFacts
<1> QED BY <1>3, <1>8

\* The header of a message that dies is a header.
LEMMA DiedType ==
    ASSUME TypeOK, NEW m \in Msgs,
           NEW q \in Names, NEW reason \in {"rejected", "expired", "maxlen"},
           q = "retry" <=> reason = "expired", reason = "rejected" => q = "main"
    PROVE  Died(m, q, reason) \in Seq(Entry)
<1> PICK h, d : h = deaths[m] /\ d = Died(m, q, reason)
  OBVIOUS
<1>1. h \in Seq(Entry) /\ from[m] \in Sources
  BY DEF TypeOK
<1>2. CASE \E i \in 1..Len(h) : h[i].queue = q /\ h[i].reason = reason
  BY <1>1, <1>2, DiedAgain
<1>3. CASE ~ \E i \in 1..Len(h) : h[i].queue = q /\ h[i].reason = reason
  <2>1. \A i \in 1..Len(deaths[m]) :
            ~(deaths[m][i].queue = q /\ deaths[m][i].reason = reason)
    BY <1>3
  <2> QED BY <1>1, <2>1, DiedNew
<1> QED BY <1>2, <1>3

\* The header of a message that died in two ways, when it dies in the way of
\* the older entry.
LEMMA DiedInTurn ==
    ASSUME NEW m, NEW q, NEW reason, deaths[m] \in Seq(Entry),
           NEW h, h = deaths[m], NEW d, d = Died(m, q, reason), Len(h) = 2,
           h[2].queue = q, h[2].reason = reason,
           ~(h[1].queue = q /\ h[1].reason = reason)
    PROVE  Len(d) = 2 /\ d[1] = CountedUp(h[2]) /\ d[2] = h[1]
<1>1. PICK old \in 1..Len(h) : /\ h[old].queue = q /\ h[old].reason = reason
                               /\ Moved(d, h, old, CountedUp(h[old]))
  BY DiedAgain
<1>2. old = 2
  <2>1. old \in {1, 2}
    OBVIOUS
  <2> QED BY <2>1, <1>1
<1>3. Len(d) = 2 /\ d[1] = CountedUp(h[2])
  BY <1>1, <1>2 DEF Moved
<1>4. \A i \in 1..old - 1 : d[i + 1] = h[i]
  BY <1>1 DEF Moved
<1>5. 1 \in 1..old - 1 /\ 1 + 1 = 2
  BY <1>2
<1>6. d[2] = h[1]
  BY <1>4, <1>5
<1> QED BY <1>3, <1>6

-----------------------------------------------------------------------------
(* Types.                                                                  *)

\* What is declared.
LEMMA DeclaredFacts ==
    ASSUME TypeOK
    PROVE  /\ def \in DefinitionType /\ def.limit \in Nat /\ def.dlqLimit \in Nat
           /\ \A q : Target(q) \in Names \cup {None}
           /\ ~Overfull("retry")
<1>1. def \in DefinitionType
  BY DefinitionsAssumption DEF TypeOK
<1>2. \A q : Target(q) \in Names \cup {None}
  BY DEF Target, FailTarget, Names
<1>3. ~Overfull("retry")
  BY DEF Overfull, Limit
<1> QED BY <1>1, <1>2, <1>3 DEF DefinitionType

\* A message that dies.
LEMMA DeadLetterTypes ==
    ASSUME TypeOK, NEW m \in Msgs,
           NEW q \in Names, NEW reason \in {"rejected", "expired", "maxlen"},
           q = "retry" <=> reason = "expired", reason = "rejected" => q = "main",
           NEW rest \in [Names -> Seq(Msgs)], DeadLetter(m, q, reason, rest)
    PROVE  /\ queue' \in [Names -> Seq(Msgs)] /\ deaths' \in [Msgs -> Seq(Entry)]
           /\ from' \in [Msgs -> Sources]
           /\ fate' \in [Msgs -> {"new", "live", "taken", "skipped", "dropped"}]
<1>1. PICK d : d = Died(m, q, reason)
  OBVIOUS
<1>2. d \in Seq(Entry)
  BY <1>1, DiedType
<1>3. CASE /\ queue' = rest /\ UNCHANGED <<deaths, from>>
           /\ fate' = [fate EXCEPT ![m] = "dropped"]
  BY <1>3 DEF TypeOK
<1>4. CASE /\ Target(q) # None /\ queue' = [rest EXCEPT ![Target(q)] = Append(@, m)]
           /\ deaths' = [deaths EXCEPT ![m] = d]
           /\ from' = [from EXCEPT ![m] = Target(q)] /\ UNCHANGED fate
  <2> PICK t : t = Target(q)
    OBVIOUS
  <2>1. t \in Names
    BY <1>4, DeclaredFacts
  <2>2. Append(rest[t], m) \in Seq(Msgs)
    BY <2>1, AppendProperties
  <2>3. queue' \in [Names -> Seq(Msgs)]
    BY <1>4, <2>1, <2>2
  <2>4. deaths' \in [Msgs -> Seq(Entry)]
    BY <1>2, <1>4 DEF TypeOK
  <2>5. from' \in [Msgs -> Sources]
    BY <1>4, <2>1 DEF TypeOK, Sources
  <2> QED BY <1>4, <2>3, <2>4, <2>5 DEF TypeOK
<1> QED BY <1>1, <1>3, <1>4 DEF DeadLetter

\* A message that is taken out of a queue.
LEMMA PoppedTypes ==
    ASSUME TypeOK, NEW q \in Names, queue[q] # <<>>
    PROVE  Head(queue[q]) \in Msgs /\ Popped(q) \in [Names -> Seq(Msgs)]
<1>1. queue[q] \in Seq(Msgs)
  BY DEF TypeOK
<1>2. Head(queue[q]) \in Msgs /\ Tail(queue[q]) \in Seq(Msgs)
  BY <1>1, HeadTailProperties
<1> QED BY <1>2 DEF Popped, TypeOK

\* A queue that is over its limit is not empty.
LEMMA OverfullFacts ==
    ASSUME TypeOK, NEW q \in Names, Overfull(q)
    PROVE  queue[q] # <<>> /\ q # "retry" /\ Limit(q) > 0
<1>1. q # "retry" /\ Limit(q) > 0
  BY DeclaredFacts DEF Overfull
<1>2. Limit(q) \in Nat
  BY DeclaredFacts DEF Limit, MainLimit, Names
<1>3. queue[q] = <<>> => Len(queue[q]) = 0
  OBVIOUS
<1> QED BY <1>1, <1>2, <1>3 DEF Overfull

\* A message that is published to the DLQ, or dropped.
LEMMA ToDlqTypes ==
    ASSUME TypeOK, NEW m \in Msgs, ToDlq(m)
    PROVE  /\ queue' \in [Names -> Seq(Msgs)] /\ deaths' \in [Msgs -> Seq(Entry)]
           /\ from' \in [Msgs -> Sources]
           /\ fate' \in [Msgs -> {"new", "live", "taken", "skipped", "dropped"}]
<1>1. CASE Leave(m, "dropped")
  BY <1>1 DEF Leave, TypeOK
<1>2. CASE /\ queue' = [queue EXCEPT !["dlq"] = Append(@, m)]
           /\ from' = [from EXCEPT ![m] = "dlq"]
           /\ deaths' = IF Trusted THEN deaths ELSE [deaths EXCEPT ![m] = <<>>]
           /\ UNCHANGED fate
  <2>1. Append(queue["dlq"], m) \in Seq(Msgs) /\ "dlq" \in Names
    BY AppendProperties DEF TypeOK, Names
  <2>2. queue' \in [Names -> Seq(Msgs)]
    BY <1>2, <2>1 DEF TypeOK
  <2>3. from' \in [Msgs -> Sources]
    BY <1>2, <2>1 DEF TypeOK, Sources
  <2>4. <<>> \in Seq(Entry)
    OBVIOUS
  <2>5. deaths' \in [Msgs -> Seq(Entry)]
    BY <1>2, <2>4 DEF TypeOK
  <2> QED BY <1>2, <2>2, <2>3, <2>5 DEF TypeOK
<1> QED BY <1>1, <1>2 DEF ToDlq

\* Nothing is published at first.
LEMMA TypeInit == Init => TypeOK
<1> SUFFICES ASSUME Init PROVE TypeOK
  OBVIOUS
<1>1. <<>> \in Seq(Msgs) /\ <<>> \in Seq(Entry) /\ 0 \in 0..MaxCount
  BY CountsAssumption
<1>2. Published \in Sources
  BY DEF Sources
<1> QED BY <1>1, <1>2 DEF Init, TypeOK

\* Every step keeps the types.
LEMMA TypeStep == TypeOK /\ [Next]_vars => TypeOK'
<1> SUFFICES ASSUME TypeOK, [Next]_vars PROVE TypeOK'
  OBVIOUS
<1>m. "main" \in Names /\ "retry" \in Names
  BY DEF Names
<1>1. CASE UNCHANGED vars
  BY <1>1 DEF vars, TypeOK, Entry, Sources
<1>2. ASSUME NEW m \in Msgs, Publish(m) PROVE TypeOK'
  <2>1. Append(queue["main"], m) \in Seq(Msgs)
    BY <1>m, AppendProperties DEF TypeOK
  <2> QED BY <1>2, <1>m, <2>1 DEF Publish, TypeOK
<1>3. ASSUME NEW q \in Names, Overflow(q) PROVE TypeOK'
  <2>1. /\ queue[q] # <<>> /\ q # "retry" /\ Head(queue[q]) \in Msgs
        /\ Popped(q) \in [Names -> Seq(Msgs)]
    BY <1>3, OverfullFacts, PoppedTypes DEF Overflow
  <2>2. DeadLetter(Head(queue[q]), q, "maxlen", Popped(q))
    BY <1>3 DEF Overflow
  <2>3. /\ queue' \in [Names -> Seq(Msgs)] /\ deaths' \in [Msgs -> Seq(Entry)]
        /\ from' \in [Msgs -> Sources]
        /\ fate' \in [Msgs -> {"new", "live", "taken", "skipped", "dropped"}]
    BY <2>1, <2>2, DeadLetterTypes
  <2> QED BY <1>3, <2>1, <2>3 DEF Overflow, TypeOK
<1>4. CASE Expire
  <2> PICK m : m = Head(queue["retry"])
    OBVIOUS
  <2>1. /\ DeadLetter(m, "retry", "expired", Popped("retry"))
        /\ returns' = [returns EXCEPT ![m] = Capped(@)]
        /\ UNCHANGED <<def, hand, runs, overflowed>>
    BY <1>4 DEF Expire
  <2>2. m \in Msgs /\ Popped("retry") \in [Names -> Seq(Msgs)]
    BY <1>4, <1>m, PoppedTypes DEF Expire
  <2>3. /\ queue' \in [Names -> Seq(Msgs)] /\ deaths' \in [Msgs -> Seq(Entry)]
        /\ from' \in [Msgs -> Sources]
        /\ fate' \in [Msgs -> {"new", "live", "taken", "skipped", "dropped"}]
    BY <1>m, <2>1, <2>2, DeadLetterTypes
  <2>4. Capped(returns[m]) \in 0..MaxCount
    <3>1. returns[m] \in 0..MaxCount
      BY <2>2 DEF TypeOK
    <3>2. Capped(returns[m]) \in 1..MaxCount
      BY <3>1, CappedFacts
    <3> QED BY <3>2
  <2>5. returns' \in [Msgs -> 0..MaxCount]
    BY <2>1, <2>4 DEF TypeOK
  <2> QED BY <2>1, <2>3, <2>5 DEF TypeOK
<1>5. CASE Deliver
  BY <1>5, <1>m, PoppedTypes DEF Deliver, TypeOK
<1>6. CASE Discard
  BY <1>6 DEF Discard, Leave, TypeOK
<1>7. CASE GiveUpRetrying
  <2>1. hand \in Msgs
    BY <1>7 DEF GiveUpRetrying, TypeOK
  <2> QED BY <1>7, <2>1, ToDlqTypes DEF GiveUpRetrying, TypeOK
<1>8. ASSUME NEW result \in {"ok", "retryable", "error"}, Handle(result)
      PROVE  TypeOK'
  <2>1. hand \in Msgs /\ Capped(runs[hand]) \in 0..MaxCount
    <3>1. hand \in Msgs /\ runs[hand] \in 0..MaxCount
      BY <1>8 DEF Handle, TypeOK
    <3>2. Capped(runs[hand]) \in 1..MaxCount
      BY <3>1, CappedFacts
    <3> QED BY <3>1, <3>2
  <2>2. /\ queue' \in [Names -> Seq(Msgs)] /\ deaths' \in [Msgs -> Seq(Entry)]
        /\ from' \in [Msgs -> Sources]
        /\ fate' \in [Msgs -> {"new", "live", "taken", "skipped", "dropped"}]
    <3>1. CASE Leave(hand, "taken")
      BY <3>1, <2>1 DEF Leave, TypeOK
    <3>2. CASE DeadLetter(hand, "main", "rejected", queue)
      <4>1. queue \in [Names -> Seq(Msgs)]
        BY DEF TypeOK
      <4> QED BY <3>2, <4>1, <2>1, <1>m, DeadLetterTypes
    <3>3. CASE ToDlq(hand)
      BY <3>3, <2>1, ToDlqTypes
    <3> QED BY <1>8, <3>1, <3>2, <3>3 DEF Handle
  <2>3. runs' \in [Msgs -> 0..MaxCount]
    BY <1>8, <2>1 DEF Handle, TypeOK
  <2> QED BY <1>8, <2>2, <2>3 DEF Handle, TypeOK
<1> QED BY <1>1, <1>2, <1>3, <1>4, <1>5, <1>6, <1>7, <1>8
        DEF Next, Broker, Dispatcher

-----------------------------------------------------------------------------
(* The way of a message through the queues.                                *)

\* A message whose header and fate stay fits where it was, or anywhere else.
LEMMA FitsKept ==
    ASSUME NEW x \in Msgs, Fits(x), def' = def, deaths'[x] = deaths[x],
           from'[x] = from[x], returns'[x] = returns[x], runs'[x] = runs[x],
           fate'[x] = fate[x], overflowed \subseteq overflowed',
           x \in Range(queue'["main"]) \/ x = hand' =>
              x \in Range(queue["main"]) \/ x = hand,
           x \in Range(queue'["retry"]) => x \in Range(queue["retry"])
    PROVE  Fits(x)'
<1>1. Unread(x)' <=> Unread(x)
  BY DEF Unread
<1>2. Back(x)' <=> Back(x)
  BY DEF Back, Expiry, Rejection
<1>3. Rejected(x)' <=> Rejected(x)
  BY DEF Rejected, Expiry, Rejection
<1>4. Pushed(x) => Pushed(x)'
  BY DEF Pushed
<1> QED BY <1>1, <1>2, <1>3, <1>4 DEF Fits

\* A message that left the queues for good.
LEMMA FitsGone ==
    ASSUME NEW m \in Msgs, Fits(m), def' = def, fate'[m] # "new",
           def.retry => runs'[m] <= Retries,
           def.dlq /\ fate'[m] \in {"skipped", "dropped"} => m \in overflowed',
           m # hand', m \notin Range(queue'["main"]),
           m \notin Range(queue'["retry"])
    PROVE  Fits(m)'
BY DEF Fits

\* A step that moves m only, which was nowhere in the queues Q.
MovesOnly(m, Q, h) ==
    /\ Placed(queue', h, fate')
    /\ \A x \in Msgs \ {m} : /\ deaths'[x] = deaths[x]
                             /\ from'[x] = from[x] /\ fate'[x] = fate[x]
    /\ \A n \in Names : Range(queue'[n]) \subseteq Range(Q[n]) \cup {m}

\* m dies in q and is dropped, or is sent on.
IsDropped(m, q, reason) ==
    /\ Target(q) = None \/ Cycle(Died(m, q, reason), Target(q))
    /\ fate'[m] = "dropped" /\ \A n \in Names : m \notin Range(queue'[n])

IsSentOn(m, q, reason) ==
    /\ Target(q) \in Names /\ ~Cycle(Died(m, q, reason), Target(q))
    /\ fate'[m] = "live" /\ deaths'[m] = Died(m, q, reason)
    /\ \A n \in Names : m \in Range(queue'[n]) => n = Target(q)

\* Where a message goes that dies.
LEMMA DeadLetterMoves ==
    ASSUME TypeOK, NEW m, NEW q, NEW reason, NEW rest, NEW h,
           Nowhere(m, rest, h, fate), DeadLetter(m, q, reason, rest)
    PROVE  /\ MovesOnly(m, rest, h)
           /\ IsDropped(m, q, reason) \/ IsSentOn(m, q, reason)
<1>w. /\ m \in Msgs /\ rest \in [Names -> Seq(Msgs)] /\ Placed(rest, h, fate)
      /\ m # h /\ fate[m] = "live" /\ \A n \in Names : m \notin Range(rest[n])
  BY DEF Nowhere
<1>p. PICK d, t : d = Died(m, q, reason) /\ t = Target(q)
  OBVIOUS
<1>1. CASE /\ t = None \/ Cycle(d, t)
           /\ fate' = [fate EXCEPT ![m] = "dropped"]
           /\ queue' = rest /\ UNCHANGED <<deaths, from>>
  <2>1. fate'[m] = "dropped" /\ \A x \in Msgs \ {m} : fate'[x] = fate[x]
    BY <1>1, <1>w DEF TypeOK
  <2>2. Placed(queue', h, fate')
    BY <1>1, <1>w, <2>1, GonePlaced
  <2>3. MovesOnly(m, rest, h)
    BY <1>1, <2>1, <2>2 DEF MovesOnly
  <2>4. IsDropped(m, q, reason)
    BY <1>p, <1>1, <1>w, <2>1 DEF IsDropped
  <2> QED BY <2>3, <2>4
<1>2. CASE /\ t # None /\ ~Cycle(d, t)
           /\ queue' = [rest EXCEPT ![t] = Append(@, m)]
           /\ deaths' = [deaths EXCEPT ![m] = d]
           /\ from' = [from EXCEPT ![m] = t] /\ UNCHANGED fate
  <2>1. t \in Names
    BY <1>p, <1>2, DeclaredFacts
  <2>3. Put(m, t, rest, queue', h, fate)
    <3>1. Append(rest[t], m) \in Seq(Msgs)
      BY <1>w, <2>1, AppendProperties
    <3> QED BY <1>2, <1>w, <2>1, <3>1 DEF Put
  <2>2. Placed(queue', h, fate) /\ Range(queue'[t]) = Range(rest[t]) \cup {m}
    BY <1>w, <2>3, PutPlaced
  <2>4. fate' = fate
    BY <1>2
  <2>5. \A x \in Msgs \ {m} : deaths'[x] = deaths[x] /\ from'[x] = from[x]
    BY <1>2 DEF TypeOK
  <2>6. deaths'[m] = d
    BY <1>2, <1>w DEF TypeOK
  <2>7. \A n \in Names : /\ Range(queue'[n]) \subseteq Range(rest[n]) \cup {m}
                         /\ m \in Range(queue'[n]) => n = t
    BY <1>w, <2>2, <2>3 DEF Put
  <2>8. MovesOnly(m, rest, h)
    BY <2>2, <2>4, <2>5, <2>7 DEF MovesOnly
  <2>9. IsSentOn(m, q, reason)
    BY <1>p, <1>2, <1>w, <2>1, <2>4, <2>6, <2>7 DEF IsSentOn
  <2> QED BY <2>8, <2>9
<1> QED BY <1>p, <1>1, <1>2 DEF DeadLetter

\* A message that is published to the DLQ, or dropped because there is none.
LEMMA ToDlqMoves ==
    ASSUME TypeOK, NEW m, NEW h, Nowhere(m, queue, h, fate), ToDlq(m)
    PROVE  /\ MovesOnly(m, queue, h)
           /\ m \notin Range(queue'["main"]) /\ m \notin Range(queue'["retry"])
           /\ fate'[m] = "live" \/ (~def.dlq /\ fate'[m] = "dropped")
<1>n. Names = {"main", "retry", "dlq"}
  BY DEF Names
<1>w. /\ m \in Msgs /\ Placed(queue, h, fate)
      /\ m # h /\ fate[m] = "live" /\ \A n \in Names : m \notin Range(queue[n])
  BY DEF Nowhere
<1>1. CASE ~def.dlq /\ Leave(m, "dropped")
  <2>1. fate'[m] = "dropped" /\ \A x \in Msgs \ {m} : fate'[x] = fate[x]
    BY <1>1, <1>w DEF Leave, TypeOK
  <2>2. queue' = queue /\ deaths' = deaths /\ from' = from
    BY <1>1 DEF Leave
  <2>3. Placed(queue', h, fate')
    BY <1>w, <2>1, <2>2, GonePlaced
  <2>4. MovesOnly(m, queue, h)
    BY <2>1, <2>2, <2>3 DEF MovesOnly
  <2> QED BY <1>1, <1>n, <1>w, <2>1, <2>2, <2>4
<1>2. CASE /\ queue' = [queue EXCEPT !["dlq"] = Append(@, m)]
           /\ from' = [from EXCEPT ![m] = "dlq"]
           /\ deaths' = IF Trusted THEN deaths ELSE [deaths EXCEPT ![m] = <<>>]
           /\ UNCHANGED fate
  <2>1. queue \in [Names -> Seq(Msgs)] /\ "dlq" \in Names
    BY <1>n DEF TypeOK
  <2>2. Put(m, "dlq", queue, queue', h, fate)
    <3>1. Append(queue["dlq"], m) \in Seq(Msgs)
      BY <1>w, <2>1, AppendProperties
    <3> QED BY <1>2, <1>w, <2>1, <3>1 DEF Put
  <2>3. /\ Placed(queue', h, fate)
        /\ Range(queue'["dlq"]) = Range(queue["dlq"]) \cup {m}
    BY <1>w, <2>2, PutPlaced
  <2>4. fate' = fate
    BY <1>2
  <2>5. \A x \in Msgs \ {m} : deaths'[x] = deaths[x] /\ from'[x] = from[x]
    BY <1>2 DEF TypeOK
  <2>6. /\ \A n \in Names : Range(queue'[n]) \subseteq Range(queue[n]) \cup {m}
        /\ m \notin Range(queue'["main"]) /\ m \notin Range(queue'["retry"])
    BY <1>n, <1>w, <2>2, <2>3 DEF Put
  <2>7. MovesOnly(m, queue, h)
    BY <2>3, <2>4, <2>5, <2>6 DEF MovesOnly
  <2> QED BY <1>w, <2>4, <2>6, <2>7
<1> QED BY <1>1, <1>2 DEF ToDlq

-----------------------------------------------------------------------------
(* Every step keeps the invariant.                                         *)

\* At first the queues are empty and no message is published.
LEMMA InitCycle == Init => CycleInv
<1> SUFFICES ASSUME Init PROVE PlacedInv /\ HeaderInv
  BY TypeInit DEF CycleInv
<1>1. \A q \in Names : Once(queue[q]) /\ Range(queue[q]) = {}
  BY DEF Init, Once, Range
<1>2. \A m \in Msgs : m # hand
  BY NamesAssumption DEF Init
<1>3. hand \notin {}
  OBVIOUS
<1>4. PlacedInv
  BY <1>1, <1>2, <1>3 DEF PlacedInv, Placed
<1>5. ASSUME NEW m \in Msgs PROVE Fits(m)
  <2>1. Unread(m) /\ runs[m] = 0 /\ fate[m] = "new"
    BY DEF Init, Unread
  <2>2. m \notin Range(queue["main"]) /\ m \notin Range(queue["retry"])
    BY <1>1 DEF Names
  <2> QED BY <1>2, <2>1, <2>2, CountsAssumption DEF Fits
<1> QED BY <1>4, <1>5 DEF HeaderInv

\* A message that is published enters the main queue.
LEMMA PublishCycle ==
    ASSUME CycleInv, NEW m \in Msgs, Publish(m)
    PROVE  PlacedInv' /\ HeaderInv'
<1>n. "main" \in Names /\ "retry" \in Names
  BY DEF Names
<1>1. queue \in [Names -> Seq(Msgs)]
  BY DEF CycleInv, TypeOK
<1>2. m # hand /\ \A q \in Names : m \notin Range(queue[q])
  BY DEF CycleInv, PlacedInv, Placed, Publish
<1>3. fate'[m] = "live" /\ \A x \in Msgs \ {m} : fate'[x] = fate[x]
  BY DEF CycleInv, TypeOK, Publish
<1>4. Placed(queue, hand, fate')
  BY <1>2, <1>3, GonePlaced DEF CycleInv, PlacedInv
<1>5. Put(m, "main", queue, queue', hand, fate')
  <2>1. Append(queue["main"], m) \in Seq(Msgs)
    BY <1>1, <1>n, AppendProperties
  <2> QED BY <1>1, <1>2, <1>3, <1>n, <2>1 DEF Put, Publish
<1>6. /\ Placed(queue', hand, fate')
      /\ Range(queue'["main"]) = Range(queue["main"]) \cup {m}
  BY <1>4, <1>5, PutPlaced
<1>7. queue'["retry"] = queue["retry"]
  BY <1>5, <1>n DEF Put
<1>8. UNCHANGED <<def, hand, deaths, from, runs, returns, overflowed>>
  BY DEF Publish
<1>9. PlacedInv'
  BY <1>6, <1>8 DEF PlacedInv
<1>10. ASSUME def.dlqLimit = 0, NEW x \in Msgs PROVE Fits(x)'
  <2>1. Fits(x)
    BY <1>10 DEF CycleInv, HeaderInv
  <2>2. CASE x # m
    BY <1>3, <1>6, <1>7, <1>8, <2>1, <2>2, FitsKept
  <2>3. CASE x = m
    <3>1. Unread(m) /\ runs[m] = 0
      BY <2>1, <2>3 DEF Fits, Publish
    <3>2. Unread(m)' /\ runs'[m] = 0 /\ returns'[m] = 0
      BY <3>1, <1>8 DEF Unread
    <3>3. m \notin Range(queue'["retry"])
      BY <1>2, <1>7, <1>n
    <3>4. 0 <= Retries
      BY CountsAssumption
    <3> QED BY <1>3, <1>8, <2>3, <3>2, <3>3, <3>4 DEF Fits
  <2> QED BY <2>2, <2>3
<1> QED BY <1>8, <1>9, <1>10 DEF HeaderInv

\* The oldest message of the main queue is on its way to the consumer.
LEMMA DeliverCycle ==
    ASSUME CycleInv, Deliver
    PROVE  PlacedInv' /\ HeaderInv'
<1>n. "main" \in Names /\ "retry" \in Names
  BY DEF Names
<1>1. queue \in [Names -> Seq(Msgs)] /\ queue["main"] # <<>>
  BY DEF CycleInv, TypeOK, Deliver
<1>p. PICK R, m : R = Popped("main") /\ m = Head(queue["main"])
  OBVIOUS
<1>t. Took(m, "main", queue, R)
  BY <1>p, <1>1, <1>n DEF Took, Popped
<1>2. Nowhere(m, R, hand, fate) /\ Fewer(queue, R) /\ m \in Range(queue["main"])
  BY <1>t, PopPlaced DEF CycleInv, PlacedInv
<1>3. /\ queue' = R /\ hand' = m
      /\ UNCHANGED <<def, deaths, from, fate, runs, returns, overflowed>>
  BY <1>p DEF Deliver
<1>4. Placed(R, m, fate)
  BY <1>2 DEF Placed, Nowhere
<1>5. PlacedInv'
  BY <1>3, <1>4 DEF PlacedInv
<1>6. ASSUME def.dlqLimit = 0, NEW x \in Msgs PROVE Fits(x)'
  <2>1. Fits(x)
    BY <1>6 DEF CycleInv, HeaderInv
  <2>2. Range(queue'["retry"]) \subseteq Range(queue["retry"])
    BY <1>2, <1>3, <1>n DEF Fewer
  <2>3. Range(queue'["main"]) \cup {hand'} \subseteq Range(queue["main"])
    BY <1>2, <1>3, <1>n DEF Fewer
  <2> QED BY <1>3, <2>1, <2>2, <2>3, FitsKept
<1> QED BY <1>3, <1>5, <1>6 DEF HeaderInv

\* A message in the main queue or with the consumer is found to have the
\* origin it was published with and as many deaths as it has returns.
LEMMA OriginFacts ==
    ASSUME TypeOK, NEW m \in Msgs, Unread(m) \/ Back(m)
    PROVE  Origin(m) = Published /\ XCount(m) = returns[m]
<1>1. CASE Unread(m)
  BY <1>1 DEF Unread, Origin, XCount
<1>2. CASE Back(m)
  <2>1. deaths[m] \in Seq(Entry)
    BY DEF TypeOK
  <2>2. deaths[m] # <<>> /\ Head(deaths[m]) = deaths[m][1]
    BY <1>2, <2>1 DEF Back
  <2>3. Last(deaths[m]) = deaths[m][2]
    BY <1>2 DEF Back, Last
  <2> QED BY <1>2, <2>2, <2>3 DEF Back, Rejection, Expiry, Origin, XCount
<1> QED BY <1>1, <1>2

\* When the DLQ keeps what it holds, the consumer's message has a handler.
LEMMA HandFacts ==
    ASSUME CycleInv, hand # None, def.dlqLimit = 0
    PROVE  /\ hand \in Msgs /\ Fits(hand) /\ Matched(hand)
           /\ Unread(hand) \/ Back(hand)
           /\ def.retry => runs[hand] = returns[hand]
           /\ XCount(hand) = returns[hand]
<1>1. hand \in Msgs /\ TypeOK
  BY DEF CycleInv, TypeOK
<1>2. Fits(hand)
  BY <1>1 DEF CycleInv, HeaderInv
<1>3. Unread(hand) \/ Back(hand)
  BY <1>2 DEF Fits
<1>4. Origin(hand) = Published /\ XCount(hand) = returns[hand]
  BY <1>1, <1>3, OriginFacts
<1> QED BY <1>1, <1>2, <1>3, <1>4 DEF Fits, Matched

\* The consumer's message is nowhere else.
LEMMA HandPlaced ==
    ASSUME CycleInv, hand # None
    PROVE  Nowhere(hand, queue, None, fate)
<1>1. hand \in Msgs /\ queue \in [Names -> Seq(Msgs)]
  BY DEF CycleInv, TypeOK
<1>2. Placed(queue, hand, fate)
  BY DEF CycleInv, PlacedInv
<1>3. /\ Placed(queue, None, fate) /\ hand # None /\ fate[hand] = "live"
      /\ \A q \in Names : hand \notin Range(queue[q])
  BY <1>1, <1>2, FreePlaced
<1> QED BY <1>1, <1>3 DEF Nowhere

\* A message no handler is found for is rejected.
LEMMA DiscardCycle ==
    ASSUME CycleInv, Discard
    PROVE  PlacedInv' /\ HeaderInv'
<1>1. hand # None /\ ~Matched(hand)
  BY DEF Discard
<1>2. /\ hand \in Msgs /\ Placed(queue, None, fate)
      /\ \A q \in Names : hand \notin Range(queue[q])
  BY <1>1, HandPlaced DEF Nowhere
<1>3. \A x \in Msgs \ {hand} : fate'[x] = fate[x]
  BY DEF CycleInv, TypeOK, Discard, Leave
<1>4. Placed(queue, None, fate')
  BY <1>1, <1>2, <1>3, GonePlaced
<1>5. queue' = queue /\ hand' = None /\ def' = def
  BY DEF Discard, Leave
<1>6. PlacedInv'
  BY <1>4, <1>5 DEF PlacedInv
<1>7. def.dlqLimit # 0
  BY <1>1, HandFacts
<1> QED BY <1>5, <1>6, <1>7 DEF HeaderInv

\* A message that had all its retries goes to the DLQ.
LEMMA GiveUpCycle ==
    ASSUME CycleInv, GiveUpRetrying
    PROVE  PlacedInv' /\ HeaderInv'
<1>n. "main" \in Names /\ "retry" \in Names
  BY DEF Names
<1>p. PICK m : m = hand
  OBVIOUS
<1>1. /\ hand # None /\ ToDlq(m) /\ hand' = None
      /\ UNCHANGED <<def, runs, returns, overflowed>>
  BY <1>p DEF GiveUpRetrying
<1>2. Nowhere(m, queue, None, fate) /\ TypeOK
  BY <1>1, <1>p, HandPlaced DEF CycleInv
<1>3. /\ MovesOnly(m, queue, None)
      /\ m \notin Range(queue'["main"]) /\ m \notin Range(queue'["retry"])
      /\ fate'[m] = "live" \/ (~def.dlq /\ fate'[m] = "dropped")
  BY <1>1, <1>2, ToDlqMoves
<1>4. PlacedInv'
  BY <1>1, <1>3 DEF PlacedInv, MovesOnly
<1>5. ASSUME def.dlqLimit = 0, NEW x \in Msgs PROVE Fits(x)'
  <2>1. Fits(x)
    BY <1>5 DEF CycleInv, HeaderInv
  <2>2. CASE x # m
    <3>1. /\ x \in Range(queue'["main"]) => x \in Range(queue["main"])
          /\ x \in Range(queue'["retry"]) => x \in Range(queue["retry"])
      BY <1>3, <1>n, <2>2 DEF MovesOnly
    <3>2. x # hand'
      BY <1>1, NamesAssumption
    <3>3. /\ deaths'[x] = deaths[x] /\ from'[x] = from[x]
          /\ fate'[x] = fate[x]
      BY <1>3, <2>2 DEF MovesOnly
    <3> QED BY <1>1, <2>1, <3>1, <3>2, <3>3, FitsKept
  <2>3. CASE x = m
    <3>1. def.retry => runs'[m] <= Retries
      BY <1>1, <2>1, <2>3 DEF Fits
    <3>2. m \in Msgs /\ m # hand' /\ fate'[m] # "new" /\ Fits(m)
      BY <1>1, <1>2, <1>3, <2>1, <2>3 DEF Nowhere
    <3> QED BY <1>1, <1>3, <2>3, <3>1, <3>2, FitsGone
  <2> QED BY <2>2, <2>3
<1> QED BY <1>1, <1>4, <1>5 DEF HeaderInv

\* A message that was in the retry queue and not rejected since does not get
\* there again by overflowing the main queue.
LEMMA PushedOnce ==
    ASSUME CycleInv, NEW m \in Msgs, Unread(m) \/ Back(m),
           NEW d, d = Died(m, "main", "maxlen"), ~Cycle(d, "retry")
    PROVE  Len(d) = 1 /\ d[1].queue = "main" /\ d[1].reason = "maxlen"
<1>1. deaths[m] \in Seq(Entry) /\ from[m] \in Sources /\ "main" \in Names
  BY DEF CycleInv, TypeOK, Names
<1>2. \A i \in 1..Len(deaths[m]) :
          ~(deaths[m][i].queue = "main" /\ deaths[m][i].reason = "maxlen")
  <2>1. CASE Unread(m)
    BY <2>1 DEF Unread
  <2>2. CASE Back(m)
    <3>1. \A i \in 1..Len(deaths[m]) : i = 1 \/ i = 2
      BY <2>2 DEF Back
    <3> QED BY <2>2, <3>1 DEF Back, Expiry, Rejection
  <2> QED BY <2>1, <2>2
<1>3. /\ Len(d) = Len(deaths[m]) + 1 /\ d \in Seq(Entry)
      /\ d[1] = [queue |-> "main", reason |-> "maxlen", count |-> 1,
                 from |-> from[m]]
      /\ \A i \in 1..Len(deaths[m]) : d[i + 1] = deaths[m][i]
  <2>1. "maxlen" \in {"rejected", "expired", "maxlen"}
    OBVIOUS
  <2>2. /\ Len(Died(m, "main", "maxlen")) = Len(deaths[m]) + 1
        /\ Died(m, "main", "maxlen") \in Seq(Entry)
        /\ Died(m, "main", "maxlen")[1] =
              [queue |-> "main", reason |-> "maxlen", count |-> 1,
               from |-> from[m]]
        /\ \A i \in 1..Len(deaths[m]) :
              Died(m, "main", "maxlen")[i + 1] = deaths[m][i]
    BY <1>1, <1>2, <2>1, DiedNew
  <2> QED BY <2>2
<1>4. d[1].queue = "main" /\ d[1].reason = "maxlen"
  BY <1>3
<1>5. ~Back(m)
  <2> SUFFICES ASSUME Back(m) PROVE FALSE
    OBVIOUS
  <2>1. Len(d) = 3 /\ d[2] = deaths[m][1]
    BY <1>3 DEF Back
  <2>2. d[2].queue = "retry" /\ d[2].reason = "expired"
    BY <2>1 DEF Back, Expiry
  <2>3. \A j \in 1..2 : d[j].reason # "rejected"
    <3>1. \A j \in 1..2 : j = 1 \/ j = 2
      OBVIOUS
    <3> QED BY <1>4, <2>2, <3>1
  <2>4. 2 \in DOMAIN d
    BY <1>3, <2>1
  <2> QED BY <2>2, <2>3, <2>4 DEF Cycle
<1>6. Len(d) = 1
  <2>1. Len(deaths[m]) = 0
    BY <1>5 DEF Unread
  <2> QED BY <1>3, <2>1
<1> QED BY <1>4, <1>6

\* The oldest message of a queue that is over its limit.
LEMMA OverflowCycle ==
    ASSUME CycleInv, NEW q \in Names, Overflow(q)
    PROVE  PlacedInv' /\ HeaderInv'
<1>n. "main" \in Names /\ "retry" \in Names
  BY DEF Names
<1>1. queue[q] # <<>> /\ q # "retry" /\ Limit(q) > 0
  BY OverfullFacts DEF CycleInv, Overflow
<1>p. PICK R, m : R = Popped(q) /\ m = Head(queue[q])
  OBVIOUS
<1>2. /\ DeadLetter(m, q, "maxlen", R)
      /\ overflowed' = overflowed \cup (IF q = "main" THEN {m} ELSE {})
      /\ UNCHANGED <<def, hand, runs, returns>>
  BY <1>p DEF Overflow
<1>t. TypeOK /\ queue \in [Names -> Seq(Msgs)] /\ Placed(queue, hand, fate)
  BY DEF CycleInv, TypeOK, PlacedInv
<1>3. Took(m, q, queue, R)
  BY <1>p, <1>1, <1>t DEF Took, Popped
<1>4. Nowhere(m, R, hand, fate) /\ Fewer(queue, R) /\ m \in Range(queue[q])
  BY <1>3, <1>t, PopPlaced
<1>5. /\ MovesOnly(m, R, hand)
      /\ IsDropped(m, q, "maxlen") \/ IsSentOn(m, q, "maxlen")
  BY <1>2, <1>4, <1>t, DeadLetterMoves
<1>6. PlacedInv'
  BY <1>2, <1>5 DEF PlacedInv, MovesOnly
<1>7. ASSUME def.dlqLimit = 0, NEW x \in Msgs PROVE Fits(x)'
  <2>1. Fits(x)
    BY <1>7 DEF CycleInv, HeaderInv
  <2>2. CASE x # m
    <3>1. /\ x \in Range(queue'["main"]) => x \in Range(queue["main"])
          /\ x \in Range(queue'["retry"]) => x \in Range(queue["retry"])
      BY <1>4, <1>5, <1>n, <2>2 DEF Fewer, MovesOnly
    <3>2. overflowed \subseteq overflowed'
      BY <1>2
    <3>3. /\ deaths'[x] = deaths[x] /\ from'[x] = from[x]
          /\ fate'[x] = fate[x]
      BY <1>5, <2>2 DEF MovesOnly
    <3> QED BY <1>2, <2>1, <3>1, <3>2, <3>3, FitsKept
  <2>3. CASE x = m
    <3>1. q = "main" /\ m \in overflowed'
      <4>1. Limit("dlq") = 0
        BY <1>7 DEF Limit
      <4> QED BY <1>1, <1>2, <4>1 DEF Names
    <3>2. /\ Unread(m) \/ Back(m)
          /\ def.retry => runs'[m] <= Retries
          /\ m # hand'
      BY <1>2, <1>4, <2>1, <2>3, <3>1 DEF Fits, Nowhere
    <3>3. CASE IsDropped(m, "main", "maxlen")
      BY <1>2, <1>n, <2>1, <2>3, <3>1, <3>2, <3>3, FitsGone DEF IsDropped
    <3>4. CASE IsSentOn(m, "main", "maxlen")
      <4> USE DEF IsSentOn
      <4>1. /\ Target("main") # "main"
            /\ Target("main") = "retry" => def.retry
        BY NamesAssumption, <1>n DEF Target, FailTarget
      <4>2. m \notin Range(queue'["main"])
        BY <3>4, <4>1, <1>n
      <4>3. CASE Target("main") = "retry"
        <5>1. /\ Len(deaths'[m]) = 1 /\ deaths'[m][1].queue = "main"
              /\ deaths'[m][1].reason = "maxlen"
          BY <1>4, <3>2, <3>4, <4>3, PushedOnce DEF Nowhere
        <5>2. Pushed(m)'
          BY <5>1, <3>1 DEF Pushed
        <5> QED BY <1>2, <2>3, <3>2, <3>4, <4>1, <4>2, <4>3, <5>2 DEF Fits
      <4>4. CASE Target("main") # "retry"
        <5>1. m \notin Range(queue'["retry"])
          BY <3>4, <4>4, <1>n
        <5> QED BY <1>2, <2>1, <2>3, <3>1, <3>2, <3>4, <4>2, <5>1, FitsGone
      <4> QED BY <4>3, <4>4
    <3> QED BY <1>5, <3>1, <3>3, <3>4
  <2> QED BY <2>2, <2>3
<1> QED BY <1>2, <1>6, <1>7 DEF HeaderInv

\* The TTL of a message that a handler rejected brings it back to the main
\* queue. One that overflowed is dropped by the broker.
LEMMA ExpiredHeader ==
    ASSUME TypeOK, NEW m \in Msgs, NEW d, d = Died(m, "retry", "expired")
    PROVE  /\ Pushed(m) => Cycle(d, "main")
           /\ Rejected(m) =>
                 /\ ~Cycle(d, "main") /\ Len(d) = 2 /\ d[1].queue = "retry"
                 /\ d[1].reason = "expired" /\ d[1].count = Capped(returns[m])
                 /\ Rejection(d[2])
<1>1. deaths[m] \in Seq(Entry) /\ from[m] \in Sources /\ "retry" \in Names
  BY DEF TypeOK, Names
<1> DEFINE h == deaths[m]
<1>2. ASSUME Len(h) = 1, h[1].queue = "main"
      PROVE  /\ d \in Seq(Entry) /\ Len(d) = 2 /\ d[2] = h[1]
             /\ d[1] = [queue |-> "retry", reason |-> "expired", count |-> 1,
                        from |-> from[m]]
  <2>1. \A i \in 1..Len(deaths[m]) : i = 1
    BY <1>2
  <2>2. \A i \in 1..Len(deaths[m]) :
            ~(deaths[m][i].queue = "retry" /\ deaths[m][i].reason = "expired")
    BY <1>2, <2>1
  <2>3. /\ d \in Seq(Entry) /\ Len(d) = Len(deaths[m]) + 1
        /\ d[1] = [queue |-> "retry", reason |-> "expired", count |-> 1,
                   from |-> from[m]]
        /\ \A i \in 1..Len(deaths[m]) : d[i + 1] = deaths[m][i]
    BY <1>1, <2>2, DiedNew
  <2>4. d[1 + 1] = h[1] /\ Len(d) = 1 + 1
    BY <1>2, <2>3
  <2> QED BY <2>3, <2>4
<1>3. ASSUME Pushed(m) PROVE Cycle(d, "main")
  <2>1. /\ Len(h) = 1 /\ h[1].queue = "main" /\ h[1].reason = "maxlen"
    BY <1>3 DEF Pushed
  <2>2. /\ d \in Seq(Entry) /\ Len(d) = 2 /\ d[2] = h[1]
        /\ d[1] = [queue |-> "retry", reason |-> "expired", count |-> 1,
                   from |-> from[m]]
    BY <1>2, <2>1
  <2>3. \A j \in 1..2 : d[j].reason # "rejected"
    <3>1. \A j \in 1..2 : j = 1 \/ j = 2
      OBVIOUS
    <3> QED BY <2>1, <2>2, <3>1
  <2>4. 2 \in DOMAIN d
    BY <2>2
  <2> QED BY <2>1, <2>2, <2>3, <2>4 DEF Cycle
<1>4. ASSUME Rejected(m)
      PROVE  /\ Len(d) = 2 /\ d[1].queue = "retry" /\ d[1].reason = "expired"
             /\ d[1].count = Capped(returns[m]) /\ Rejection(d[2])
             /\ d \in Seq(Entry)
  <2>1. CASE Len(h) = 1 /\ Rejection(h[1]) /\ returns[m] = 0
    <3>1. h[1].queue = "main"
      BY <2>1 DEF Rejection
    <3>2. /\ d \in Seq(Entry) /\ Len(d) = 2 /\ d[2] = h[1]
          /\ d[1] = [queue |-> "retry", reason |-> "expired", count |-> 1,
                     from |-> from[m]]
      BY <1>2, <2>1, <3>1
    <3>3. Capped(returns[m]) = 1
      BY <2>1, CountsAssumption DEF Capped
    <3>4. /\ d[1].queue = "retry" /\ d[1].reason = "expired"
          /\ d[1].count = 1
      BY <3>2
    <3>5. Rejection(d[2])
      BY <2>1, <3>2
    <3> QED BY <3>2, <3>3, <3>4, <3>5
  <2>2. CASE Len(h) = 2 /\ Rejection(h[1]) /\ Expiry(m, h[2])
    <3>p. PICK g : g = deaths[m]
      OBVIOUS
    <3>1. /\ Len(g) = 2 /\ g[2].queue = "retry" /\ g[2].reason = "expired"
          /\ ~(g[1].queue = "retry" /\ g[1].reason = "expired")
      BY <2>2, <3>p DEF Rejection, Expiry
    <3>2. Len(d) = 2 /\ d[1] = CountedUp(g[2]) /\ d[2] = g[1]
      BY <1>1, <3>p, <3>1, DiedInTurn
    <3>3. /\ d[1].queue = "retry" /\ d[1].reason = "expired"
          /\ d[1].count = Capped(g[2].count)
      BY <3>1, <3>2 DEF CountedUp
    <3>4. g[2].count = returns[m] /\ Rejection(d[2])
      BY <2>2, <3>2, <3>p DEF Expiry
    <3>5. d \in Seq(Entry)
      BY <1>1, DiedType
    <3> QED BY <3>2, <3>3, <3>4, <3>5
  <2> QED BY <1>4, <2>1, <2>2 DEF Rejected
<1>5. ASSUME Rejected(m), NEW i \in DOMAIN d, d[i].queue = "main",
             \A j \in 1..i : d[j].reason # "rejected"
      PROVE  FALSE
  <2>1. DOMAIN d = 1..2
    BY <1>4, <1>5
  <2>2. i = 2
    BY <1>4, <1>5, <2>1
  <2>3. d[2].reason = "rejected"
    BY <1>4, <1>5 DEF Rejection
  <2> QED BY <1>5, <2>2, <2>3
<1>6. Rejected(m) => ~Cycle(d, "main")
  BY <1>5 DEF Cycle
<1> QED BY <1>3, <1>4, <1>6

\* The TTL of the oldest message in the retry queue passes.
LEMMA ExpireCycle ==
    ASSUME CycleInv, Expire
    PROVE  PlacedInv' /\ HeaderInv'
<1>n. "main" \in Names /\ "retry" \in Names
  BY DEF Names
<1>1. Target("retry") = "main" /\ "main" # None
  BY NamesAssumption DEF Target, Names
<1>p. PICK R, m : R = Popped("retry") /\ m = Head(queue["retry"])
  OBVIOUS
<1>2. /\ DeadLetter(m, "retry", "expired", R) /\ queue["retry"] # <<>>
      /\ returns' = [returns EXCEPT ![m] = Capped(@)]
      /\ UNCHANGED <<def, hand, runs, overflowed>>
  BY <1>p DEF Expire
<1>t. TypeOK /\ queue \in [Names -> Seq(Msgs)] /\ Placed(queue, hand, fate)
  BY DEF CycleInv, TypeOK, PlacedInv
<1>3. Took(m, "retry", queue, R)
  BY <1>p, <1>n, <1>2, <1>t DEF Took, Popped
<1>4. Nowhere(m, R, hand, fate) /\ Fewer(queue, R) /\ m \in Range(queue["retry"])
  BY <1>3, <1>t, PopPlaced
<1>d. PICK d : d = Died(m, "retry", "expired")
  OBVIOUS
<1>5. /\ MovesOnly(m, R, hand)
      /\ IsDropped(m, "retry", "expired") \/ IsSentOn(m, "retry", "expired")
  BY <1>2, <1>4, <1>t, DeadLetterMoves
<1>6. PlacedInv'
  BY <1>2, <1>5 DEF PlacedInv, MovesOnly
<1>7. /\ returns'[m] = Capped(returns[m])
      /\ \A x \in Msgs \ {m} : returns'[x] = returns[x]
  BY <1>2, <1>4, <1>t DEF TypeOK, Nowhere
<1>8. ASSUME def.dlqLimit = 0, NEW x \in Msgs PROVE Fits(x)'
  <2>1. Fits(x)
    BY <1>8 DEF CycleInv, HeaderInv
  <2>2. CASE x # m
    <3>1. /\ x \in Range(queue'["main"]) => x \in Range(queue["main"])
          /\ x \in Range(queue'["retry"]) => x \in Range(queue["retry"])
      BY <1>4, <1>5, <1>n, <2>2 DEF Fewer, MovesOnly
    <3>2. /\ deaths'[x] = deaths[x] /\ from'[x] = from[x]
          /\ fate'[x] = fate[x]
      BY <1>5, <2>2 DEF MovesOnly
    <3> QED BY <1>2, <1>7, <2>1, <2>2, <3>1, <3>2, FitsKept
  <2>3. CASE x = m
    <3>1. /\ def.retry /\ runs[m] <= Retries
          /\ Pushed(m) \/ (Rejected(m) /\ runs[m] = returns[m] + 1)
      BY <1>4, <2>1, <2>3 DEF Fits
    <3>2. /\ Pushed(m) => Cycle(d, "main")
          /\ Rejected(m) =>
                /\ ~Cycle(d, "main") /\ Len(d) = 2 /\ d[1].queue = "retry"
                /\ d[1].reason = "expired" /\ d[1].count = Capped(returns[m])
                /\ Rejection(d[2])
      BY <1>t, <1>4, <1>d, ExpiredHeader DEF Nowhere
    <3>m. m # hand'
      BY <1>2, <1>4 DEF Nowhere
    <3>3. CASE IsDropped(m, "retry", "expired")
      <4>1. m \in overflowed'
        BY <1>1, <1>2, <1>d, <3>1, <3>2, <3>3 DEF Pushed, IsDropped
      <4> QED BY <1>2, <1>n, <2>1, <2>3, <3>1, <3>3, <3>m, <4>1, FitsGone
              DEF IsDropped
    <3>4. CASE IsSentOn(m, "retry", "expired")
      <4>s. /\ ~Cycle(d, "main") /\ fate'[m] = "live" /\ deaths'[m] = d
            /\ \A n \in Names : m \in Range(queue'[n]) => n = "main"
        BY <1>1, <1>d, <3>4 DEF IsSentOn
      <4>1. Rejected(m) /\ runs[m] = returns[m] + 1
        BY <3>1, <3>2, <4>s
      <4>2. returns[m] \in 0..MaxCount /\ returns[m] < MaxCount
        BY <1>4, <1>t, <3>1, <4>1, CountsAssumption DEF TypeOK, Nowhere
      <4>3. returns'[m] = runs'[m]
        BY <1>2, <1>7, <4>1, <4>2, CappedFacts
      <4>4. Back(m)'
        BY <1>7, <3>2, <4>s, <4>1 DEF Back, Expiry, Rejection
      <4>5. m \notin Range(queue'["retry"])
        BY <4>s, <1>n
      <4> QED BY <1>2, <2>3, <3>1, <4>s, <4>3, <4>4, <4>5 DEF Fits
    <3> QED BY <1>5, <3>3, <3>4
  <2> QED BY <2>2, <2>3
<1> QED BY <1>2, <1>6, <1>8 DEF HeaderInv

\* The header of a message that a handler rejects: no way back is a cycle.
LEMMA RejectedHeader ==
    ASSUME TypeOK, NEW m \in Msgs, Unread(m) \/ Back(m),
           NEW d, d = Died(m, "main", "rejected")
    PROVE  /\ \A q : ~Cycle(d, q)
           /\ \/ Len(d) = 1 /\ Rejection(d[1]) /\ returns[m] = 0
              \/ Len(d) = 2 /\ Rejection(d[1]) /\ Expiry(m, d[2])
<1>1. deaths[m] \in Seq(Entry) /\ from[m] \in Sources /\ "main" \in Names
  BY DEF TypeOK, Names
<1>2. ASSUME Unread(m)
      PROVE  Len(d) = 1 /\ Rejection(d[1]) /\ returns[m] = 0
  <2>1. Len(deaths[m]) = 0 /\ from[m] = Published /\ returns[m] = 0
    BY <1>2 DEF Unread
  <2>2. \A i \in 1..Len(deaths[m]) :
            ~(deaths[m][i].queue = "main" /\ deaths[m][i].reason = "rejected")
    BY <2>1
  <2>3. /\ Len(d) = Len(deaths[m]) + 1
        /\ d[1] = [queue |-> "main", reason |-> "rejected", count |-> 1,
                   from |-> from[m]]
    BY <1>1, <2>2, DiedNew
  <2>4. Rejection(d[1])
    BY <2>1, <2>3 DEF Rejection
  <2> QED BY <2>1, <2>3, <2>4
<1>3. ASSUME Back(m)
      PROVE  Len(d) = 2 /\ Rejection(d[1]) /\ Expiry(m, d[2])
  <2>p. PICK g : g = deaths[m]
    OBVIOUS
  <2>1. Len(g) = 2 /\ Expiry(m, g[1]) /\ Rejection(g[2])
    BY <1>3, <2>p DEF Back
  <2>2. /\ g[2].queue = "main" /\ g[2].reason = "rejected"
        /\ ~(g[1].queue = "main" /\ g[1].reason = "rejected")
    BY <2>1 DEF Rejection, Expiry
  <2>3. Len(d) = 2 /\ d[1] = CountedUp(g[2]) /\ d[2] = g[1]
    BY <1>1, <2>p, <2>1, <2>2, DiedInTurn
  <2>4. Rejection(d[1])
    BY <2>1, <2>3 DEF Rejection, CountedUp
  <2> QED BY <2>1, <2>3, <2>4
<1>4. Rejection(d[1]) /\ d \in Seq(Entry)
  BY <1>1, <1>2, <1>3, DiedType
<1>5. ASSUME NEW q, NEW i \in DOMAIN d, \A j \in 1..i : d[j].reason # "rejected"
      PROVE  FALSE
  <2>1. 1 \in 1..i
    BY <1>4, <1>5
  <2> QED BY <1>4, <1>5, <2>1 DEF Rejection
<1>6. \A q : ~Cycle(d, q)
  BY <1>5 DEF Cycle
<1> QED BY <1>2, <1>3, <1>6

\* The handler returns.
LEMMA HandleCycle ==
    ASSUME CycleInv, NEW result \in {"ok", "retryable", "error"}, Handle(result)
    PROVE  PlacedInv' /\ HeaderInv'
<1>n. "main" \in Names /\ "retry" \in Names
  BY DEF Names
<1>p. PICK m : m = hand
  OBVIOUS
<1>1. /\ hand # None /\ ~Exhausted(m) /\ hand' = None
      /\ runs' = [runs EXCEPT ![m] = Capped(@)]
      /\ UNCHANGED <<def, returns, overflowed>>
  BY <1>p DEF Handle
<1>2. \/ Leave(m, "taken")
      \/ def.retry /\ DeadLetter(m, "main", "rejected", queue)
      \/ ToDlq(m)
  BY <1>p DEF Handle
<1>3. Nowhere(m, queue, None, fate) /\ TypeOK
  BY <1>1, <1>p, HandPlaced DEF CycleInv
<1> DEFINE Taken == fate'[m] = "taken" /\ queue' = queue
           Buried == /\ m \notin Range(queue'["main"])
                     /\ m \notin Range(queue'["retry"])
                     /\ fate'[m] = "live" \/ (~def.dlq /\ fate'[m] = "dropped")
           Again == /\ def.retry
                    /\ \/ IsDropped(m, "main", "rejected")
                       \/ IsSentOn(m, "main", "rejected")
<1>4. MovesOnly(m, queue, None) /\ (Taken \/ Again \/ Buried)
  <2>1. CASE Leave(m, "taken")
    <3>1. fate'[m] = "taken" /\ \A x \in Msgs \ {m} : fate'[x] = fate[x]
      BY <1>3, <2>1 DEF Leave, TypeOK, Nowhere
    <3>2. queue' = queue /\ deaths' = deaths /\ from' = from
      BY <2>1 DEF Leave
    <3>3. Placed(queue', None, fate')
      BY <1>3, <3>1, <3>2, GonePlaced DEF Nowhere
    <3>4. MovesOnly(m, queue, None)
      BY <3>1, <3>2, <3>3 DEF MovesOnly
    <3> QED BY <3>1, <3>2, <3>4
  <2>2. CASE def.retry /\ DeadLetter(m, "main", "rejected", queue)
    BY <1>3, <2>2, DeadLetterMoves
  <2>3. CASE ToDlq(m)
    BY <1>3, <2>3, ToDlqMoves
  <2> QED BY <1>2, <2>1, <2>2, <2>3
<1> HIDE DEF Taken, Buried, Again
<1>5. PlacedInv'
  BY <1>1, <1>4 DEF PlacedInv, MovesOnly
<1>6. /\ runs'[m] = Capped(runs[m])
      /\ \A x \in Msgs \ {m} : runs'[x] = runs[x]
  BY <1>1, <1>3 DEF TypeOK, Nowhere
<1>7. ASSUME def.dlqLimit = 0, NEW x \in Msgs PROVE Fits(x)'
  <2>1. Fits(x)
    BY <1>7 DEF CycleInv, HeaderInv
  <2>2. CASE x # m
    <3>1. /\ x \in Range(queue'["main"]) => x \in Range(queue["main"])
          /\ x \in Range(queue'["retry"]) => x \in Range(queue["retry"])
      BY <1>4, <1>n, <2>2 DEF MovesOnly
    <3>2. x # hand'
      BY <1>1, NamesAssumption
    <3>3. /\ deaths'[x] = deaths[x] /\ from'[x] = from[x]
          /\ fate'[x] = fate[x]
      BY <1>4, <2>2 DEF MovesOnly
    <3> QED BY <1>1, <1>6, <2>1, <2>2, <3>1, <3>2, <3>3, FitsKept
  <2>3. CASE x = m
    <3>1. /\ Unread(m) \/ Back(m)
          /\ def.retry => runs[m] = returns[m] /\ XCount(m) = returns[m]
      BY <1>1, <1>7, <1>p, HandFacts
    <3>2. m \in Msgs /\ m # hand' /\ fate[m] = "live"
      BY <1>1, <1>3 DEF Nowhere
    <3>3. def.retry => runs'[m] = returns[m] + 1 /\ runs'[m] <= Retries
      <4> SUFFICES ASSUME def.retry
                   PROVE  runs'[m] = returns[m] + 1 /\ runs'[m] <= Retries
        OBVIOUS
      <4>1. returns[m] \in 0..MaxCount /\ returns[m] < Retries
        BY <1>1, <1>3, <3>1, <3>2, CountsAssumption DEF Exhausted, TypeOK
      <4>2. runs'[m] = returns[m] + 1
        BY <1>6, <3>1, <4>1, CountsAssumption, CappedFacts
      <4> QED BY <4>1, <4>2, CountsAssumption
    <3>4. CASE Taken
      <4>1. m \notin Range(queue'["main"]) /\ m \notin Range(queue'["retry"])
        BY <1>3, <1>n, <3>4 DEF Taken, Nowhere
      <4>2. fate'[m] = "taken"
        BY <3>4 DEF Taken
      <4> QED BY <1>1, <2>1, <2>3, <3>2, <3>3, <4>1, <4>2, FitsGone
    <3>5. CASE Buried
      BY <1>1, <2>1, <2>3, <3>2, <3>3, <3>5, FitsGone DEF Buried
    <3>6. CASE Again
      <4>d. PICK d : d = Died(m, "main", "rejected")
        OBVIOUS
      <4>1. /\ \A q : ~Cycle(d, q)
            /\ \/ Len(d) = 1 /\ Rejection(d[1]) /\ returns[m] = 0
               \/ Len(d) = 2 /\ Rejection(d[1]) /\ Expiry(m, d[2])
        BY <1>3, <3>1, <3>2, <4>d, RejectedHeader
      <4>2. /\ def.retry /\ Target("main") = IF def.dlq THEN "retry" ELSE None
            /\ "retry" # None
        BY <3>6, NamesAssumption DEF Again, Target, FailTarget, Names
      <4>3. CASE IsDropped(m, "main", "rejected")
        <5>1. ~def.dlq
          BY <4>1, <4>2, <4>3, <4>d DEF IsDropped
        <5>2. /\ m \notin Range(queue'["main"]) /\ m \notin Range(queue'["retry"])
              /\ fate'[m] = "dropped"
          BY <1>n, <4>3 DEF IsDropped
        <5> QED BY <1>1, <2>1, <2>3, <3>2, <3>3, <5>1, <5>2, FitsGone
      <4>4. CASE IsSentOn(m, "main", "rejected")
        <5>1. fate'[m] = "live" /\ deaths'[m] = d /\ m \notin Range(queue'["main"])
          BY <1>n, <4>2, <4>4, <4>d, NamesAssumption DEF IsSentOn
        <5>2. Rejected(m)'
          BY <1>1, <4>1, <5>1 DEF Rejected, Rejection, Expiry
        <5> QED BY <1>1, <2>3, <3>2, <3>3, <4>2, <5>1, <5>2 DEF Fits
      <4> QED BY <3>6, <4>3, <4>4 DEF Again
    <3> QED BY <1>4, <3>4, <3>5, <3>6
  <2> QED BY <2>2, <2>3
<1> QED BY <1>1, <1>5, <1>7 DEF HeaderInv

\* Nothing changes.
LEMMA StutterCycle ==
    ASSUME CycleInv, UNCHANGED vars
    PROVE  PlacedInv' /\ HeaderInv'
<1>1. /\ UNCHANGED <<def, queue, hand, deaths, from, fate>>
      /\ UNCHANGED <<runs, returns, overflowed>>
  BY DEF vars
<1>2. PlacedInv'
  BY <1>1 DEF CycleInv, PlacedInv
<1>3. ASSUME NEW x \in Msgs, Fits(x) PROVE Fits(x)'
  BY <1>1, <1>3, FitsKept
<1> QED BY <1>1, <1>2, <1>3 DEF CycleInv, HeaderInv

\* Every step keeps the invariant.
LEMMA CycleStep == CycleInv /\ [Next]_vars => CycleInv'
<1> SUFFICES ASSUME CycleInv, [Next]_vars PROVE PlacedInv' /\ HeaderInv'
  BY TypeStep DEF CycleInv
<1>1. CASE UNCHANGED vars
  BY <1>1, StutterCycle
<1>2. ASSUME NEW m \in Msgs, Publish(m) PROVE PlacedInv' /\ HeaderInv'
  BY <1>2, PublishCycle
<1>3. ASSUME NEW q \in Names, Overflow(q) PROVE PlacedInv' /\ HeaderInv'
  BY <1>3, OverflowCycle
<1>4. CASE Expire
  BY <1>4, ExpireCycle
<1>5. CASE Deliver
  BY <1>5, DeliverCycle
<1>6. CASE Discard
  BY <1>6, DiscardCycle
<1>7. CASE GiveUpRetrying
  BY <1>7, GiveUpCycle
<1>8. ASSUME NEW result \in {"ok", "retryable", "error"}, Handle(result)
      PROVE  PlacedInv' /\ HeaderInv'
  BY <1>8, HandleCycle
<1> QED BY <1>1, <1>2, <1>3, <1>4, <1>5, <1>6, <1>7, <1>8
        DEF Next, Broker, Dispatcher

\* The invariant holds in every reachable state.
LEMMA CycleInvariant == Spec => []CycleInv
<1>1. Init => CycleInv
  BY InitCycle
<1>2. CycleInv /\ [Next]_vars => CycleInv'
  BY CycleStep
<1> QED BY <1>1, <1>2, PTL DEF Spec

\* A message in the main queue or with the consumer is new to the handlers or
\* back from the retry queue.
LEMMA ArrivingFacts ==
    ASSUME CycleInv, def.dlqLimit = 0, NEW m \in Arriving
    PROVE  m \in Msgs /\ (Unread(m) \/ Back(m)) /\ TypeOK
<1>1. TypeOK
  BY DEF CycleInv
<1>2. CASE m \in Range(queue["main"])
  <2>1. queue["main"] \in Seq(Msgs)
    BY <1>1 DEF TypeOK, Names
  <2>2. \A i \in DOMAIN queue["main"] : queue["main"][i] \in Msgs
    BY <2>1
  <2>3. m \in Msgs
    BY <1>2, <2>2 DEF Range
  <2>4. Fits(m)
    BY <2>3 DEF CycleInv, HeaderInv
  <2> QED BY <1>1, <1>2, <2>3, <2>4 DEF Fits
<1>3. CASE m \in {hand} \ {None}
  <2>1. hand # None /\ m = hand
    BY <1>3
  <2> QED BY <1>1, <2>1, HandFacts
<1> QED BY <1>2, <1>3 DEF Arriving

-----------------------------------------------------------------------------
(* The theorems.                                                           *)

\* Every variable has its type: the queues hold messages, and the x-death
\* headers entries that the broker writes for these three queues.
THEOREM TypeCorrect == Spec => []TypeOK
<1>1. Init => TypeOK
  BY TypeInit
<1>2. TypeOK /\ [Next]_vars => TypeOK'
  BY TypeStep
<1> QED BY <1>1, <1>2, PTL DEF Spec

\* As long as the DLQ keeps what it holds, extractMetadata reads from the
\* header of a message the exchange and routing key it was published with,
\* however often it came back from the retry queue.
THEOREM OriginStays == Spec => []OriginKept
<1>1. CycleInv => OriginKept
  <2> SUFFICES ASSUME CycleInv, def.dlqLimit = 0, NEW m \in Arriving
               PROVE  Origin(m) = Published
    BY DEF OriginKept
  <2>1. m \in Msgs /\ (Unread(m) \/ Back(m)) /\ TypeOK
    BY ArrivingFacts
  <2> QED BY <2>1, OriginFacts
<1> QED BY <1>1, CycleInvariant, PTL

\* The count processReceivedMessage compares with the retries of the queue
\* is the number of times the message came back from the retry queue.
THEOREM CountIsReturns == Spec => []CountsReturns
<1>1. CycleInv => CountsReturns
  <2> SUFFICES ASSUME CycleInv, def.dlqLimit = 0, NEW m \in Arriving
               PROVE  XCount(m) = returns[m]
    BY DEF CountsReturns
  <2>1. m \in Msgs /\ (Unread(m) \/ Back(m)) /\ TypeOK
    BY ArrivingFacts
  <2> QED BY <2>1, OriginFacts
<1> QED BY <1>1, CycleInvariant, PTL

\* With retries the handler sees a message at most Retries times, whatever
\* it returns.
THEOREM HandlerIsBounded == Spec => []HandlerBound
<1>1. CycleInv => HandlerBound
  BY DEF CycleInv, HeaderInv, Fits, HandlerBound
<1> QED BY <1>1, CycleInvariant, PTL

\* With a DLQ whose length is not limited no message is lost, except those
\* that overflowed the main queue.
THEOREM OnlyOverflowLoses == Spec => []LostOnlyByOverflow
<1>1. CycleInv => LostOnlyByOverflow
  BY DEF CycleInv, HeaderInv, Fits, LostOnlyByOverflow
<1> QED BY <1>1, CycleInvariant, PTL

=============================================================================
