-------------------------- MODULE DispatcherProofs --------------------------
(* Theorems about Dispatcher, for every value of its constants.            *)
EXTENDS Dispatcher, SequenceLemmas

(***************************************************************************)
(* The deliveries in the client and those at the broker.                   *)
(***************************************************************************)

\* A goroutine past the receive has its delivery; one outside the range loop
\* has none and no consumer; a consumer is on an open channel.
LoopInv ==
    \A q \in Queues :
        /\ pc[q] \in {"process", "handle", "publish", "ackAgain"} =>
               inbox[q] # <<>>
        /\ pc[q] \in {"check", "consume", "stopped"} =>
               inbox[q] = <<>> /\ q \notin subscribed
        /\ q \in subscribed => chan[q] \in open

\* A consumer gets the messages of its queue, and a tag that is alive has a
\* place among the unsettled deliveries of its channel.
BoxInv ==
    \A q \in Queues : \A i \in DOMAIN inbox[q] :
        /\ QueueOf[inbox[q][i].msg] = q
        /\ inbox[q][i].live /\ chan[q] \in open =>
               \E j \in DOMAIN unacked[chan[q]] :
                   unacked[chan[q]][j] = inbox[q][i].msg

DeliveryInv == TypeOK /\ LoopInv /\ BoxInv

\* The initial state: nothing was delivered.
LEMMA DeliveryInit == Init => DeliveryInv
<1> SUFFICES ASSUME Init PROVE DeliveryInv
  OBVIOUS
<1>1. ch \in Chans
  BY ChansAssumption DEF Init
<1>2. unacked \in [Chans -> Seq(Msgs)] /\ inbox \in [Queues -> Seq(Delivery)]
  BY EmptySeq DEF Init
<1>3. TypeOK
  <2>1. at \in [Msgs -> {"ready", "unacked", "retry", "gone"}]
    BY DEF Init
  <2>2. deaths \in [Msgs -> 0..MaxDeaths]
    BY LimitsAssumption DEF Init
  <2>3. open \subseteq Chans /\ limited \subseteq Chans
    BY <1>1 DEF Init
  <2>4. /\ pc \in [Queues -> {"check", "consume", "receive", "process",
                              "handle", "publish", "ackAgain", "stopped"}]
        /\ chan \in [Queues -> Chans \cup {NoChan}] /\ HasChannel
    BY DEF Init, HasChannel
  <2>5. /\ last \in [Msgs -> {"none", "ok", "retryable", "error"}]
        /\ invoked \in [Msgs -> Nat] /\ requeued \in [Msgs -> Nat]
    BY DEF Init
  <2> QED BY <1>1, <1>2, <2>1, <2>2, <2>3, <2>4, <2>5 DEF Init, TypeOK
<1>4. LoopInv /\ BoxInv
  BY DEF Init, LoopInv, BoxInv
<1> QED BY <1>3, <1>4 DEF DeliveryInv

\* What is left of the unsettled deliveries after a settlement: all that the
\* settlement does not cover.
LEMMA LeftFacts ==
    ASSUME unacked \in [Chans -> Seq(Msgs)], NEW k \in Chans, NEW m,
           NEW multiple \in BOOLEAN,
           \E j \in DOMAIN unacked[k] : unacked[k][j] = m
    PROVE  /\ Left(k, m, multiple) \in Seq(Msgs)
           /\ Covered(k, m, multiple) \subseteq Msgs
           /\ m \in Covered(k, m, multiple)
           /\ \A x \in Covered(k, m, multiple) :
                 \E j \in DOMAIN unacked[k] : unacked[k][j] = x
           /\ \A j \in DOMAIN unacked[k] :
                 unacked[k][j] \notin Covered(k, m, multiple) =>
                     \E i \in DOMAIN Left(k, m, multiple) :
                         Left(k, m, multiple)[i] = unacked[k][j]
<1> DEFINE s == unacked[k]
           p == Place(k, m)
<1>1. s \in Seq(Msgs) /\ DOMAIN s = 1..Len(s) /\ Len(s) \in Nat
  OBVIOUS
<1>2. p \in 1..Len(s) /\ s[p] = m
  BY <1>1 DEF Place
<1>3. /\ multiple => Left(k, m, multiple) = SubSeq(s, p + 1, Len(s))
      /\ multiple => Covered(k, m, multiple) = {s[i] : i \in 1..p}
      /\ ~multiple => Left(k, m, multiple) = RemoveAt(s, p)
      /\ ~multiple => Covered(k, m, multiple) = {m}
  BY DEF Left, Covered
<1>4. s = unacked[k]
  OBVIOUS
<1> HIDE DEF s, p
<1>5. CASE multiple
  <2>0. /\ Left(k, m, multiple) = SubSeq(s, p + 1, Len(s))
        /\ Covered(k, m, multiple) = {s[i] : i \in 1..p}
    BY <1>3, <1>5, Zenon
  <2>1. p \in 0..Len(s)
    BY <1>1, <1>2
  <2>2. /\ SubSeq(s, p + 1, Len(s)) \in Seq(Msgs)
        /\ Len(SubSeq(s, p + 1, Len(s))) = Len(s) - p
        /\ \A i \in 1..Len(s) - p : SubSeq(s, p + 1, Len(s))[i] = s[p + i]
    BY <1>1, <2>1, SuffixFacts
  <2>3. ASSUME NEW j \in 1..Len(s), s[j] \notin Covered(k, m, multiple)
        PROVE  \E i \in DOMAIN Left(k, m, multiple) :
                   Left(k, m, multiple)[i] = s[j]
    <3>1. j > p
      BY <2>0, <2>3, <1>1, <1>2
    <3>2. j - p \in 1..Len(s) - p /\ p + (j - p) = j
      BY <3>1, <1>1, <1>2
    <3>3. j - p \in DOMAIN Left(k, m, multiple)
      BY <2>0, <2>2, <3>2
    <3> QED BY <2>0, <2>2, <3>2, <3>3
  <2>4. \A x \in Covered(k, m, multiple) : \E j \in DOMAIN s : s[j] = x
    <3> SUFFICES ASSUME NEW x \in Covered(k, m, multiple)
                 PROVE  \E j \in DOMAIN s : s[j] = x
      OBVIOUS
    <3>1. PICK i \in 1..p : x = s[i]
      BY <2>0
    <3>2. i \in DOMAIN s
      BY <1>1, <1>2
    <3> QED BY <3>1, <3>2
  <2>5. Covered(k, m, multiple) \subseteq Msgs /\ m \in Covered(k, m, multiple)
    <3>1. \A j \in DOMAIN s : s[j] \in Msgs
      BY <1>1
    <3>2. p \in 1..p
      BY <1>1, <1>2
    <3> QED BY <2>0, <2>4, <3>1, <3>2, <1>2
  <2>6. \A j \in DOMAIN s : s[j] \notin Covered(k, m, multiple) =>
            \E i \in DOMAIN Left(k, m, multiple) :
                Left(k, m, multiple)[i] = s[j]
    BY <2>3, <1>1
  <2>7. Left(k, m, multiple) \in Seq(Msgs)
    BY <2>0, <2>2
  <2> QED BY <2>4, <2>5, <2>6, <2>7, <1>4
<1>6. CASE ~multiple
  <2>0. Left(k, m, multiple) = RemoveAt(s, p) /\ Covered(k, m, multiple) = {m}
    BY <1>3, <1>6, Zenon
  <2>1. /\ RemoveAt(s, p) \in Seq(Msgs)
        /\ Len(RemoveAt(s, p)) = Len(s) - 1
        /\ \A i \in 1..p - 1 : RemoveAt(s, p)[i] = s[i]
        /\ \A i \in p..Len(s) - 1 : RemoveAt(s, p)[i] = s[i + 1]
    BY <1>1, <1>2, RemoveAtFacts
  <2>2. ASSUME NEW j \in 1..Len(s), s[j] # m
        PROVE  \E i \in DOMAIN RemoveAt(s, p) : RemoveAt(s, p)[i] = s[j]
    <3>1. DOMAIN RemoveAt(s, p) = 1..Len(s) - 1
      BY <2>1
    <3>2. CASE j < p
      <4>1. j \in 1..p - 1 /\ j \in 1..Len(s) - 1
        BY <3>2, <1>1, <1>2
      <4> QED BY <3>1, <4>1, <2>1
    <3>3. CASE j > p
      <4>1. j - 1 \in p..Len(s) - 1 /\ j - 1 \in 1..Len(s) - 1
        BY <3>3, <1>1, <1>2
      <4>2. RemoveAt(s, p)[j - 1] = s[(j - 1) + 1] /\ (j - 1) + 1 = j
        BY <4>1, <2>1, <1>1
      <4> QED BY <3>1, <4>1, <4>2
    <3>4. j # p
      BY <2>2, <1>2
    <3> QED BY <3>2, <3>3, <3>4, <1>1, <1>2
  <2> QED BY <2>0, <2>1, <2>2, <1>1, <1>2, <1>4
<1> QED BY <1>5, <1>6

\* box is an inbox whose deliveries belong to their queues and channels in
\* the next state.
Fits(box) ==
    /\ box \in [Queues -> Seq(Delivery)]
    /\ \A q \in Queues : \A i \in DOMAIN box[q] :
          /\ QueueOf[box[q][i].msg] = q
          /\ box[q][i].live /\ chan[q] \in open' =>
                \E j \in DOMAIN unacked'[chan[q]] :
                    unacked'[chan[q]][j] = box[q][i].msg

\* Dropping the first delivery of a queue keeps the others where they belong.
LEMMA TailFits ==
    ASSUME NEW box, Fits(box), NEW q \in Queues, box[q] # <<>>
    PROVE  Fits([box EXCEPT ![q] = Tail(@)])
<1>1. box[q] \in Seq(Delivery)
  BY DEF Fits
<1>2. /\ Tail(box[q]) \in Seq(Delivery) /\ DOMAIN box[q] = 1..Len(box[q])
      /\ Len(Tail(box[q])) = Len(box[q]) - 1 /\ Len(box[q]) \in Nat
      /\ DOMAIN Tail(box[q]) = 1..Len(Tail(box[q]))
      /\ \A i \in 1..Len(Tail(box[q])) : Tail(box[q])[i] = box[q][i + 1]
  BY <1>1, HeadTailProperties, LenProperties
<1>3. \A i \in DOMAIN Tail(box[q]) :
          i + 1 \in DOMAIN box[q] /\ Tail(box[q])[i] = box[q][i + 1]
  BY <1>2
<1> DEFINE new == [box EXCEPT ![q] = Tail(@)]
<1>4. new \in [Queues -> Seq(Delivery)]
  BY <1>2 DEF Fits
<1>5. ASSUME NEW r \in Queues, NEW i \in DOMAIN new[r]
      PROVE  \E j \in DOMAIN box[r] : new[r][i] = box[r][j]
  BY <1>3, <1>5 DEF Fits
<1> HIDE DEF new
<1>6. ASSUME NEW r \in Queues, NEW i \in DOMAIN new[r]
      PROVE  /\ QueueOf[new[r][i].msg] = r
             /\ new[r][i].live /\ chan[r] \in open' =>
                   \E j \in DOMAIN unacked'[chan[r]] :
                       unacked'[chan[r]][j] = new[r][i].msg
  <2>1. PICK j \in DOMAIN box[r] : new[r][i] = box[r][j]
    BY <1>5
  <2> QED BY <2>1 DEF Fits
<1>7. Fits(new)
  BY <1>4, <1>6 DEF Fits
<1> QED BY <1>7 DEF new

\* Channels that close take the unsettled deliveries with them; what the
\* goroutines in B are working on stays in their hands.
LEMMA CloseFits ==
    ASSUME DeliveryInv, NEW K \in SUBSET Chans, NEW B \in SUBSET Queues,
           \A q \in B : inbox[q] # <<>>, CloseChannels(K)
    PROVE  /\ open' \subseteq Chans /\ unacked' \in [Chans -> Seq(Msgs)]
           /\ at' \in [Msgs -> {"ready", "unacked", "retry", "gone"}]
           /\ requeued' \in [Msgs -> Nat] /\ subscribed' \subseteq subscribed
           /\ \A q \in subscribed' : chan[q] \in open'
           /\ UNCHANGED <<limited, deaths, dlq>>
           /\ Fits(LostInbox(K, B))
           /\ \A q \in Queues :
                 /\ inbox[q] = <<>> => LostInbox(K, B)[q] = <<>>
                 /\ q \in B => LostInbox(K, B)[q] # <<>>
<1> USE DEF DeliveryInv
<1>1. open' \subseteq Chans /\ UNCHANGED <<limited, deaths, dlq>>
  BY DEF CloseChannels, TypeOK
<1>2. unacked' \in [Chans -> Seq(Msgs)]
  BY EmptySeq DEF CloseChannels, TypeOK
<1>3. at' \in [Msgs -> {"ready", "unacked", "retry", "gone"}]
  BY DEF CloseChannels, TypeOK
<1>4. requeued' \in [Msgs -> Nat]
  BY DEF CloseChannels, TypeOK
<1>5. /\ subscribed' \subseteq subscribed
      /\ \A q \in subscribed' : chan[q] \in open'
  BY DEF CloseChannels, TypeOK, LoopInv
<1> DEFINE box == LostInbox(K, B)
<1>6. ASSUME NEW q \in Queues
      PROVE  /\ box[q] \in Seq(Delivery)
             /\ inbox[q] = <<>> => box[q] = <<>>
             /\ q \in B => box[q] # <<>>
             /\ \A i \in DOMAIN box[q] :
                   i \in DOMAIN inbox[q] /\ box[q][i] = inbox[q][i]
             /\ chan[q] \in open' => box[q] = inbox[q]
  <2>1. inbox[q] \in Seq(Delivery)
    BY DEF TypeOK
  <2>2. CASE chan[q] \notin K
    BY <2>1, <2>2 DEF LostInbox
  <2>3. CASE chan[q] \in K /\ q \in B
    <3>1. box[q] = <<Head(inbox[q])>> /\ inbox[q] # <<>>
      BY <2>3 DEF LostInbox
    <3>2. Head(inbox[q]) \in Delivery /\ Head(inbox[q]) = inbox[q][1]
          /\ 1 \in DOMAIN inbox[q]
      BY <2>1, <3>1
    <3>3. chan[q] \notin open'
      BY <2>3 DEF CloseChannels
    <3> HIDE DEF box
    <3> QED BY <3>1, <3>2, <3>3
  <2>4. CASE chan[q] \in K /\ q \notin B
    <3>1. box[q] = <<>>
      BY <2>4 DEF LostInbox
    <3>2. chan[q] \notin open'
      BY <2>4 DEF CloseChannels
    <3> HIDE DEF box
    <3> QED BY <2>4, <3>1, <3>2
  <2> QED BY <2>2, <2>3, <2>4
<1>7. box \in [Queues -> Seq(Delivery)]
  <2>1. box = [q \in Queues |-> box[q]]
    BY DEF LostInbox
  <2> HIDE DEF box
  <2> QED BY <1>6, <2>1
<1>8. ASSUME NEW q \in Queues, chan[q] \in open'
      PROVE  unacked'[chan[q]] = unacked[chan[q]] /\ chan[q] \in open
  BY <1>8 DEF CloseChannels, TypeOK
<1> HIDE DEF box
<1>9. Fits(box)
  BY <1>6, <1>7, <1>8 DEF Fits, BoxInv
<1> QED BY <1>1, <1>2, <1>3, <1>4, <1>5, <1>6, <1>9 DEF box


\* A settlement over channel k makes tags invalid, and changes nothing else in
\* the inboxes.
LEMMA StaleShape ==
    ASSUME TypeOK, NEW k, NEW S
    PROVE  /\ Stale(k, S) \in [Queues -> Seq(Delivery)]
           /\ \A r \in Queues :
                /\ DOMAIN Stale(k, S)[r] = DOMAIN inbox[r]
                /\ Len(Stale(k, S)[r]) = Len(inbox[r])
                /\ \A i \in DOMAIN inbox[r] :
                     /\ Stale(k, S)[r][i].msg = inbox[r][i].msg
                     /\ Stale(k, S)[r][i].count = inbox[r][i].count
                     /\ Stale(k, S)[r][i].live <=>
                          /\ inbox[r][i].live
                          /\ ~(chan[r] = k /\ inbox[r][i].msg \in S)
<1> DEFINE box == Stale(k, S)
<1>1. ASSUME NEW r \in Queues
      PROVE  /\ box[r] \in Seq(Delivery) /\ DOMAIN box[r] = DOMAIN inbox[r]
             /\ Len(box[r]) = Len(inbox[r])
             /\ \A i \in DOMAIN inbox[r] :
                  /\ box[r][i].msg = inbox[r][i].msg
                  /\ box[r][i].count = inbox[r][i].count
                  /\ box[r][i].live <=>
                       /\ inbox[r][i].live
                       /\ ~(chan[r] = k /\ inbox[r][i].msg \in S)
  <2> DEFINE s == inbox[r]
             t == [i \in DOMAIN s |-> IF chan[r] = k /\ s[i].msg \in S
                      THEN [s[i] EXCEPT !.live = FALSE] ELSE s[i]]
  <2>1. s \in Seq(Delivery) /\ \A i \in DOMAIN s : s[i] \in Delivery
    BY DEF TypeOK
  <2>2. box[r] = t
    BY DEF Stale
  <2>3. t \in [DOMAIN s -> Delivery]
    BY <2>1 DEF Delivery
  <2>4. t \in Seq(Delivery) /\ Len(t) = Len(s) /\ DOMAIN t = DOMAIN s
    <3> HIDE DEF s, t
    <3> QED BY <2>1, <2>3, SameShape
  <2>5. ASSUME NEW i \in DOMAIN s
        PROVE  /\ t[i].msg = s[i].msg /\ t[i].count = s[i].count
               /\ t[i].live <=> s[i].live /\ ~(chan[r] = k /\ s[i].msg \in S)
    <3>1. CASE chan[r] = k /\ s[i].msg \in S
      <4>1. t[i] = [s[i] EXCEPT !.live = FALSE]
        BY <3>1
      <4>2. /\ t[i].msg = s[i].msg /\ t[i].count = s[i].count
            /\ t[i].live = FALSE
        BY <4>1, <2>1 DEF Delivery
      <4> QED BY <3>1, <4>2
    <3>2. CASE ~(chan[r] = k /\ s[i].msg \in S)
      <4>1. t[i] = s[i]
        BY <3>2
      <4> QED BY <3>2, <4>1
    <3> QED BY <3>1, <3>2
  <2> QED BY <2>2, <2>4, <2>5
<1>2. box \in [Queues -> Seq(Delivery)]
  <2>1. box = [r \in Queues |-> box[r]]
    BY DEF Stale
  <2> HIDE DEF box
  <2> QED BY <1>1, <2>1
<1> QED BY <1>1, <1>2

\* A settlement, with everything it may do to the other consumers of the
\* channel.
Settlement(q, done) ==
    /\ open' \subseteq Chans /\ unacked' \in [Chans -> Seq(Msgs)]
    /\ at' \in [Msgs -> {"ready", "unacked", "retry", "gone"}]
    /\ requeued' \in [Msgs -> Nat] /\ subscribed' \subseteq subscribed
    /\ \A r \in subscribed' : chan[r] \in open'
    /\ UNCHANGED <<limited, deaths>> /\ dlq' \subseteq Msgs
    /\ unknownTag' \in BOOLEAN
    /\ Fits(inbox')
    /\ \A r \in Queues :
          /\ inbox[r] = <<>> => inbox'[r] = <<>>
          /\ r \in Busy /\ r # q => inbox'[r] # <<>>
    /\ ~done => inbox'[q] # <<>>

\* Acknowledging or rejecting keeps the deliveries consistent, whichever of
\* its three outcomes it has.
LEMMA SettleFits ==
    ASSUME DeliveryInv, NEW q \in Queues, inbox[q] # <<>>,
           NEW multiple \in BOOLEAN, NEW dead \in BOOLEAN,
           NEW done \in BOOLEAN, Settle(q, multiple, dead, done)
    PROVE  Settlement(q, done)
<1> USE DEF DeliveryInv
<1> DEFINE k == chan[q]
           m == Current(q)
           Rest(box) == [box EXCEPT ![q] = IF done THEN Tail(@) ELSE @]
<1>1. /\ Head(inbox[q]) \in Delivery /\ Head(inbox[q]) = inbox[q][1]
      /\ 1 \in DOMAIN inbox[q] /\ m \in Msgs
  <2>1. inbox[q] \in Seq(Delivery)
    BY DEF TypeOK
  <2>2. /\ Head(inbox[q]) \in Delivery /\ Head(inbox[q]) = inbox[q][1]
        /\ 1 \in DOMAIN inbox[q]
    BY <2>1
  <2> QED BY <2>2 DEF Current, Delivery
<1>2. Busy \subseteq Queues /\ \A r \in Busy : inbox[r] # <<>>
  BY DEF Busy, LoopInv
<1>3. ASSUME NEW box, Fits(box),
             \A r \in Queues :
                /\ inbox[r] = <<>> => box[r] = <<>>
                /\ r \in Busy \cup {q} => box[r] # <<>>,
             inbox' = Rest(box)
      PROVE  /\ Fits(inbox')
             /\ \A r \in Queues :
                  /\ inbox[r] = <<>> => inbox'[r] = <<>>
                  /\ r \in Busy /\ r # q => inbox'[r] # <<>>
             /\ ~done => inbox'[q] # <<>>
  <2>1. CASE done
    <3>1. inbox' = [box EXCEPT ![q] = Tail(@)]
      BY <1>3, <2>1
    <3>2. box[q] # <<>> /\ box \in [Queues -> Seq(Delivery)]
      BY <1>3 DEF Fits
    <3>3. Fits([box EXCEPT ![q] = Tail(@)])
      BY <1>3, <3>2, TailFits
    <3>4. Fits(inbox')
      BY <3>1, <3>3
    <3>5. \A r \in Queues :
             /\ inbox[r] = <<>> => inbox'[r] = <<>>
             /\ r \in Busy /\ r # q => inbox'[r] # <<>>
      BY <1>3, <3>1, <3>2
    <3> QED BY <2>1, <3>4, <3>5
  <2>2. CASE ~done
    <3>1. inbox' = box
      BY <1>3, <2>2 DEF Fits
    <3> QED BY <1>3, <3>1
  <2> QED BY <2>1, <2>2
<1>4. CASE /\ k \notin open /\ inbox' = Rest(inbox)
           /\ UNCHANGED <<channels, stored, subscribed, requeued, unknownTag>>
  <2>1. Fits(inbox)
    BY <1>4 DEF Fits, BoxInv, TypeOK, channels
  <2>2. /\ Fits(inbox')
        /\ \A r \in Queues :
             /\ inbox[r] = <<>> => inbox'[r] = <<>>
             /\ r \in Busy /\ r # q => inbox'[r] # <<>>
        /\ ~done => inbox'[q] # <<>>
    BY <1>2, <1>3, <1>4, <2>1
  <2>3. unknownTag' \in BOOLEAN
    BY <1>4 DEF TypeOK
  <2> QED BY <1>4, <2>2, <2>3
          DEF Settlement, TypeOK, LoopInv, channels, stored
<1>5. CASE /\ k \in open /\ Head(inbox[q]).live /\ Settled(k, m, multiple, dead)
           /\ inbox' = Rest(Stale(k, Covered(k, m, multiple)))
           /\ UNCHANGED unknownTag
  <2> DEFINE S == Covered(k, m, multiple)
             box == Stale(k, S)
  <2>1. k \in Chans /\ \E j \in DOMAIN unacked[k] : unacked[k][j] = m
    BY <1>1, <1>5 DEF TypeOK, BoxInv, Current
  <2>2. /\ Left(k, m, multiple) \in Seq(Msgs) /\ S \subseteq Msgs
        /\ \A j \in DOMAIN unacked[k] : unacked[k][j] \notin S =>
              \E i \in DOMAIN Left(k, m, multiple) :
                  Left(k, m, multiple)[i] = unacked[k][j]
    <3>1. unacked \in [Chans -> Seq(Msgs)]
      BY DEF TypeOK
    <3> QED BY <2>1, <3>1, LeftFacts
  <2>3. /\ unacked' = [unacked EXCEPT ![k] = Left(k, m, multiple)]
        /\ UNCHANGED <<open, limited, deaths, subscribed, requeued>>
    BY <1>5 DEF Settled
  <2>4. unacked' \in [Chans -> Seq(Msgs)]
    BY <2>2, <2>3 DEF TypeOK
  <2>5. at' \in [Msgs -> {"ready", "unacked", "retry", "gone"}]
    BY <1>5 DEF Settled, TypeOK
  <2>6. dlq' \subseteq Msgs
    BY <1>5, <2>2 DEF Settled, TypeOK
  <2> HIDE DEF S
  <2>7. /\ box \in [Queues -> Seq(Delivery)]
        /\ \A r \in Queues :
             /\ DOMAIN box[r] = DOMAIN inbox[r] /\ Len(box[r]) = Len(inbox[r])
             /\ \A i \in DOMAIN box[r] :
                  /\ box[r][i].msg = inbox[r][i].msg
                  /\ box[r][i].live => inbox[r][i].live
                  /\ box[r][i].live /\ chan[r] = k => inbox[r][i].msg \notin S
    BY StaleShape
  <2>8. box \in [Queues -> Seq(Delivery)]
    BY <2>7
  <2> HIDE DEF box
  <2>9. Fits(box)
    <3>1. unacked'[k] = Left(k, m, multiple)
          /\ \A c \in Chans \ {k} : unacked'[c] = unacked[c]
      BY <2>1, <2>3 DEF TypeOK
    <3>2. ASSUME NEW r \in Queues, NEW i \in DOMAIN box[r]
          PROVE  /\ QueueOf[box[r][i].msg] = r
                 /\ box[r][i].live /\ chan[r] \in open' =>
                       \E j \in DOMAIN unacked'[chan[r]] :
                           unacked'[chan[r]][j] = box[r][i].msg
      <4>1. QueueOf[box[r][i].msg] = r
        BY <2>7 DEF BoxInv
      <4>2. ASSUME box[r][i].live, chan[r] \in open'
            PROVE  \E j \in DOMAIN unacked'[chan[r]] :
                       unacked'[chan[r]][j] = box[r][i].msg
        <5>1. chan[r] \in open /\ chan[r] \in Chans
          BY <4>2, <2>3 DEF TypeOK
        <5>2. /\ box[r][i].msg = inbox[r][i].msg
              /\ \E j \in DOMAIN unacked[chan[r]] :
                    unacked[chan[r]][j] = inbox[r][i].msg
          BY <4>2, <5>1, <2>7 DEF BoxInv
        <5>3. CASE chan[r] = k
          BY <4>2, <5>2, <5>3, <2>2, <2>7, <3>1
        <5>4. CASE chan[r] # k
          BY <5>1, <5>2, <5>4, <3>1
        <5> QED BY <5>3, <5>4
      <4> QED BY <4>1, <4>2
    <3> QED BY <2>8, <3>2 DEF Fits
  <2>10. \A r \in Queues : /\ inbox[r] = <<>> => box[r] = <<>>
                           /\ r \in Busy \cup {q} => box[r] # <<>>
    <3>1. \A r \in Queues : box[r] = <<>> <=> inbox[r] = <<>>
      BY <2>7 DEF TypeOK
    <3> QED BY <3>1, <1>2
  <2>11. inbox' = Rest(box)
    BY <1>5 DEF box, S
  <2>12. /\ Fits(inbox')
         /\ \A r \in Queues :
              /\ inbox[r] = <<>> => inbox'[r] = <<>>
              /\ r \in Busy /\ r # q => inbox'[r] # <<>>
         /\ ~done => inbox'[q] # <<>>
    BY <1>3, <2>9, <2>10, <2>11
  <2>13. unknownTag' \in BOOLEAN
    BY <1>5 DEF TypeOK
  <2> QED BY <2>3, <2>4, <2>5, <2>6, <2>12, <2>13
          DEF Settlement, TypeOK, LoopInv
<1>6. CASE /\ k \in open /\ CloseChannels({k})
           /\ inbox' = Rest(LostInbox({k}, Busy \cup {q})) /\ unknownTag' = TRUE
  <2> DEFINE box == LostInbox({k}, Busy \cup {q})
  <2>1. {k} \in SUBSET Chans /\ Busy \cup {q} \in SUBSET Queues
    BY <1>2, <1>6 DEF TypeOK
  <2>2. \A r \in Busy \cup {q} : inbox[r] # <<>>
    BY <1>2
  <2>3. /\ open' \subseteq Chans /\ unacked' \in [Chans -> Seq(Msgs)]
        /\ at' \in [Msgs -> {"ready", "unacked", "retry", "gone"}]
        /\ requeued' \in [Msgs -> Nat] /\ subscribed' \subseteq subscribed
        /\ \A r \in subscribed' : chan[r] \in open'
        /\ UNCHANGED <<limited, deaths, dlq>>
        /\ Fits(box)
        /\ \A r \in Queues :
              /\ inbox[r] = <<>> => box[r] = <<>>
              /\ r \in Busy \cup {q} => box[r] # <<>>
    BY <1>6, <2>1, <2>2, CloseFits
  <2> HIDE DEF box
  <2>4. inbox' = Rest(box)
    BY <1>6 DEF box
  <2>5. /\ Fits(inbox')
        /\ \A r \in Queues :
             /\ inbox[r] = <<>> => inbox'[r] = <<>>
             /\ r \in Busy /\ r # q => inbox'[r] # <<>>
        /\ ~done => inbox'[q] # <<>>
    BY <1>3, <2>3, <2>4
  <2>6. dlq' \subseteq Msgs
    BY <2>3 DEF TypeOK
  <2>7. unknownTag' \in BOOLEAN
    BY <1>6
  <2> QED BY <2>3, <2>5, <2>6, <2>7 DEF Settlement
<1> QED BY <1>4, <1>5, <1>6, Zenon DEF Settle


Labels == {"check", "consume", "receive", "process", "handle", "publish",
           "ackAgain", "stopped"}

\* A goroutine keeps its channel until it returns to the outer loop.
LEMMA ChannelKept ==
    ASSUME HasChannel, chan' = chan,
           \A q \in Queues :
               \/ pc'[q] = pc[q] \/ pc'[q] = "check"
               \/ pc[q] \notin {"check", "stopped"}
    PROVE  HasChannel'
BY DEF HasChannel

\* What a goroutine does around a settlement: it moves to another place
\* within the range loop, and leaves the loops of the others alone.
LEMMA SettleAction ==
    ASSUME DeliveryInv, NEW q \in Queues, inbox[q] # <<>>,
           NEW multiple \in BOOLEAN, NEW dead \in BOOLEAN,
           NEW done \in BOOLEAN, Settle(q, multiple, dead, done),
           UNCHANGED <<fixed, links, consuming, chan, faults>>,
           NEW l \in {"receive", "process", "handle", "publish", "ackAgain"},
           pc[q] \in {"receive", "process", "handle", "publish", "ackAgain"},
           pc' = [pc EXCEPT ![q] = l], done => l = "receive",
           last' \in [Msgs -> {"none", "ok", "retryable", "error"}],
           invoked' \in [Msgs -> Nat], unpublished' \subseteq Msgs
    PROVE  DeliveryInv'
<1> USE DEF DeliveryInv
<1>1. Settlement(q, done)
  BY SettleFits
<1>2. TypeOK'
  <2>1. pc' \in [Queues -> Labels]
    BY DEF TypeOK, Labels
  <2>2. subscribed' \subseteq Queues /\ inbox' \in [Queues -> Seq(Delivery)]
    BY <1>1 DEF Settlement, TypeOK, Fits
  <2>3. /\ open' \subseteq Chans /\ unacked' \in [Chans -> Seq(Msgs)]
        /\ at' \in [Msgs -> {"ready", "unacked", "retry", "gone"}]
        /\ requeued' \in [Msgs -> Nat] /\ UNCHANGED <<limited, deaths>>
        /\ dlq' \subseteq Msgs /\ unknownTag' \in BOOLEAN
    BY <1>1 DEF Settlement
  <2>4. HasChannel'
    BY ChannelKept DEF TypeOK
  <2> QED BY <2>1, <2>2, <2>3, <2>4 DEF TypeOK, Labels, fixed, links
<1>3. LoopInv'
  <2>1. ASSUME NEW r \in Queues, r # q
        PROVE  /\ pc'[r] \in {"process", "handle", "publish", "ackAgain"} =>
                      inbox'[r] # <<>>
               /\ pc'[r] \in {"check", "consume", "stopped"} =>
                      inbox'[r] = <<>> /\ r \notin subscribed'
    <3>1. pc'[r] = pc[r]
      BY <2>1 DEF TypeOK
    <3> QED BY <1>1, <2>1, <3>1 DEF Settlement, LoopInv, Busy
  <2>2. /\ pc'[q] \in {"process", "handle", "publish", "ackAgain"} =>
               inbox'[q] # <<>>
        /\ pc'[q] \notin {"check", "consume", "stopped"}
    <3>1. pc'[q] = l
      BY DEF TypeOK
    <3>2. ~done => inbox'[q] # <<>>
      BY <1>1 DEF Settlement
    <3> QED BY <3>1, <3>2
  <2>3. \A r \in subscribed' : chan'[r] \in open'
    BY <1>1 DEF Settlement
  <2> QED BY <2>1, <2>2, <2>3 DEF LoopInv
<1>4. BoxInv'
  <2>1. Fits(inbox')
    BY <1>1 DEF Settlement
  <2> QED BY <2>1 DEF Fits, BoxInv
<1> QED BY <1>2, <1>3, <1>4

\* The same for an action that only closes channels.
LEMMA CloseAction ==
    ASSUME DeliveryInv, NEW K \in SUBSET Chans, CloseChannels(K),
           inbox' = LostInbox(K, Busy),
           UNCHANGED <<fixed, links, consuming, chan, last, invoked,
                       unknownTag, unpublished>>,
           faults' \in Nat, pc' \in [Queues -> Labels],
           \A q \in Queues :
               \/ pc'[q] = pc[q]
               \/ pc[q] = "consume" /\ pc'[q] = "check"
    PROVE  DeliveryInv'
<1> USE DEF DeliveryInv
<1>1. Busy \in SUBSET Queues /\ \A r \in Busy : inbox[r] # <<>>
  BY DEF Busy, LoopInv
<1>2. /\ open' \subseteq Chans /\ unacked' \in [Chans -> Seq(Msgs)]
      /\ at' \in [Msgs -> {"ready", "unacked", "retry", "gone"}]
      /\ requeued' \in [Msgs -> Nat] /\ subscribed' \subseteq subscribed
      /\ \A q \in subscribed' : chan[q] \in open'
      /\ UNCHANGED <<limited, deaths, dlq>>
      /\ Fits(inbox')
      /\ \A q \in Queues :
            /\ inbox[q] = <<>> => inbox'[q] = <<>>
            /\ q \in Busy => inbox'[q] # <<>>
  BY <1>1, CloseFits
<1>3. TypeOK'
  <2>1. subscribed' \subseteq Queues /\ inbox' \in [Queues -> Seq(Delivery)]
    BY <1>2 DEF TypeOK, Fits
  <2>2. unknownTag' \in BOOLEAN
    BY DEF TypeOK
  <2>3. HasChannel'
    BY ChannelKept DEF TypeOK
  <2> QED BY <1>2, <2>1, <2>2, <2>3 DEF TypeOK, Labels, fixed, links
<1>4. LoopInv'
  <2>1. ASSUME NEW r \in Queues
        PROVE  /\ pc'[r] \in {"process", "handle", "publish", "ackAgain"} =>
                      inbox'[r] # <<>>
               /\ pc'[r] \in {"check", "consume", "stopped"} =>
                      inbox'[r] = <<>> /\ r \notin subscribed'
               /\ r \in subscribed' => chan'[r] \in open'
    BY <1>2 DEF LoopInv, Busy
  <2> QED BY <2>1 DEF LoopInv
<1>5. BoxInv'
  BY <1>2 DEF Fits, BoxInv
<1> QED BY <1>3, <1>4, <1>5


\* The delivery at the head of an inbox that is not empty.
LEMMA CurrentType ==
    ASSUME TypeOK, NEW q \in Queues, inbox[q] # <<>>
    PROVE  /\ Head(inbox[q]) \in Delivery /\ Head(inbox[q]) = inbox[q][1]
           /\ 1 \in DOMAIN inbox[q] /\ Current(q) \in Msgs
<1>1. inbox[q] \in Seq(Delivery)
  BY DEF TypeOK
<1>2. /\ Head(inbox[q]) \in Delivery /\ Head(inbox[q]) = inbox[q][1]
      /\ 1 \in DOMAIN inbox[q]
  BY <1>1
<1> QED BY <1>2 DEF Current, Delivery

\* What the broker does for a consumer keeps the deliveries consistent.
LEMMA DeliverStep ==
    ASSUME DeliveryInv, NEW q \in Queues, Deliver(q)
    PROVE  DeliveryInv'
<1> USE DEF DeliveryInv
<1>1. PICK m \in Msgs :
         /\ QueueOf[m] = q /\ at[m] = "ready"
         /\ at' = [at EXCEPT ![m] = "unacked"]
         /\ unacked' = [unacked EXCEPT ![chan[q]] = Append(@, m)]
         /\ inbox' = [inbox EXCEPT ![q] = Append(@,
                      [msg |-> m, count |-> deaths[m], live |-> TRUE])]
  BY DEF Deliver
<1>2. /\ q \in subscribed
      /\ UNCHANGED <<fixed, open, limited, deaths, dlq, links, consuming, pc,
                     chan, subscribed, history, faults>>
  BY DEF Deliver
<1> DEFINE k == chan[q]
           d == [msg |-> m, count |-> deaths[m], live |-> TRUE]
<1>3. d \in Delivery /\ d.msg = m /\ d.live
  BY DEF Delivery, TypeOK
<1> HIDE DEF d
<1>4. k \in open /\ k \in Chans
  BY <1>2 DEF LoopInv, TypeOK
<1>5. unacked[k] \in Seq(Msgs) /\ inbox[q] \in Seq(Delivery)
  BY <1>4 DEF TypeOK
<1>6. /\ unacked'[k] = Append(unacked[k], m)
      /\ \A c \in Chans \ {k} : unacked'[c] = unacked[c]
      /\ inbox'[q] = Append(inbox[q], d)
      /\ \A r \in Queues \ {q} : inbox'[r] = inbox[r]
  BY <1>1, <1>4 DEF TypeOK, d
<1>7. /\ unacked'[k] \in Seq(Msgs) /\ inbox'[q] \in Seq(Delivery)
      /\ inbox'[q] # <<>>
      /\ DOMAIN inbox'[q] = 1..Len(inbox[q]) + 1
      /\ inbox'[q][Len(inbox[q]) + 1] = d
      /\ \A i \in DOMAIN inbox[q] : inbox'[q][i] = inbox[q][i]
      /\ DOMAIN inbox[q] = 1..Len(inbox[q]) /\ Len(inbox[q]) \in Nat
      /\ \E j \in DOMAIN unacked'[k] : unacked'[k][j] = m
      /\ \A j \in DOMAIN unacked[k] :
            j \in DOMAIN unacked'[k] /\ unacked'[k][j] = unacked[k][j]
  <2>1. /\ Append(unacked[k], m) \in Seq(Msgs)
        /\ Len(Append(unacked[k], m)) = Len(unacked[k]) + 1
        /\ Append(unacked[k], m)[Len(unacked[k]) + 1] = m
        /\ \A j \in 1..Len(unacked[k]) : Append(unacked[k], m)[j] = unacked[k][j]
    BY <1>5, AppendProperties
  <2>2. /\ Append(inbox[q], d) \in Seq(Delivery)
        /\ Len(Append(inbox[q], d)) = Len(inbox[q]) + 1
        /\ Append(inbox[q], d)[Len(inbox[q]) + 1] = d
        /\ \A j \in 1..Len(inbox[q]) : Append(inbox[q], d)[j] = inbox[q][j]
    BY <1>3, <1>5, AppendProperties
  <2>3. /\ Len(inbox[q]) \in Nat /\ DOMAIN inbox[q] = 1..Len(inbox[q])
        /\ Len(unacked[k]) \in Nat /\ DOMAIN unacked[k] = 1..Len(unacked[k])
    BY <1>5, LenProperties
  <2>4. /\ DOMAIN inbox'[q] = 1..Len(inbox[q]) + 1
        /\ DOMAIN unacked'[k] = 1..Len(unacked[k]) + 1
    BY <1>6, <2>1, <2>2, LenProperties
  <2>5. /\ inbox'[q] \in Seq(Delivery)
        /\ inbox'[q][Len(inbox[q]) + 1] = d
        /\ \A i \in DOMAIN inbox[q] : inbox'[q][i] = inbox[q][i]
    BY <1>6, <2>2, <2>3
  <2>6. inbox'[q] # <<>>
    BY <2>3, <2>4
  <2>7. /\ unacked'[k] \in Seq(Msgs)
        /\ \A j \in DOMAIN unacked[k] :
              j \in DOMAIN unacked'[k] /\ unacked'[k][j] = unacked[k][j]
    BY <1>6, <2>1, <2>3, <2>4
  <2>8. \E j \in DOMAIN unacked'[k] : unacked'[k][j] = m
    <3>1. Len(unacked[k]) + 1 \in DOMAIN unacked'[k]
      BY <2>3, <2>4
    <3> QED BY <1>6, <2>1, <3>1
  <2> QED BY <2>3, <2>4, <2>5, <2>6, <2>7, <2>8
<1>8. TypeOK'
  <2>1. at' \in [Msgs -> {"ready", "unacked", "retry", "gone"}]
    BY <1>1 DEF TypeOK
  <2>2. unacked' \in [Chans -> Seq(Msgs)]
    BY <1>1, <1>6, <1>7 DEF TypeOK
  <2>3. inbox' \in [Queues -> Seq(Delivery)]
    BY <1>1, <1>6, <1>7 DEF TypeOK
  <2>4. unknownTag' \in BOOLEAN
    BY <1>2 DEF TypeOK, history
  <2>5. HasChannel'
    BY <1>2, ChannelKept DEF TypeOK
  <2> QED BY <1>2, <2>1, <2>2, <2>3, <2>4, <2>5
          DEF TypeOK, fixed, links, history
<1>9. LoopInv'
  BY <1>2, <1>6, <1>7 DEF LoopInv
<1>10. BoxInv'
  <2>1. ASSUME NEW r \in Queues, NEW i \in DOMAIN inbox'[r]
        PROVE  /\ QueueOf[inbox'[r][i].msg] = r
               /\ inbox'[r][i].live /\ chan[r] \in open =>
                     \E j \in DOMAIN unacked'[chan[r]] :
                         unacked'[chan[r]][j] = inbox'[r][i].msg
    <3>1. CASE r = q /\ i = Len(inbox[q]) + 1
      BY <1>1, <1>3, <1>7, <3>1
    <3>2. CASE ~(r = q /\ i = Len(inbox[q]) + 1)
      <4>1. i \in DOMAIN inbox[r] /\ inbox'[r][i] = inbox[r][i]
        <5>1. CASE r = q
          <6>1. i \in 1..Len(inbox[q]) + 1 /\ i # Len(inbox[q]) + 1
            BY <1>7, <3>2, <5>1
          <6>2. i \in DOMAIN inbox[q]
            BY <1>7, <6>1
          <6> QED BY <1>7, <5>1, <6>2
        <5>2. CASE r # q
          BY <1>6, <5>2
        <5> QED BY <5>1, <5>2
      <4>2. ASSUME chan[r] \in open,
                   NEW j \in DOMAIN unacked[chan[r]]
            PROVE  /\ j \in DOMAIN unacked'[chan[r]]
                   /\ unacked'[chan[r]][j] = unacked[chan[r]][j]
        BY <1>6, <1>7, <4>2 DEF TypeOK
      <4> QED BY <4>1, <4>2 DEF BoxInv
    <3> QED BY <3>1, <3>2
  <2> QED BY <1>2, <2>1 DEF BoxInv
<1> QED BY <1>8, <1>9, <1>10


\* Every step of the consumer goroutines, the broker and the manager does.
LEMMA DeliveryStep == DeliveryInv /\ [Next]_vars => DeliveryInv'
<1> SUFFICES ASSUME DeliveryInv, [Next]_vars PROVE DeliveryInv'
  OBVIOUS
<1> USE DEF DeliveryInv
<1>1. ASSUME NEW q \in Queues, Check(q) PROVE DeliveryInv'
  <2>1. inbox[q] = <<>> /\ q \notin subscribed
    BY <1>1 DEF Check, LoopInv
  <2>2. /\ pc' \in [Queues -> Labels] /\ chan' \in [Queues -> Chans \cup {NoChan}]
        /\ \A r \in Queues \ {q} : pc'[r] = pc[r] /\ chan'[r] = chan[r]
        /\ \/ pc'[q] = "stopped"
           \/ pc'[q] = "consume" /\ chan'[q] \in Chans
    <3>0. /\ ch \in Chans /\ chan \in [Queues -> Chans \cup {NoChan}]
          /\ pc \in [Queues -> Labels]
          /\ "stopped" \in Labels /\ "consume" \in Labels
      BY DEF TypeOK, Labels
    <3>1. CASE Goto(q, "stopped") /\ UNCHANGED chan
      <4>1. pc' = [pc EXCEPT ![q] = "stopped"] /\ chan' = chan
        BY <3>1 DEF Goto
      <4> QED BY <3>0, <4>1
    <3>2. CASE Goto(q, "consume") /\ chan' = [chan EXCEPT ![q] = ch]
      <4>1. pc' = [pc EXCEPT ![q] = "consume"]
        BY <3>2 DEF Goto
      <4> QED BY <3>0, <3>2, <4>1
    <3> QED BY <1>1, <3>1, <3>2 DEF Check
  <2>3. UNCHANGED <<fixed, channels, stored, links, consuming, subscribed,
                    inbox, history, faults>>
    BY <1>1 DEF Check
  <2>4. TypeOK'
    <3>1. unknownTag' \in BOOLEAN /\ consuming' \in BOOLEAN
      BY <2>3 DEF TypeOK, history
    <3>2. HasChannel'
      BY <2>2 DEF TypeOK, HasChannel
    <3> QED BY <2>2, <2>3, <3>1, <3>2
            DEF TypeOK, Labels, fixed, channels, stored, links, history
  <2>5. LoopInv'
    BY <2>1, <2>2, <2>3 DEF LoopInv, channels, TypeOK
  <2>6. BoxInv'
    <3>1. inbox'[q] = <<>>
      BY <2>1, <2>3
    <3>2. \A r \in Queues \ {q} : inbox'[r] = inbox[r] /\ chan'[r] = chan[r]
      BY <2>2, <2>3
    <3>3. open' = open /\ unacked' = unacked
      BY <2>3 DEF channels
    <3> QED BY <3>1, <3>2, <3>3 DEF BoxInv
  <2> QED BY <2>4, <2>5, <2>6
<1>2. ASSUME NEW q \in Queues, Consume(q) PROVE DeliveryInv'
  <2>1. HasChannel'
    BY <1>2, ChannelKept DEF Consume, Goto, TypeOK
  <2>2. TypeOK'
    BY <1>2, <2>1 DEF Consume, Goto, TypeOK, fixed, channels, stored, links,
       history
  <2>3. LoopInv'
    BY <1>2 DEF Consume, Goto, TypeOK, LoopInv, channels
  <2>4. BoxInv'
    BY <1>2 DEF Consume, BoxInv, channels
  <2> QED BY <2>2, <2>3, <2>4
<1>3. ASSUME NEW q \in Queues, ConsumeFailed(q) PROVE DeliveryInv'
  <2>1. /\ UNCHANGED <<fixed, links, consuming, chan, last, invoked,
                       unknownTag, unpublished>>
        /\ pc[q] = "consume" /\ pc' = [pc EXCEPT ![q] = "check"]
    BY <1>3 DEF ConsumeFailed, Goto
  <2>2. CASE UNCHANGED <<channels, stored, subscribed, inbox, requeued, faults>>
    <3>1. HasChannel'
      BY <2>1, ChannelKept DEF TypeOK
    <3> QED BY <2>1, <2>2, <3>1
            DEF TypeOK, LoopInv, BoxInv, fixed, channels, stored, links
  <2>3. CASE /\ chan[q] \in open /\ Fault
             /\ CloseChannels({chan[q]}) /\ inbox' = LostInbox({chan[q]}, Busy)
    <3>1. {chan[q]} \in SUBSET Chans /\ faults' \in Nat
      BY <2>3 DEF TypeOK, Fault
    <3>2. pc' \in [Queues -> Labels]
      BY <2>1 DEF TypeOK, Labels
    <3>3. ASSUME NEW r \in Queues
          PROVE  \/ pc'[r] = pc[r]
                 \/ pc[r] = "consume" /\ pc'[r] = "check"
      BY <2>1 DEF TypeOK
    <3> QED BY <2>1, <2>3, <3>1, <3>2, <3>3, CloseAction
  <2> QED BY <1>3, <2>2, <2>3 DEF ConsumeFailed
<1>4. ASSUME NEW q \in Queues, Resubscribe(q) PROVE DeliveryInv'
  <2>1. HasChannel'
    BY <1>4, ChannelKept DEF Resubscribe, Goto, TypeOK
  <2> QED BY <1>4, <2>1 DEF Resubscribe, Goto, TypeOK, LoopInv, BoxInv, fixed,
             channels, stored, links, history
<1>5. ASSUME NEW q \in Queues, DiscardUnknown(q) \/ RejectMalformed(q)
      PROVE  DeliveryInv'
  <2>1. pc[q] = "process" /\ inbox[q] # <<>>
    BY <1>5 DEF DiscardUnknown, RejectMalformed, Received, LoopInv
  <2>2. UNCHANGED <<fixed, links, consuming, chan, last, invoked, unpublished,
                    faults>>
    BY <1>5 DEF DiscardUnknown, RejectMalformed
  <2>3. pc' = [pc EXCEPT ![q] = "receive"]
    BY <1>5 DEF DiscardUnknown, RejectMalformed, Goto
  <2>4. /\ last' \in [Msgs -> {"none", "ok", "retryable", "error"}]
        /\ invoked' \in [Msgs -> Nat] /\ unpublished' \subseteq Msgs
    BY <2>2 DEF TypeOK
  <2>5. Settle(q, FALSE, FALSE, TRUE) \/ Settle(q, TRUE, TRUE, TRUE)
    BY <1>5 DEF DiscardUnknown, RejectMalformed
  <2> QED BY <2>1, <2>2, <2>3, <2>4, <2>5, SettleAction
<1>6. ASSUME NEW q \in Queues, GiveUpRetrying(q) PROVE DeliveryInv'
  <2>1. /\ inbox[q] # <<>> /\ Settle(q, FALSE, FALSE, FALSE)
        /\ pc[q] = "process" /\ pc' = [pc EXCEPT ![q] = "publish"]
        /\ UNCHANGED <<fixed, links, consuming, chan, last, invoked,
                       unpublished, faults>>
    BY <1>6 DEF GiveUpRetrying, Received, Goto, LoopInv
  <2>2. /\ last' \in [Msgs -> {"none", "ok", "retryable", "error"}]
        /\ invoked' \in [Msgs -> Nat] /\ unpublished' \subseteq Msgs
    BY <2>1 DEF TypeOK
  <2> QED BY <2>1, <2>2, SettleAction
<1>7. ASSUME NEW q \in Queues, CallHandler(q) PROVE DeliveryInv'
  <2>1. Current(q) \in Msgs /\ inbox[q] # <<>> /\ pc[q] = "process"
    BY <1>7, CurrentType DEF CallHandler, Received, LoopInv
  <2>2. invoked' \in [Msgs -> Nat]
    BY <1>7, <2>1 DEF CallHandler, TypeOK
  <2>3. unknownTag' \in BOOLEAN /\ consuming' \in BOOLEAN
    BY <1>7 DEF CallHandler, TypeOK
  <2>4. TypeOK'
    <3>1. HasChannel'
      BY <1>7, <2>1, ChannelKept DEF CallHandler, Goto, TypeOK
    <3> QED BY <1>7, <2>2, <2>3, <3>1 DEF CallHandler, Goto, TypeOK, fixed,
               channels, stored, links
  <2>5. LoopInv' /\ BoxInv'
    BY <1>7, <2>1 DEF CallHandler, Goto, TypeOK, LoopInv, BoxInv, channels
  <2> QED BY <2>4, <2>5
<1>8. ASSUME NEW q \in Queues, HandlerReturns(q) PROVE DeliveryInv'
  <2>1. pc[q] = "handle" /\ inbox[q] # <<>> /\ Current(q) \in Msgs
    BY <1>8, CurrentType DEF HandlerReturns, LoopInv
  <2>2. /\ UNCHANGED <<fixed, links, consuming, chan, invoked, unpublished,
                       faults>>
        /\ \E result \in {"ok", "retryable", "error"} :
              last' = [last EXCEPT ![Current(q)] = result]
    BY <1>8 DEF HandlerReturns
  <2>3. /\ last' \in [Msgs -> {"none", "ok", "retryable", "error"}]
        /\ invoked' \in [Msgs -> Nat] /\ unpublished' \subseteq Msgs
    BY <2>1, <2>2 DEF TypeOK
  <2>4. \/ Settle(q, TRUE, FALSE, TRUE) /\ pc' = [pc EXCEPT ![q] = "receive"]
        \/ Settle(q, FALSE, TRUE, TRUE) /\ pc' = [pc EXCEPT ![q] = "receive"]
        \/ Settle(q, FALSE, FALSE, FALSE) /\ pc' = [pc EXCEPT ![q] = "publish"]
        \/ Settle(q, FALSE, FALSE, FALSE) /\ pc' = [pc EXCEPT ![q] = "ackAgain"]
    BY <1>8, Zenon DEF HandlerReturns, Goto
  <2> QED BY <2>1, <2>2, <2>3, <2>4, SettleAction
<1>9. ASSUME NEW q \in Queues, PublishToDlq(q) PROVE DeliveryInv'
  <2>1. /\ pc[q] = "publish" /\ inbox[q] # <<>> /\ Current(q) \in Msgs
        /\ pc' = [pc EXCEPT ![q] = "receive"]
        /\ inbox' = [inbox EXCEPT ![q] = Tail(@)]
        /\ UNCHANGED <<fixed, channels, at, deaths, links, consuming, chan,
                       subscribed, last, invoked, requeued, unknownTag, faults>>
    BY <1>9, CurrentType DEF PublishToDlq, LoopInv, Goto
  <2>2. Fits(inbox)
    BY <2>1 DEF Fits, BoxInv, TypeOK, channels
  <2>3. Fits(inbox')
    BY <2>1, <2>2, TailFits
  <2>4. dlq' \subseteq Msgs /\ unpublished' \subseteq Msgs
    BY <1>9, <2>1 DEF PublishToDlq, TypeOK
  <2>5. unknownTag' \in BOOLEAN /\ consuming' \in BOOLEAN
    BY <2>1 DEF TypeOK
  <2>6. TypeOK'
    <3>1. HasChannel'
      BY <2>1, ChannelKept DEF TypeOK
    <3> QED BY <2>1, <2>3, <2>4, <2>5, <3>1
            DEF TypeOK, Fits, fixed, channels, links
  <2>7. LoopInv'
    BY <2>1 DEF LoopInv, TypeOK, channels
  <2>8. BoxInv'
    BY <2>1, <2>3 DEF BoxInv, Fits
  <2> QED BY <2>6, <2>7, <2>8
<1>10. ASSUME NEW q \in Queues, AckAgain(q) PROVE DeliveryInv'
  <2>1. /\ inbox[q] # <<>> /\ Settle(q, TRUE, FALSE, TRUE)
        /\ pc[q] = "ackAgain" /\ pc' = [pc EXCEPT ![q] = "receive"]
        /\ UNCHANGED <<fixed, links, consuming, chan, last, invoked,
                       unpublished, faults>>
    BY <1>10 DEF AckAgain, LoopInv, Goto
  <2>2. /\ last' \in [Msgs -> {"none", "ok", "retryable", "error"}]
        /\ invoked' \in [Msgs -> Nat] /\ unpublished' \subseteq Msgs
    BY <2>1 DEF TypeOK
  <2> QED BY <2>1, <2>2, SettleAction
<1>11. ASSUME NEW q \in Queues, Deliver(q) PROVE DeliveryInv'
  BY <1>11, DeliverStep
<1>12. ASSUME NEW q \in Queues, CancelConsumer(q) PROVE DeliveryInv'
  <2>1. HasChannel'
    BY <1>12, ChannelKept DEF CancelConsumer, TypeOK
  <2> QED BY <1>12, <2>1 DEF CancelConsumer, Fault, TypeOK, LoopInv, BoxInv,
             fixed, channels, stored, history
<1>13. ASSUME NEW m \in Msgs, Expire(m) PROVE DeliveryInv'
  <2>1. /\ at' \in [Msgs -> {"ready", "unacked", "retry", "gone"}]
        /\ deaths' \in [Msgs -> 0..MaxDeaths]
    BY <1>13, LimitsAssumption DEF Expire, TypeOK
  <2>2. unknownTag' \in BOOLEAN /\ consuming' \in BOOLEAN
    BY <1>13 DEF Expire, TypeOK, history
  <2>3. TypeOK'
    <3>1. HasChannel'
      BY <1>13, ChannelKept DEF Expire, workers, TypeOK
    <3> QED BY <1>13, <2>1, <2>2, <3>1 DEF Expire, TypeOK, fixed, channels,
               links, workers, history
  <2>4. LoopInv' /\ BoxInv'
    BY <1>13 DEF Expire, LoopInv, BoxInv, workers, channels
  <2> QED BY <2>3, <2>4
<1>14. CASE ChannelsFail
  <2>1. PICK K \in {open} \cup {{k} : k \in open} :
           K # {} /\ CloseChannels(K) /\ inbox' = LostInbox(K, Busy)
    BY <1>14 DEF ChannelsFail
  <2>2. K \in SUBSET Chans /\ faults' \in Nat
    BY <1>14 DEF ChannelsFail, Fault, TypeOK
  <2>3. /\ UNCHANGED <<fixed, links, consuming, chan, last, invoked,
                       unknownTag, unpublished>>
        /\ pc' = pc
    BY <1>14 DEF ChannelsFail
  <2>4. pc' \in [Queues -> Labels]
    BY <2>3 DEF TypeOK, Labels
  <2> QED BY <2>1, <2>2, <2>3, <2>4, CloseAction
<1>15. CASE ManagerReopens
  <2>1. /\ ch' \in Unused /\ open' = open \cup {ch'}
        /\ limited' = limited \ {ch'} /\ cancelSeen' = FALSE
        /\ UNCHANGED <<fixed, unacked, stored, consuming, workers, history,
                       faults>>
    BY <1>15 DEF ManagerReopens
  <2>2. ch' \in Chans /\ \A q \in Queues : chan[q] # ch'
    BY <2>1 DEF Unused
  <2>3. unknownTag' \in BOOLEAN /\ consuming' \in BOOLEAN
    BY <2>1 DEF TypeOK, history
  <2>4. TypeOK'
    <3>1. HasChannel'
      BY <2>1, ChannelKept DEF workers, TypeOK
    <3> QED BY <2>1, <2>2, <2>3, <3>1
            DEF TypeOK, fixed, stored, workers, history
  <2>5. LoopInv' /\ BoxInv'
    BY <2>1, <2>2 DEF LoopInv, BoxInv, workers
  <2> QED BY <2>4, <2>5
<1>16. CASE Signal
  <2>1. /\ UNCHANGED <<fixed, channels, stored, links, workers, history,
                       faults>>
        /\ consuming' = FALSE
    BY <1>16 DEF Signal
  <2>2. unknownTag' \in BOOLEAN /\ consuming' \in BOOLEAN
    BY <2>1 DEF TypeOK, history
  <2>3. TypeOK'
    <3>1. HasChannel'
      BY <2>1, ChannelKept DEF workers, TypeOK
    <3> QED BY <2>1, <2>2, <3>1
            DEF TypeOK, fixed, channels, stored, links, workers, history
  <2>4. LoopInv' /\ BoxInv'
    BY <2>1 DEF LoopInv, BoxInv, channels, workers
  <2> QED BY <2>3, <2>4
<1>17. CASE UNCHANGED vars
  <2>1. UNCHANGED <<fixed, channels, stored, links, consuming, workers,
                    history, faults>>
    BY <1>17 DEF vars
  <2>2. TypeOK'
    <3>1. HasChannel'
      BY <2>1, ChannelKept DEF workers, TypeOK
    <3> QED BY <2>1, <3>1
            DEF TypeOK, fixed, channels, stored, links, workers, history
  <2>3. LoopInv' /\ BoxInv'
    BY <2>1 DEF LoopInv, BoxInv, channels, workers
  <2> QED BY <2>2, <2>3
<1>18. ASSUME NEW q \in Queues, Receive(q) PROVE DeliveryInv'
  <2>1. HasChannel'
    BY <1>18, ChannelKept DEF Receive, Goto, TypeOK
  <2> QED BY <1>18, <2>1 DEF Receive, Goto, TypeOK, LoopInv, BoxInv, fixed,
             channels, stored, links, history
<1> HIDE DEF DeliveryInv
<1>19. ASSUME NEW q \in Queues, Consumer(q) PROVE DeliveryInv'
  BY <1>1, <1>2, <1>3, <1>4, <1>5, <1>6, <1>7, <1>8, <1>9, <1>10, <1>18,
     <1>19, Zenon DEF Consumer
<1> QED BY <1>11, <1>12, <1>13, <1>14, <1>15, <1>16, <1>17, <1>19, Zenon
        DEF Next

\* The types, and the deliveries, of any number of queues on a channel.
LEMMA DeliveryInvariant == Spec => []DeliveryInv
BY DeliveryInit, DeliveryStep, PTL DEF Spec

\* The dispatcher, the broker and the settlements keep to their sets.
THEOREM TypeCorrect == Spec => []TypeOK
BY DeliveryInvariant, PTL DEF DeliveryInv

-----------------------------------------------------------------------------
(***************************************************************************)
(* How often a handler is called.                                          *)
(***************************************************************************)

\* The goroutines that have called the handler, or decided not to.
Called == {q \in Queues : pc[q] \in {"handle", "publish", "ackAgain"}}

\* The deliveries of m that have retries left and that no handler was called
\* with.
Pending(m) ==
    {i \in DOMAIN inbox[QueueOf[m]] :
        /\ inbox[QueueOf[m]][i].msg = m
        /\ inbox[QueueOf[m]][i].count < Retries
        /\ i = 1 => QueueOf[m] \notin Called}

\* The deliveries with retries left that the broker can still make of m.
Ahead(m) ==
    IF deaths[m] >= Retries THEN 0
    ELSE IF at[m] = "ready" THEN Retries - deaths[m]
    ELSE Retries - deaths[m] - 1

\* The calls that were made and those that can still come are paid for by the
\* retries and by the channels that closed.
RunInv ==
    \A m \in Msgs : conf[QueueOf[m]].retry =>
        invoked[m] + Cardinality(Pending(m)) + Ahead(m)
            <= Retries + requeued[m]

\* box holds some of the deliveries of the inboxes, each in its place.
Like(box) ==
    /\ box \in [Queues -> Seq(Delivery)]
    /\ \A r \in Queues : \A i \in DOMAIN box[r] :
          /\ i \in DOMAIN inbox[r]
          /\ box[r][i].msg = inbox[r][i].msg
          /\ box[r][i].count = inbox[r][i].count

\* A step leaves queue r some of its deliveries in place, or moves them up by
\* one.
Slides(r) ==
    \/ /\ r \in Called => r \in Called'
       /\ \A i \in DOMAIN inbox'[r] :
             /\ i \in DOMAIN inbox[r]
             /\ inbox'[r][i].msg = inbox[r][i].msg
             /\ inbox'[r][i].count = inbox[r][i].count
    \/ \A i \in DOMAIN inbox'[r] :
          /\ i + 1 \in DOMAIN inbox[r]
          /\ inbox'[r][i].msg = inbox[r][i + 1].msg
          /\ inbox'[r][i].count = inbox[r][i + 1].count

\* A message that was never in the retry queue.
Fresh(m) == at[m] # "retry" /\ deaths[m] = 0

\* Without a DLQ no message comes back from a retry queue: there is none that
\* it could be sent to.
FreshInv ==
    /\ \A m \in Msgs : ~conf[QueueOf[m]].dlq => Fresh(m)
    /\ \A q \in Queues : \A i \in DOMAIN inbox[q] :
          ~conf[q].dlq => inbox[q][i].count = 0

\* A step that calls no handler and delivers nothing: it moves deliveries,
\* and pays for the ones it makes possible.
Moves ==
    /\ UNCHANGED <<conf, invoked>>
    /\ \A r \in Queues : Slides(r)
    /\ \A m \in Msgs :
          /\ Ahead(m)' + requeued[m] <= Ahead(m) + requeued'[m]
          /\ ~conf[QueueOf[m]].dlq /\ Fresh(m) => Fresh(m)'

\* The deliveries of a message are finitely many.
LEMMA PlacesFinite ==
    ASSUME NEW S, NEW s \in Seq(S), NEW P \in SUBSET DOMAIN s
    PROVE  /\ P \in SUBSET (Nat \ {0}) /\ P \subseteq 1..Len(s)
           /\ IsFiniteSet(P) /\ Cardinality(P) \in Nat
<1>1. Len(s) \in Nat /\ P \subseteq 1..Len(s)
  OBVIOUS
<1>2. IsFiniteSet(1..Len(s))
  BY <1>1, FS_Interval
<1>3. IsFiniteSet(P)
  BY <1>1, <1>2, FS_Subset
<1> QED BY <1>1, <1>3, FS_CardinalityType

\* The places where a message waits in an inbox are finitely many.
LEMMA PendingFinite ==
    ASSUME TypeOK, NEW m \in Msgs
    PROVE  /\ Pending(m) \in SUBSET (Nat \ {0})
           /\ Pending(m) \subseteq 1..Len(inbox[QueueOf[m]])
           /\ IsFiniteSet(Pending(m)) /\ Cardinality(Pending(m)) \in Nat
<1>1. inbox[QueueOf[m]] \in Seq(Delivery)
  BY MessagesAssumption DEF TypeOK
<1>2. Pending(m) \in SUBSET DOMAIN inbox[QueueOf[m]]
  BY DEF Pending
<1> QED BY <1>1, <1>2, PlacesFinite

\* A step that only moves deliveries does not add a pending one.
LEMMA PendingSlides ==
    ASSUME TypeOK, TypeOK', NEW m \in Msgs, Slides(QueueOf[m])
    PROVE  Cardinality(Pending(m)') <= Cardinality(Pending(m))
<1> DEFINE r == QueueOf[m]
<1>0. r \in Queues
  BY MessagesAssumption
<1>1. /\ Pending(m) \in SUBSET (Nat \ {0}) /\ IsFiniteSet(Pending(m))
      /\ Cardinality(Pending(m)) \in Nat
  BY PendingFinite
<1>2. /\ inbox'[r] \in Seq(Delivery) /\ DOMAIN inbox'[r] = 1..Len(inbox'[r])
      /\ Len(inbox'[r]) \in Nat
  <2>1. inbox'[r] \in Seq(Delivery)
    BY <1>0 DEF TypeOK
  <2> HIDE DEF r
  <2> QED BY <2>1, LenProperties
<1>3. CASE /\ r \in Called => r \in Called'
           /\ \A i \in DOMAIN inbox'[r] :
                 /\ i \in DOMAIN inbox[r]
                 /\ inbox'[r][i].msg = inbox[r][i].msg
                 /\ inbox'[r][i].count = inbox[r][i].count
  <2>1. Pending(m)' \subseteq Pending(m)
    BY <1>3 DEF Pending
  <2> QED BY <1>1, <2>1, FS_Subset
<1>4. CASE \A i \in DOMAIN inbox'[r] :
              /\ i + 1 \in DOMAIN inbox[r]
              /\ inbox'[r][i].msg = inbox[r][i + 1].msg
              /\ inbox'[r][i].count = inbox[r][i + 1].count
  <2> DEFINE S == Pending(m)
             T == Pending(m)'
  <2>1. ASSUME NEW i \in T PROVE i \in Nat \ {0} /\ i + 1 \in S
    <3>1. i \in DOMAIN inbox'[r] /\ i \in Nat \ {0} /\ i + 1 # 1
      BY <2>1, <1>2 DEF Pending
    <3> QED BY <1>4, <2>1, <3>1 DEF Pending
  <2>2. S \in SUBSET (Nat \ {0}) /\ IsFiniteSet(S) /\ Cardinality(S) \in Nat
    BY <1>1
  <2> HIDE DEF S, T
  <2>3. IsFiniteSet(T) /\ Cardinality(T) <= Cardinality(S \ {1})
    BY <2>1, <2>2, ShiftCardinality
  <2>4. Cardinality(S \ {1}) <= Cardinality(S) /\ IsFiniteSet(S \ {1})
    BY <2>2, FS_Subset
  <2>5. Cardinality(T) \in Nat /\ Cardinality(S \ {1}) \in Nat
    BY <2>3, <2>4, FS_CardinalityType
  <2>6. Cardinality(T) <= Cardinality(S)
    BY <2>2, <2>3, <2>4, <2>5
  <2> QED BY <2>6 DEF S, T
<1> QED BY <1>3, <1>4 DEF Slides

\* Deliveries that stay in place, or that lose the first one of queue q.
LEMMA KeepSlides ==
    ASSUME NEW box, Like(box), inbox' = box,
           \A r \in Queues : r \in Called => r \in Called'
    PROVE  \A r \in Queues : Slides(r)
BY DEF Like, Slides

\* A goroutine that is done with its delivery goes on to the next one, and
\* the others stay where they are.
LEMMA TailSlides ==
    ASSUME NEW box, Like(box), NEW q \in Queues, box[q] # <<>>,
           inbox' = [box EXCEPT ![q] = Tail(@)],
           \A r \in Queues \ {q} : r \in Called => r \in Called'
    PROVE  \A r \in Queues : Slides(r)
<1>1. box[q] \in Seq(Delivery)
  BY DEF Like
<1>2. /\ Tail(box[q]) \in Seq(Delivery) /\ DOMAIN box[q] = 1..Len(box[q])
      /\ Len(Tail(box[q])) = Len(box[q]) - 1 /\ Len(box[q]) \in Nat
      /\ DOMAIN Tail(box[q]) = 1..Len(Tail(box[q]))
      /\ \A i \in 1..Len(Tail(box[q])) : Tail(box[q])[i] = box[q][i + 1]
  BY <1>1, HeadTailProperties, LenProperties
<1>3. inbox'[q] = Tail(box[q]) /\ \A r \in Queues \ {q} : inbox'[r] = box[r]
  BY DEF Like
<1>4. ASSUME NEW i \in DOMAIN inbox'[q]
      PROVE  /\ i + 1 \in DOMAIN inbox[q]
             /\ inbox'[q][i].msg = inbox[q][i + 1].msg
             /\ inbox'[q][i].count = inbox[q][i + 1].count
  <2>1. i \in 1..Len(Tail(box[q])) /\ inbox'[q][i] = Tail(box[q])[i]
    BY <1>2, <1>3
  <2>2. i + 1 \in 1..Len(box[q])
    BY <1>2, <2>1
  <2>3. i + 1 \in DOMAIN box[q] /\ inbox'[q][i] = box[q][i + 1]
    BY <1>2, <2>1, <2>2
  <2> QED BY <2>3 DEF Like
<1>5. ASSUME NEW r \in Queues, r # q PROVE Slides(r)
  BY <1>3, <1>5 DEF Like, Slides
<1>6. Slides(q)
  BY <1>4 DEF Slides
<1> QED BY <1>5, <1>6

\* What closed channels leave in the inboxes, and what a settlement leaves.
LEMMA LostLike ==
    ASSUME TypeOK, NEW K, NEW B, \A r \in Queues \cap B : inbox[r] # <<>>
    PROVE  /\ Like(LostInbox(K, B))
           /\ \A r \in Queues \cap B : LostInbox(K, B)[r] # <<>>
<1> DEFINE box == LostInbox(K, B)
<1>1. ASSUME NEW r \in Queues
      PROVE  /\ box[r] \in Seq(Delivery)
             /\ r \in B => box[r] # <<>>
             /\ \A i \in DOMAIN box[r] :
                   i \in DOMAIN inbox[r] /\ box[r][i] = inbox[r][i]
  <2>1. inbox[r] \in Seq(Delivery)
    BY DEF TypeOK
  <2>2. CASE chan[r] \notin K
    BY <2>1, <2>2 DEF LostInbox
  <2>3. CASE chan[r] \in K /\ r \in B
    <3>1. box[r] = <<Head(inbox[r])>> /\ inbox[r] # <<>>
      BY <2>3 DEF LostInbox
    <3>2. Head(inbox[r]) \in Delivery /\ Head(inbox[r]) = inbox[r][1]
          /\ 1 \in DOMAIN inbox[r]
      BY <2>1, <3>1
    <3> HIDE DEF box
    <3> QED BY <3>1, <3>2
  <2>4. CASE chan[r] \in K /\ r \notin B
    <3>1. box[r] = <<>>
      BY <2>4 DEF LostInbox
    <3> HIDE DEF box
    <3> QED BY <2>4, <3>1
  <2> QED BY <2>2, <2>3, <2>4
<1>2. box = [r \in Queues |-> box[r]]
  BY DEF LostInbox
<1> HIDE DEF box
<1>3. Like(box)
  BY <1>1, <1>2 DEF Like
<1> QED BY <1>1, <1>3 DEF box

\* Deliveries that have become stale are the same deliveries.
LEMMA StaleLike ==
    ASSUME TypeOK, NEW k, NEW S
    PROVE  /\ Like(Stale(k, S))
           /\ \A r \in Queues : inbox[r] # <<>> => Stale(k, S)[r] # <<>>
<1>1. /\ Stale(k, S) \in [Queues -> Seq(Delivery)]
      /\ \A r \in Queues :
           /\ DOMAIN Stale(k, S)[r] = DOMAIN inbox[r]
           /\ Len(Stale(k, S)[r]) = Len(inbox[r])
           /\ \A i \in DOMAIN inbox[r] :
                /\ Stale(k, S)[r][i].msg = inbox[r][i].msg
                /\ Stale(k, S)[r][i].count = inbox[r][i].count
  BY StaleShape
<1> DEFINE box == Stale(k, S)
<1> HIDE DEF box
<1>2. Like(box)
  BY <1>1 DEF Like, box
<1>3. \A r \in Queues : inbox[r] # <<>> => box[r] # <<>>
  BY <1>1 DEF TypeOK, box
<1> QED BY <1>2, <1>3 DEF box

\* The deliveries that can still come are never negatively many.
LEMMA AheadType ==
    ASSUME TypeOK, NEW m \in Msgs PROVE Ahead(m) \in Nat
BY LimitsAssumption DEF TypeOK, Ahead

\* A channel that closes pays for the delivery it makes possible again.
LEMMA CloseAhead ==
    ASSUME TypeOK, NEW K, CloseChannels(K), NEW m \in Msgs
    PROVE  /\ Ahead(m)' + requeued[m] <= Ahead(m) + requeued'[m]
           /\ Fresh(m) => Fresh(m)'
<1> DEFINE back == UNION {Range(unacked[k]) : k \in K}
<1>1. /\ at'[m] = IF m \in back THEN "ready" ELSE at[m]
      /\ requeued'[m] = IF m \in back THEN requeued[m] + 1 ELSE requeued[m]
      /\ deaths' = deaths
  BY DEF CloseChannels
<1>2. requeued[m] \in Nat /\ deaths[m] \in Nat /\ Retries \in Nat
  BY LimitsAssumption DEF TypeOK
<1> HIDE DEF back
<1> QED BY <1>1, <1>2 DEF Ahead, Fresh

\* A settlement moves deliveries, and makes none possible that is not paid
\* for.
LEMMA SettleRuns ==
    ASSUME DeliveryInv, NEW q \in Queues, inbox[q] # <<>>,
           NEW multiple \in BOOLEAN, NEW dead \in BOOLEAN,
           NEW done \in BOOLEAN, Settle(q, multiple, dead, done),
           NEW l, pc' = [pc EXCEPT ![q] = l],
           ~done => l \in {"publish", "ackAgain"}
    PROVE  /\ \A r \in Queues : Slides(r)
           /\ \A m \in Msgs :
                 /\ Ahead(m)' + requeued[m] <= Ahead(m) + requeued'[m]
                 /\ ~conf[QueueOf[m]].dlq /\ Fresh(m) => Fresh(m)'
<1> USE DEF DeliveryInv
<1> DEFINE k == chan[q]
           m == Current(q)
           Rest(box) == [box EXCEPT ![q] = IF done THEN Tail(@) ELSE @]
<1>1. /\ Busy \subseteq Queues /\ \A r \in Busy : inbox[r] # <<>>
      /\ \A r \in Queues \ {q} : r \in Called => r \in Called'
      /\ ~done => \A r \in Queues : r \in Called => r \in Called'
  BY DEF Busy, Called, LoopInv, TypeOK
<1>2. ASSUME NEW box, Like(box), box[q] # <<>>, inbox' = Rest(box)
      PROVE  \A r \in Queues : Slides(r)
  <2>1. CASE done
    <3>1. inbox' = [box EXCEPT ![q] = Tail(@)]
      BY <1>2, <2>1
    <3> QED BY <1>1, <1>2, <3>1, TailSlides
  <2>2. CASE ~done
    <3>1. inbox' = box
      BY <1>2, <2>2 DEF Like
    <3> QED BY <1>1, <1>2, <2>2, <3>1, KeepSlides
  <2> QED BY <2>1, <2>2
<1>3. ASSUME UNCHANGED <<stored, requeued>>, NEW x \in Msgs
      PROVE  /\ Ahead(x)' + requeued[x] <= Ahead(x) + requeued'[x]
             /\ Fresh(x) => Fresh(x)'
  BY <1>3, AheadType DEF Ahead, Fresh, stored, TypeOK
<1>4. CASE /\ k \notin open /\ inbox' = Rest(inbox)
           /\ UNCHANGED <<channels, stored, subscribed, requeued, unknownTag>>
  <2>1. Like(inbox)
    BY DEF Like, TypeOK
  <2> QED BY <1>2, <1>3, <1>4, <2>1
<1>5. CASE /\ k \in open /\ Head(inbox[q]).live /\ Settled(k, m, multiple, dead)
           /\ inbox' = Rest(Stale(k, Covered(k, m, multiple)))
           /\ UNCHANGED unknownTag
  <2>1. \A r \in Queues : Slides(r)
    BY <1>2, <1>5, StaleLike
  <2>2. ASSUME NEW x \in Msgs
        PROVE  /\ Ahead(x)' + requeued[x] <= Ahead(x) + requeued'[x]
               /\ ~conf[QueueOf[x]].dlq /\ Fresh(x) => Fresh(x)'
    <3>1. /\ at'[x] \in {at[x], "retry", "gone"} /\ deaths' = deaths
          /\ ~conf[QueueOf[x]].dlq => at'[x] \in {at[x], "gone"}
          /\ requeued' = requeued
      BY <1>5 DEF Settled, DeadLetter
    <3>2. requeued[x] \in Nat /\ deaths[x] \in Nat /\ Retries \in Nat
      BY LimitsAssumption DEF TypeOK
    <3> QED BY <3>1, <3>2 DEF Ahead, Fresh
  <2> QED BY <2>1, <2>2
<1>6. CASE /\ k \in open /\ CloseChannels({k})
           /\ inbox' = Rest(LostInbox({k}, Busy \cup {q})) /\ unknownTag' = TRUE
  <2>1. \A r \in Queues \cap (Busy \cup {q}) : inbox[r] # <<>>
    BY <1>1
  <2>2. /\ Like(LostInbox({k}, Busy \cup {q}))
        /\ LostInbox({k}, Busy \cup {q})[q] # <<>>
    BY <2>1, LostLike
  <2> QED BY <1>2, <1>6, <2>2, CloseAhead
<1> QED BY <1>4, <1>5, <1>6, Zenon DEF Settle

\* Such a step keeps the balance, and no fresh message becomes an old one.
LEMMA RunsKept ==
    ASSUME DeliveryInv, DeliveryInv', RunInv, Moves
    PROVE  RunInv'
<1> USE DEF DeliveryInv
<1> SUFFICES ASSUME NEW m \in Msgs, conf[QueueOf[m]].retry
             PROVE  invoked[m] + Cardinality(Pending(m)') + Ahead(m)'
                        <= Retries + requeued'[m]
  BY DEF RunInv, Moves
<1>1. Cardinality(Pending(m)') <= Cardinality(Pending(m))
  BY PendingSlides, MessagesAssumption DEF Moves
<1>2. Cardinality(Pending(m)) \in Nat
  BY PendingFinite
<1>3. Cardinality(Pending(m)') \in Nat
  <2>1. inbox'[QueueOf[m]] \in Seq(Delivery)
    BY MessagesAssumption DEF TypeOK
  <2>2. Pending(m)' \in SUBSET DOMAIN inbox'[QueueOf[m]]
    BY DEF Pending
  <2> QED BY <2>1, <2>2, PlacesFinite
<1>4. Ahead(m) \in Nat /\ Ahead(m)' \in Nat
  <2>1. Ahead(m) \in Nat
    BY AheadType
  <2>2. deaths'[m] \in Nat /\ Retries \in Nat
    BY LimitsAssumption DEF TypeOK
  <2> HIDE DEF DeliveryInv
  <2> QED BY <2>1, <2>2 DEF Ahead
<1>5. invoked[m] + Cardinality(Pending(m)) + Ahead(m) <= Retries + requeued[m]
  BY DEF RunInv
<1>6. /\ invoked[m] \in Nat /\ Retries \in Nat
      /\ requeued[m] \in Nat /\ requeued'[m] \in Nat
  BY LimitsAssumption DEF TypeOK
<1>7. Ahead(m)' + requeued[m] <= Ahead(m) + requeued'[m]
  BY DEF Moves
<1> HIDE DEF DeliveryInv
<1> QED BY <1>1, <1>2, <1>3, <1>4, <1>5, <1>6, <1>7

\* A step that only moves deliveries keeps FreshInv.
LEMMA FreshKept ==
    ASSUME DeliveryInv, FreshInv, Moves
    PROVE  FreshInv'
<1>1. ASSUME NEW q \in Queues, NEW i \in DOMAIN inbox'[q], ~conf[q].dlq
      PROVE  inbox'[q][i].count = 0
  <2>1. \E j \in DOMAIN inbox[q] : inbox'[q][i].count = inbox[q][j].count
    BY <1>1 DEF Moves, Slides
  <2> QED BY <1>1, <2>1 DEF FreshInv
<1>2. conf' = conf
  BY DEF Moves
<1>3. ASSUME NEW m \in Msgs, ~conf[QueueOf[m]].dlq PROVE Fresh(m)'
  BY <1>3 DEF Moves, FreshInv
<1> QED BY <1>1, <1>2, <1>3 DEF FreshInv

\* At the start every retry is still ahead.
LEMMA RunInit == Init => RunInv
<1> SUFFICES ASSUME Init, NEW m \in Msgs
             PROVE  invoked[m] + Cardinality(Pending(m)) + Ahead(m)
                        <= Retries + requeued[m]
  BY DEF RunInv
<1>1. inbox[QueueOf[m]] = <<>>
  BY MessagesAssumption DEF Init
<1>2. Pending(m) = {}
  BY <1>1 DEF Pending
<1>3. Cardinality(Pending(m)) = 0
  BY <1>2, FS_EmptySet
<1>4. Ahead(m) <= Retries /\ Ahead(m) \in Nat
  BY LimitsAssumption DEF Init, Ahead
<1>5. invoked[m] = 0 /\ requeued[m] = 0
  BY DEF Init
<1> QED BY <1>3, <1>4, <1>5, LimitsAssumption

\* A delivery turns one that was ahead into one that is pending.
LEMMA DeliverRuns ==
    ASSUME DeliveryInv, DeliveryInv', RunInv, NEW q \in Queues, Deliver(q)
    PROVE  RunInv'
<1> USE DEF DeliveryInv
<1>1. PICK d \in Msgs :
         /\ QueueOf[d] = q /\ at[d] = "ready"
         /\ at' = [at EXCEPT ![d] = "unacked"]
         /\ inbox' = [inbox EXCEPT ![q] = Append(@,
                      [msg |-> d, count |-> deaths[d], live |-> TRUE])]
  BY DEF Deliver
<1>2. /\ UNCHANGED <<conf, deaths, pc, invoked, requeued>>
      /\ Called' = Called
  BY DEF Deliver, fixed, history, Called
<1> SUFFICES ASSUME NEW m \in Msgs, conf[QueueOf[m]].retry
             PROVE  invoked[m] + Cardinality(Pending(m)') + Ahead(m)'
                        <= Retries + requeued[m]
  BY <1>2 DEF RunInv
<1>3. invoked[m] + Cardinality(Pending(m)) + Ahead(m) <= Retries + requeued[m]
  BY DEF RunInv
<1>4. /\ IsFiniteSet(Pending(m)) /\ Cardinality(Pending(m)) \in Nat
      /\ Pending(m) \subseteq 1..Len(inbox[QueueOf[m]])
  BY PendingFinite
<1>5. /\ Ahead(m) \in Nat /\ invoked[m] \in Nat /\ requeued[m] \in Nat
      /\ Retries \in Nat /\ deaths[m] \in Nat
  <2>1. Ahead(m) \in Nat
    BY AheadType
  <2>2. /\ invoked[m] \in Nat /\ requeued[m] \in Nat /\ Retries \in Nat
        /\ deaths[m] \in Nat
    BY LimitsAssumption DEF TypeOK
  <2> QED BY <2>1, <2>2
<1>6. CASE m # d
  <2>1. Pending(m)' \subseteq Pending(m)
    <3>1. CASE QueueOf[m] # q
      <4>1. inbox'[QueueOf[m]] = inbox[QueueOf[m]]
        BY <1>1, <3>1, MessagesAssumption DEF TypeOK
      <4> QED BY <1>2, <4>1 DEF Pending
    <3>2. CASE QueueOf[m] = q
      <4> DEFINE e == [msg |-> d, count |-> deaths[d], live |-> TRUE]
      <4>1. e \in Delivery /\ e.msg = d /\ inbox'[q] = Append(inbox[q], e)
        BY <1>1 DEF TypeOK, Delivery
      <4> HIDE DEF e
      <4>2. inbox[q] \in Seq(Delivery)
        BY DEF TypeOK
      <4>3. /\ DOMAIN inbox'[q] = 1..Len(inbox[q]) + 1
            /\ inbox'[q][Len(inbox[q]) + 1] = e
            /\ \A i \in DOMAIN inbox[q] : inbox'[q][i] = inbox[q][i]
            /\ DOMAIN inbox[q] = 1..Len(inbox[q]) /\ Len(inbox[q]) \in Nat
        BY <4>1, <4>2, AppendProperties
      <4>4. ASSUME NEW i \in Pending(m)' PROVE i \in Pending(m)
        <5>1. i \in DOMAIN inbox'[q] /\ inbox'[q][i].msg = m
          BY <3>2, <4>4 DEF Pending
        <5>2. i # Len(inbox[q]) + 1
          BY <5>1, <4>1, <4>3, <1>6
        <5>3. i \in DOMAIN inbox[q] /\ inbox'[q][i] = inbox[q][i]
          BY <5>1, <5>2, <4>3
        <5> QED BY <3>2, <4>4, <5>3, <1>2 DEF Pending
      <4> QED BY <4>4
    <3> QED BY <3>1, <3>2
  <2>2. /\ Cardinality(Pending(m)') <= Cardinality(Pending(m))
        /\ IsFiniteSet(Pending(m)')
    BY <1>4, <2>1, FS_Subset
  <2>3. Cardinality(Pending(m)') \in Nat
    BY <2>2, FS_CardinalityType
  <2>4. Ahead(m)' = Ahead(m)
    BY <1>1, <1>2, <1>6 DEF Ahead, TypeOK
  <2> HIDE DEF DeliveryInv
  <2> QED BY <1>3, <1>4, <1>5, <2>2, <2>3, <2>4
<1>7. CASE m = d
  <2> DEFINE e == [msg |-> d, count |-> deaths[d], live |-> TRUE]
             n == Len(inbox[q]) + 1
  <2>1. /\ e \in Delivery /\ e.count = deaths[d]
        /\ inbox'[q] = Append(inbox[q], e)
    BY <1>1 DEF TypeOK, Delivery
  <2> HIDE DEF e
  <2>2. inbox[q] \in Seq(Delivery)
    BY DEF TypeOK
  <2>3. /\ DOMAIN inbox'[q] = 1..n /\ inbox'[q][n] = e
        /\ \A i \in DOMAIN inbox[q] : inbox'[q][i] = inbox[q][i]
        /\ DOMAIN inbox[q] = 1..Len(inbox[q]) /\ Len(inbox[q]) \in Nat
    BY <2>1, <2>2, AppendProperties
  <2>4. ASSUME NEW i \in Pending(m)', i # n PROVE i \in Pending(m)
    <3>1. i \in DOMAIN inbox'[q]
      BY <1>1, <1>7, <2>4 DEF Pending
    <3>2. i \in DOMAIN inbox[q] /\ inbox'[q][i] = inbox[q][i]
      BY <3>1, <2>3, <2>4
    <3> QED BY <1>1, <1>7, <2>4, <3>2, <1>2 DEF Pending
  <2>5. Ahead(m)' = IF deaths[m] >= Retries THEN 0 ELSE Retries - deaths[m] - 1
    BY <1>1, <1>2, <1>7 DEF Ahead, TypeOK
  <2>6. Ahead(m) = IF deaths[m] >= Retries THEN 0 ELSE Retries - deaths[m]
    BY <1>1, <1>7 DEF Ahead
  <2>7. CASE deaths[m] >= Retries
    <3>1. n \notin Pending(m)'
      BY <1>1, <1>5, <1>7, <2>1, <2>3, <2>7 DEF Pending
    <3>2. Pending(m)' \subseteq Pending(m)
      BY <2>4, <3>1
    <3>3. /\ Cardinality(Pending(m)') <= Cardinality(Pending(m))
          /\ IsFiniteSet(Pending(m)')
      BY <1>4, <3>2, FS_Subset
    <3>4. Cardinality(Pending(m)') \in Nat
      BY <3>3, FS_CardinalityType
    <3> QED BY <1>3, <1>4, <1>5, <2>5, <2>6, <2>7, <3>3, <3>4
  <2>8. CASE ~(deaths[m] >= Retries)
    <3> DEFINE P == Pending(m) \cup {n}
    <3>1. /\ IsFiniteSet(P)
          /\ Cardinality(P) = Cardinality(Pending(m)) \/
             Cardinality(P) = Cardinality(Pending(m)) + 1
      BY <1>4, FS_AddElement
    <3>2. Pending(m)' \subseteq P
      BY <2>4
    <3> HIDE DEF P
    <3>3. Cardinality(Pending(m)') <= Cardinality(P) /\ IsFiniteSet(Pending(m)')
      BY <3>1, <3>2, FS_Subset
    <3>4. Cardinality(Pending(m)') \in Nat
      BY <3>3, FS_CardinalityType
    <3>5. Ahead(m)' = Ahead(m) - 1
      BY <1>5, <2>5, <2>6, <2>8
    <3>6. Cardinality(Pending(m)') <= Cardinality(Pending(m)) + 1
      BY <1>4, <3>1, <3>3, <3>4
    <3> DEFINE before == Cardinality(Pending(m)) + Ahead(m)
               after == Cardinality(Pending(m)') + Ahead(m)'
    <3> HIDE DEF DeliveryInv
    <3>7. /\ before \in Int /\ after \in Int /\ after <= before
          /\ invoked[m] + before <= Retries + requeued[m]
          /\ after = Cardinality(Pending(m)') + Ahead(m)'
          /\ Cardinality(Pending(m)') \in Int /\ Ahead(m)' \in Int
      BY <1>3, <1>4, <1>5, <3>4, <3>5, <3>6
    <3> HIDE DEF before, after
    <3>8. invoked[m] + after <= Retries + requeued[m]
      BY <1>5, <3>7
    <3> QED BY <1>5, <3>7, <3>8
  <2> QED BY <2>7, <2>8
<1> QED BY <1>6, <1>7

\* The delivery of a fresh message says so.
LEMMA DeliverFresh ==
    ASSUME DeliveryInv, FreshInv, NEW q \in Queues, Deliver(q)
    PROVE  FreshInv'
<1> USE DEF DeliveryInv
<1>1. PICK d \in Msgs :
         /\ QueueOf[d] = q /\ at' = [at EXCEPT ![d] = "unacked"]
         /\ inbox' = [inbox EXCEPT ![q] = Append(@,
                      [msg |-> d, count |-> deaths[d], live |-> TRUE])]
  BY DEF Deliver
<1>2. UNCHANGED <<conf, deaths>>
  BY DEF Deliver, fixed
<1> DEFINE e == [msg |-> d, count |-> deaths[d], live |-> TRUE]
<1>3. /\ e \in Delivery /\ inbox'[q] = Append(inbox[q], e)
      /\ e.count = deaths[d]
  BY <1>1 DEF TypeOK, Delivery
<1> HIDE DEF e
<1>4. inbox[q] \in Seq(Delivery)
  BY DEF TypeOK
<1>5. /\ DOMAIN inbox'[q] = 1..Len(inbox[q]) + 1
      /\ inbox'[q][Len(inbox[q]) + 1] = e
      /\ \A i \in DOMAIN inbox[q] : inbox'[q][i] = inbox[q][i]
      /\ DOMAIN inbox[q] = 1..Len(inbox[q]) /\ Len(inbox[q]) \in Nat
  BY <1>3, <1>4, AppendProperties
<1>6. \A m \in Msgs : Fresh(m) => Fresh(m)'
  BY <1>1, <1>2 DEF Fresh, TypeOK
<1>7. ASSUME NEW r \in Queues, NEW i \in DOMAIN inbox'[r], ~conf[r].dlq
      PROVE  inbox'[r][i].count = 0
  <2>1. CASE r # q
    <3>1. inbox'[r] = inbox[r]
      BY <1>1, <2>1 DEF TypeOK
    <3> QED BY <1>7, <3>1 DEF FreshInv
  <2>2. CASE r = q /\ i = Len(inbox[q]) + 1
    BY <1>1, <1>3, <1>5, <1>7, <2>2 DEF FreshInv, Fresh
  <2>3. CASE r = q /\ i # Len(inbox[q]) + 1
    <3>1. i \in 1..Len(inbox[q]) + 1 /\ i # Len(inbox[q]) + 1
      BY <1>5, <1>7, <2>3
    <3>2. i \in DOMAIN inbox[q]
      BY <1>5, <3>1
    <3> QED BY <1>5, <1>7, <2>3, <3>2 DEF FreshInv
  <2> QED BY <2>1, <2>2, <2>3
<1> QED BY <1>2, <1>6, <1>7 DEF FreshInv

\* A call of the handler uses a delivery that was pending.
LEMMA CallRuns ==
    ASSUME DeliveryInv, DeliveryInv', RunInv, NEW q \in Queues, CallHandler(q)
    PROVE  RunInv'
<1> USE DEF DeliveryInv
<1>1. /\ pc[q] = "process" /\ inbox[q] # <<>> /\ ~Exhausted(q)
      /\ invoked' = [invoked EXCEPT ![Current(q)] = @ + 1]
      /\ pc' = [pc EXCEPT ![q] = "handle"]
      /\ UNCHANGED <<conf, at, deaths, inbox, requeued>>
  BY DEF CallHandler, Received, LoopInv, Goto, fixed, stored
<1>2. /\ Head(inbox[q]) \in Delivery /\ Head(inbox[q]) = inbox[q][1]
      /\ 1 \in DOMAIN inbox[q] /\ Current(q) \in Msgs
  BY <1>1, CurrentType
<1>3. Called \subseteq Called' /\ q \notin Called /\ q \in Called'
  BY <1>1 DEF Called, TypeOK
<1> SUFFICES ASSUME NEW m \in Msgs, conf[QueueOf[m]].retry
             PROVE  invoked'[m] + Cardinality(Pending(m)') + Ahead(m)'
                        <= Retries + requeued[m]
  BY <1>1 DEF RunInv
<1>4. invoked[m] + Cardinality(Pending(m)) + Ahead(m) <= Retries + requeued[m]
  BY DEF RunInv
<1>5. /\ IsFiniteSet(Pending(m)) /\ Cardinality(Pending(m)) \in Nat
  BY PendingFinite
<1>6. /\ Ahead(m) \in Nat /\ invoked[m] \in Nat /\ requeued[m] \in Nat
      /\ Retries \in Nat
  BY AheadType, LimitsAssumption DEF TypeOK
<1>7. Ahead(m)' = Ahead(m)
  BY <1>1 DEF Ahead
<1>8. Pending(m)' \subseteq Pending(m)
  BY <1>1, <1>3 DEF Pending
<1>9. CASE m # Current(q)
  <2>1. invoked'[m] = invoked[m]
    BY <1>1, <1>9 DEF TypeOK
  <2>2. /\ Cardinality(Pending(m)') <= Cardinality(Pending(m))
        /\ IsFiniteSet(Pending(m)')
    BY <1>5, <1>8, FS_Subset
  <2>3. Cardinality(Pending(m)') \in Nat
    BY <2>2, FS_CardinalityType
  <2> QED BY <1>4, <1>5, <1>6, <1>7, <2>1, <2>2, <2>3
<1>10. CASE m = Current(q)
  <2>1. invoked'[m] = invoked[m] + 1
    BY <1>1, <1>10 DEF TypeOK
  <2>2. QueueOf[m] = q /\ inbox[q][1].msg = m
    BY <1>2, <1>10 DEF BoxInv, Current
  <2>3. inbox[q][1].count < Retries
    BY <1>1, <1>2, <1>6, <2>2 DEF Exhausted, Delivery
  <2>4. 1 \in Pending(m) /\ 1 \notin Pending(m)'
    BY <1>2, <1>3, <2>2, <2>3 DEF Pending
  <2>5. Pending(m)' \subseteq Pending(m) \ {1}
    BY <1>8, <2>4
  <2>6. /\ IsFiniteSet(Pending(m) \ {1})
        /\ Cardinality(Pending(m) \ {1}) = Cardinality(Pending(m)) - 1
    BY <1>5, <2>4, FS_RemoveElement
  <2>7. /\ Cardinality(Pending(m)') <= Cardinality(Pending(m) \ {1})
        /\ IsFiniteSet(Pending(m)')
    BY <2>5, <2>6, FS_Subset
  <2>8. Cardinality(Pending(m)') \in Nat
    BY <2>7, FS_CardinalityType
  <2> QED BY <1>4, <1>5, <1>6, <1>7, <2>1, <2>6, <2>7, <2>8
<1> QED BY <1>9, <1>10

\* Every other step is such a step.
LEMMA MovesStep ==
    ASSUME DeliveryInv, [Next]_vars
    PROVE  \/ Moves
           \/ \E q \in Queues : Deliver(q) \/ CallHandler(q)
<1> USE DEF DeliveryInv
<1>0. Like(inbox)
  BY DEF TypeOK, Like
<1>1. ASSUME UNCHANGED <<conf, at, deaths, invoked, requeued>>,
             inbox' = inbox, \A r \in Queues : r \in Called => r \in Called'
      PROVE  Moves
  <2>1. \A r \in Queues : Slides(r)
    BY <1>0, <1>1, KeepSlides
  <2>2. ASSUME NEW m \in Msgs
        PROVE  /\ Ahead(m)' + requeued[m] <= Ahead(m) + requeued'[m]
               /\ Fresh(m) => Fresh(m)'
    BY <1>1, AheadType DEF Ahead, Fresh, TypeOK
  <2> QED BY <1>1, <2>1, <2>2 DEF Moves
<1>2. ASSUME NEW K, CloseChannels(K), inbox' = LostInbox(K, Busy),
             UNCHANGED <<conf, invoked>>,
             \A r \in Queues : r \in Called => r \in Called'
      PROVE  Moves
  <2>1. Like(LostInbox(K, Busy))
    BY LostLike DEF Busy, LoopInv
  <2>2. \A r \in Queues : Slides(r)
    BY <1>2, <2>1, KeepSlides
  <2>3. \A m \in Msgs : /\ Ahead(m)' + requeued[m] <= Ahead(m) + requeued'[m]
                        /\ Fresh(m) => Fresh(m)'
    BY <1>2, CloseAhead
  <2> QED BY <1>2, <2>2, <2>3 DEF Moves
<1>3. ASSUME NEW q \in Queues, inbox[q] # <<>>,
             NEW multiple \in BOOLEAN, NEW dead \in BOOLEAN,
             NEW done \in BOOLEAN, Settle(q, multiple, dead, done),
             NEW l, pc' = [pc EXCEPT ![q] = l],
             ~done => l \in {"publish", "ackAgain"},
             UNCHANGED <<conf, invoked>>
      PROVE  Moves
  BY <1>3, SettleRuns DEF Moves
<1>4. ASSUME NEW q \in Queues,
             Check(q) \/ Consume(q) \/ Resubscribe(q) \/ Receive(q)
      PROVE  Moves
  <2>1. /\ UNCHANGED <<conf, at, deaths, invoked, requeued>> /\ inbox' = inbox
    BY <1>4 DEF Check, Consume, Resubscribe, Receive, fixed, stored, history
  <2>2. \A r \in Queues : r \in Called => r \in Called'
    BY <1>4 DEF Check, Consume, Resubscribe, Receive, Goto, Called, TypeOK
  <2> QED BY <1>1, <2>1, <2>2
<1>5. ASSUME NEW q \in Queues, ConsumeFailed(q) PROVE Moves
  <2>1. /\ UNCHANGED <<conf, invoked, deaths>>
        /\ \A r \in Queues : r \in Called => r \in Called'
    BY <1>5 DEF ConsumeFailed, Goto, Called, TypeOK, fixed, stored,
       CloseChannels
  <2>2. CASE UNCHANGED <<channels, stored, subscribed, inbox, requeued, faults>>
    BY <1>1, <2>1, <2>2 DEF stored
  <2>3. CASE CloseChannels({chan[q]}) /\ inbox' = LostInbox({chan[q]}, Busy)
    BY <1>2, <2>1, <2>3
  <2> QED BY <1>5, <2>2, <2>3 DEF ConsumeFailed
<1>6. ASSUME NEW q \in Queues, DiscardUnknown(q) \/ RejectMalformed(q)
      PROVE  Moves
  <2>1. /\ inbox[q] # <<>> /\ UNCHANGED <<conf, invoked>>
        /\ pc' = [pc EXCEPT ![q] = "receive"]
    BY <1>6 DEF DiscardUnknown, RejectMalformed, Received, LoopInv, Goto, fixed
  <2>2. Settle(q, FALSE, FALSE, TRUE) \/ Settle(q, TRUE, TRUE, TRUE)
    BY <1>6 DEF DiscardUnknown, RejectMalformed
  <2> QED BY <1>3, <2>1, <2>2
<1>7. ASSUME NEW q \in Queues, GiveUpRetrying(q) PROVE Moves
  <2>1. /\ inbox[q] # <<>> /\ Settle(q, FALSE, FALSE, FALSE)
        /\ pc' = [pc EXCEPT ![q] = "publish"] /\ UNCHANGED <<conf, invoked>>
    BY <1>7 DEF GiveUpRetrying, Received, LoopInv, Goto, fixed
  <2> QED BY <1>3, <2>1
<1>8. ASSUME NEW q \in Queues, HandlerReturns(q) PROVE Moves
  <2>1. inbox[q] # <<>> /\ UNCHANGED <<conf, invoked>>
    BY <1>8 DEF HandlerReturns, LoopInv, fixed
  <2>2. \/ Settle(q, TRUE, FALSE, TRUE) /\ pc' = [pc EXCEPT ![q] = "receive"]
        \/ Settle(q, FALSE, TRUE, TRUE) /\ pc' = [pc EXCEPT ![q] = "receive"]
        \/ Settle(q, FALSE, FALSE, FALSE) /\ pc' = [pc EXCEPT ![q] = "publish"]
        \/ Settle(q, FALSE, FALSE, FALSE) /\ pc' = [pc EXCEPT ![q] = "ackAgain"]
    BY <1>8, Zenon DEF HandlerReturns, Goto
  <2> QED BY <1>3, <2>1, <2>2
<1>9. ASSUME NEW q \in Queues, PublishToDlq(q) PROVE Moves
  <2>1. /\ pc[q] = "publish" /\ inbox[q] # <<>>
        /\ pc' = [pc EXCEPT ![q] = "receive"]
        /\ inbox' = [inbox EXCEPT ![q] = Tail(@)]
        /\ UNCHANGED <<conf, at, deaths, invoked, requeued>>
    BY <1>9 DEF PublishToDlq, LoopInv, Goto, fixed
  <2>2. \A r \in Queues \ {q} : r \in Called => r \in Called'
    BY <2>1 DEF Called, TypeOK
  <2>3. \A r \in Queues : Slides(r)
    BY <1>0, <2>1, <2>2, TailSlides
  <2>4. ASSUME NEW m \in Msgs
        PROVE  /\ Ahead(m)' + requeued[m] <= Ahead(m) + requeued'[m]
               /\ Fresh(m) => Fresh(m)'
    BY <2>1, AheadType DEF Ahead, Fresh, TypeOK
  <2> QED BY <2>1, <2>3, <2>4 DEF Moves
<1>10. ASSUME NEW q \in Queues, AckAgain(q) PROVE Moves
  <2>1. /\ inbox[q] # <<>> /\ Settle(q, TRUE, FALSE, TRUE)
        /\ pc' = [pc EXCEPT ![q] = "receive"] /\ UNCHANGED <<conf, invoked>>
    BY <1>10 DEF AckAgain, LoopInv, Goto, fixed
  <2> QED BY <1>3, <2>1
<1>13. ASSUME NEW q \in Queues, CancelConsumer(q) PROVE Moves
  BY <1>1, <1>13 DEF CancelConsumer, Called, fixed, stored, history
<1>14. ASSUME NEW x \in Msgs, Expire(x) PROVE Moves
  <2>1. /\ UNCHANGED <<conf, invoked, requeued, inbox>> /\ pc' = pc
        /\ at[x] = "retry" /\ at' = [at EXCEPT ![x] = "ready"]
        /\ deaths' = [deaths EXCEPT ![x] = IF @ < MaxDeaths THEN @ + 1 ELSE @]
    BY <1>14 DEF Expire, fixed, workers, history
  <2>2. \A r \in Queues : Slides(r)
    BY <1>0, <2>1, KeepSlides DEF Called
  <2>3. ASSUME NEW m \in Msgs PROVE Ahead(m)' = Ahead(m)
    <3>1. CASE m = x
      <4>1. /\ at[m] = "retry" /\ at'[m] = "ready"
            /\ deaths'[m] = IF deaths[m] < MaxDeaths THEN deaths[m] + 1
                            ELSE deaths[m]
        BY <2>1, <3>1 DEF TypeOK
      <4>2. deaths[m] \in Nat /\ Retries \in Nat /\ MaxDeaths >= Retries
            /\ MaxDeaths \in Nat
        BY LimitsAssumption DEF TypeOK
      <4> HIDE DEF DeliveryInv
      <4> QED BY <4>1, <4>2 DEF Ahead
    <3>2. CASE m # x
      BY <2>1, <3>2 DEF Ahead, TypeOK
    <3> QED BY <3>1, <3>2
  <2>4. ASSUME NEW m \in Msgs
        PROVE  /\ Ahead(m)' + requeued[m] <= Ahead(m) + requeued'[m]
               /\ Fresh(m) => Fresh(m)'
    BY <2>1, <2>3, AheadType DEF Fresh, TypeOK
  <2> QED BY <2>1, <2>2, <2>4 DEF Moves
<1>15. CASE ChannelsFail
  BY <1>2, <1>15 DEF ChannelsFail, Called, fixed
<1>16. CASE ManagerReopens \/ Signal \/ UNCHANGED vars
  <2>1. /\ UNCHANGED <<conf, at, deaths, invoked, requeued>> /\ inbox' = inbox
        /\ pc' = pc
    BY <1>16 DEF ManagerReopens, Signal, vars, fixed, stored, workers, history
  <2> QED BY <1>1, <2>1 DEF Called
<1> HIDE DEF DeliveryInv
<1>17. ASSUME NEW q \in Queues, Consumer(q) PROVE Moves \/ CallHandler(q)
  BY <1>4, <1>5, <1>6, <1>7, <1>8, <1>9, <1>10, <1>17, Zenon DEF Consumer
<1> QED BY <1>13, <1>14, <1>15, <1>16, <1>17, Zenon DEF Next

\* Every step keeps the balance of calls, retries and closed channels, and
\* without a DLQ every message stays fresh.
LEMMA RunStep ==
    /\ DeliveryInv /\ DeliveryInv' /\ RunInv /\ [Next]_vars => RunInv'
    /\ DeliveryInv /\ FreshInv /\ [Next]_vars => FreshInv'
<1>1. ASSUME DeliveryInv, DeliveryInv', RunInv, [Next]_vars PROVE RunInv'
  BY <1>1, MovesStep, RunsKept, DeliverRuns, CallRuns
<1>2. ASSUME DeliveryInv, FreshInv, NEW q \in Queues, Deliver(q) PROVE FreshInv'
  BY <1>2, DeliverFresh
<1>3. ASSUME FreshInv, NEW q \in Queues, CallHandler(q) PROVE FreshInv'
  BY <1>3 DEF CallHandler, FreshInv, Fresh, fixed, stored
<1>4. ASSUME DeliveryInv, FreshInv, [Next]_vars PROVE FreshInv'
  BY <1>2, <1>3, <1>4, MovesStep, FreshKept
<1> QED BY <1>1, <1>4

\* The bound on runs of handlers holds in every reachable state.
LEMMA RunInvariant == Spec => []RunInv /\ []FreshInv
<1>1. Init => DeliveryInv /\ RunInv /\ FreshInv
  <2>1. Init => FreshInv
    BY DEF Init, FreshInv, Fresh
  <2> QED BY <2>1, DeliveryInit, RunInit
<1>2. /\ DeliveryInv /\ RunInv /\ FreshInv /\ [Next]_vars
          => (DeliveryInv /\ RunInv /\ FreshInv)'
  BY DeliveryStep, RunStep
<1> QED BY <1>1, <1>2, PTL DEF Spec

\* The balance bounds the calls themselves.
LEMMA RunBounds == TypeOK /\ RunInv => RetryBound
<1> SUFFICES ASSUME TypeOK, RunInv, NEW m \in Msgs, conf[QueueOf[m]].retry
             PROVE  invoked[m] <= Retries + requeued[m]
  BY DEF RetryBound
<1>1. invoked[m] + Cardinality(Pending(m)) + Ahead(m) <= Retries + requeued[m]
  BY DEF RunInv
<1>2. Cardinality(Pending(m)) \in Nat /\ Ahead(m) \in Nat
  BY PendingFinite, AheadType
<1>3. invoked[m] \in Nat /\ requeued[m] \in Nat /\ Retries \in Nat
  BY LimitsAssumption DEF TypeOK
<1> QED BY <1>1, <1>2, <1>3

\* The handler of a queue with retries sees a message at most Retries times,
\* plus once for every time a channel closed under it, however many queues
\* share the channel.
THEOREM RetriesAreBounded == Spec => []RetryBound
BY DeliveryInvariant, RunInvariant, RunBounds, PTL DEF DeliveryInv

-----------------------------------------------------------------------------
(***************************************************************************)
(* A channel with one consumer.                                            *)
(***************************************************************************)

OneConsumer == \E q \in Queues : Queues = {q}

\* The first delivery of q is settled, or its channel is gone.
Finished(q) ==
    inbox[q] # <<>> /\ (chan[q] \notin open \/ ~Head(inbox[q]).live)

Offset(q) == IF Finished(q) THEN 1 ELSE 0

\* The inbox of the consumer mirrors the unsettled deliveries of its channel,
\* each message once, and these are the messages in the state "unacked".
MirrorInv(q) ==
    /\ chan[q] \in open =>
         /\ Len(inbox[q]) = Len(unacked[chan[q]]) + Offset(q)
         /\ \A i \in DOMAIN unacked[chan[q]] :
               /\ inbox[q][i + Offset(q)].msg = unacked[chan[q]][i]
               /\ inbox[q][i + Offset(q)].live
         /\ \A i, j \in DOMAIN unacked[chan[q]] :
               unacked[chan[q]][i] = unacked[chan[q]][j] => i = j
    /\ chan[q] \notin open => Len(inbox[q]) = Offset(q)
    /\ \A k \in Chans : k # chan[q] \/ k \notin open => unacked[k] = <<>>
    /\ \A m \in Msgs : at[m] = "unacked" <=>
          /\ chan[q] \in open
          /\ \E i \in DOMAIN unacked[chan[q]] : unacked[chan[q]][i] = m

\* What the goroutine has in its hands: a delivery that the broker waits for,
\* one that is gone, or one that went back to its queue.
HandInv(q) ==
    /\ pc[q] = "receive" => ~Finished(q)
    /\ pc[q] \in {"process", "handle"} => Head(inbox[q]).live
    /\ pc[q] \in {"publish", "ackAgain"} => Finished(q)
    /\ Finished(q) /\ Head(inbox[q]).live =>
          at[Current(q)] = "ready" /\ requeued[Current(q)] > 0
    /\ Finished(q) /\ ~Head(inbox[q]).live => at[Current(q)] = "gone"

\* Why the goroutine is where it is.
ReasonInv(q) ==
    /\ q \in Called => kind[Current(q)] = "typed"
    /\ pc[q] = "ackAgain" => ~conf[q].dlq
    /\ pc[q] \in {"publish", "ackAgain"} =>
          last[Current(q)] # "ok" \/ requeued[Current(q)] > 0
    /\ pc[q] = "publish" /\ ~conf[q].dlq => NeverRuns(q)

\* A message in the DLQ or taken by the handler is gone, unless a channel
\* closed before its settlement.
FateInv ==
    \A m \in Msgs : requeued[m] = 0 /\ (m \in dlq \/ last[m] = "ok") =>
        at[m] = "gone"

\* A message that left has a reason to, and the broker rejects a tag only
\* when there is no DLQ.
CauseInv(q) ==
    /\ ReasonInv(q) /\ FateInv /\ NoSilentLoss /\ OneFate
    /\ unknownTag => ~conf[q].dlq

OneInv(q) == MirrorInv(q) /\ HandInv(q) /\ CauseInv(q)

\* What closes with the channels in K.
LEMMA OneClose ==
    ASSUME DeliveryInv, NEW q \in Queues, MirrorInv(q),
           NEW K \in SUBSET open, CloseChannels(K)
    PROVE  /\ dlq' = dlq
           /\ \A c \in Chans \ {chan[q]} : unacked'[c] = <<>>
           /\ chan[q] \notin K =>
                /\ chan[q] \in open' <=> chan[q] \in open
                /\ unacked' = unacked /\ at' = at /\ requeued' = requeued
           /\ chan[q] \in K =>
                /\ chan[q] \notin open' /\ \A c \in Chans : unacked'[c] = <<>>
                /\ \A m \in Msgs :
                     /\ at[m] # "unacked" =>
                          at'[m] = at[m] /\ requeued'[m] = requeued[m]
                     /\ at[m] = "unacked" =>
                          at'[m] = "ready" /\ requeued'[m] > 0
<1> USE DEF DeliveryInv
<1> DEFINE back == UNION {Range(unacked[k]) : k \in K}
<1>1. /\ open' = open \ K
      /\ unacked' = [k \in Chans |-> IF k \in K THEN <<>> ELSE unacked[k]]
      /\ at' = [m \in Msgs |-> IF m \in back THEN "ready" ELSE at[m]]
      /\ requeued' = [m \in Msgs |->
                        IF m \in back THEN requeued[m] + 1 ELSE requeued[m]]
      /\ dlq' = dlq
  BY DEF CloseChannels
<1>2. \A c \in Chans \ {chan[q]} : unacked[c] = <<>>
  BY DEF MirrorInv
<1>3. K \subseteq Chans
  BY DEF TypeOK
<1>4. \A m : m \in back <=>
          \E c \in K : \E i \in DOMAIN unacked[c] : unacked[c][i] = m
  BY DEF Range
<1>5. DOMAIN << >> = {}
  OBVIOUS
<1> HIDE DEF back
<1>6. CASE chan[q] \notin K
  <2>1. back = {}
    BY <1>2, <1>3, <1>4, <1>5, <1>6
  <2>2. at' = at /\ requeued' = requeued
    BY <1>1, <2>1 DEF TypeOK
  <2>3. unacked' = unacked
    <3>1. \A c \in Chans : unacked'[c] = unacked[c]
      BY <1>1, <1>2, <1>6
    <3>2. unacked' \in [Chans -> Seq(Msgs)]
      BY <1>1, EmptySeq DEF TypeOK
    <3> QED BY <3>1, <3>2 DEF TypeOK
  <2> QED BY <1>1, <1>2, <1>6, <2>2, <2>3
<1>7. CASE chan[q] \in K
  <2>1. \A c \in Chans : unacked'[c] = <<>>
    BY <1>1, <1>2, <1>7
  <2>2. ASSUME NEW m \in Msgs PROVE m \in back <=> at[m] = "unacked"
    <3>1. m \in back <=>
            \E i \in DOMAIN unacked[chan[q]] : unacked[chan[q]][i] = m
      BY <1>2, <1>3, <1>4, <1>5, <1>7
    <3> QED BY <3>1, <1>7 DEF MirrorInv
  <2>3. \A m \in Msgs :
          /\ at[m] # "unacked" => at'[m] = at[m] /\ requeued'[m] = requeued[m]
          /\ at[m] = "unacked" => at'[m] = "ready" /\ requeued'[m] > 0
    BY <1>1, <2>2 DEF TypeOK
  <2> QED BY <1>1, <1>7, <2>1, <2>3
<1> QED BY <1>6, <1>7

\* Nothing is unsettled, and at most the delivery in hand is left.
LEMMA MirrorEmpty ==
    ASSUME NEW q \in Queues, chan'[q] \notin open',
           \A c \in Chans : unacked'[c] = <<>>,
           inbox'[q] = <<>> \/ \E d : inbox'[q] = <<d>>,
           \A m \in Msgs : at'[m] # "unacked"
    PROVE  /\ MirrorInv(q)'
           /\ Finished(q)' <=> inbox'[q] # <<>>
<1>1. Finished(q)' <=> inbox'[q] # <<>>
  BY DEF Finished
<1>2. Len(inbox'[q]) = Offset(q)'
  <2>1. CASE inbox'[q] = <<>>
    BY <1>1, <2>1 DEF Offset
  <2>2. CASE \E d : inbox'[q] = <<d>>
    BY <1>1, <2>2 DEF Offset
  <2> QED BY <2>1, <2>2
<1> QED BY <1>1, <1>2 DEF MirrorInv

\* The closing of channels leaves the goroutine with the delivery it works
\* on, and the consumer without the others.
LEMMA OneLost ==
    ASSUME DeliveryInv, NEW q \in Queues, MirrorInv(q), HandInv(q),
           NEW K \in SUBSET open, CloseChannels(K),
           inbox' = LostInbox(K, Busy), UNCHANGED <<chan, last, kind, conf>>,
           \/ pc' = pc
           \/ pc[q] = "consume" /\ pc'[q] = "check"
    PROVE  /\ MirrorInv(q)' /\ HandInv(q)'
           /\ inbox'[q] # <<>> => inbox[q] # <<>> /\ Current(q)' = Current(q)
           /\ q \in Busy => q \in Busy' /\ Current(q)' = Current(q)
<1> USE DEF DeliveryInv
<1>1. CASE chan[q] \notin K
  <2>1. /\ chan[q] \in open' <=> chan[q] \in open
        /\ UNCHANGED <<unacked, at, requeued>>
    BY <1>1, OneClose
  <2>2. inbox'[q] = inbox[q]
    BY <1>1 DEF LostInbox
  <2>3. Finished(q)' <=> Finished(q)
    BY <2>1, <2>2 DEF Finished
  <2>4. MirrorInv(q)'
    <3>1. Offset(q)' = Offset(q)
      BY <2>3 DEF Offset
    <3>2. \A c \in Chans : c # chan[q] \/ c \notin open' => unacked[c] = <<>>
      BY <2>1 DEF MirrorInv
    <3> QED BY <2>1, <2>2, <3>1, <3>2 DEF MirrorInv
  <2>5. HandInv(q)' /\ Current(q)' = Current(q)
    BY <2>1, <2>2, <2>3 DEF HandInv, Current
  <2> QED BY <2>2, <2>5, <2>4 DEF Busy
<1>2. CASE chan[q] \in K
  <2>1. /\ chan[q] \notin open' /\ \A c \in Chans : unacked'[c] = <<>>
        /\ \A m \in Msgs :
             /\ at[m] # "unacked" =>
                  at'[m] = at[m] /\ requeued'[m] = requeued[m]
             /\ at[m] = "unacked" => at'[m] = "ready" /\ requeued'[m] > 0
    BY <1>2, OneClose
  <2>2. inbox'[q] = IF q \in Busy THEN <<Head(inbox[q])>> ELSE <<>>
    BY <1>2 DEF LostInbox
  <2>3. MirrorInv(q)' /\ (Finished(q)' <=> inbox'[q] # <<>>)
    BY <2>1, <2>2, MirrorEmpty
  <2>4. CASE q \notin Busy
    <3>1. inbox'[q] = <<>> /\ q \notin Busy'
      BY <2>2, <2>4 DEF Busy
    <3> QED BY <2>3, <2>4, <3>1 DEF HandInv, Busy
  <2>5. CASE q \in Busy
    <3>1. /\ inbox[q] # <<>> /\ inbox'[q] = <<Head(inbox[q])>> /\ pc' = pc
          /\ pc[q] # "receive"
      BY <2>2, <2>5 DEF LoopInv, Busy
    <3>2. /\ Head(inbox[q])' = Head(inbox[q]) /\ Current(q)' = Current(q)
          /\ Finished(q)'
      BY <2>3, <3>1 DEF Current
    <3>3. Current(q) \in Msgs
      BY <3>1, CurrentType
    <3>4. Finished(q) <=> ~Head(inbox[q]).live
      BY <1>2, <3>1 DEF Finished
    <3>5. ~Finished(q) => at[Current(q)] = "unacked"
      <4>1. ASSUME ~Finished(q) PROVE at[Current(q)] = "unacked"
        <5>1. /\ Len(inbox[q]) = Len(unacked[chan[q]])
              /\ \A i \in DOMAIN unacked[chan[q]] :
                    inbox[q][i].msg = unacked[chan[q]][i]
          <6>1. Offset(q) = 0
            BY <4>1 DEF Offset
          <6>2. chan[q] \in open
            BY <1>2
          <6>3. unacked[chan[q]] \in Seq(Msgs) /\ inbox[q] \in Seq(Delivery)
            BY <6>2 DEF TypeOK
          <6> QED BY <6>1, <6>2, <6>3 DEF MirrorInv
        <5>2. 1 \in DOMAIN unacked[chan[q]] /\ Head(inbox[q]) = inbox[q][1]
          <6>1. unacked[chan[q]] \in Seq(Msgs) /\ inbox[q] \in Seq(Delivery)
            BY <1>2 DEF TypeOK
          <6> QED BY <3>1, <5>1, <6>1
        <5>3. unacked[chan[q]][1] = Current(q)
          BY <5>1, <5>2 DEF Current
        <5> QED BY <1>2, <3>3, <5>2, <5>3 DEF MirrorInv
      <4> QED BY <4>1
    <3>6. /\ Head(inbox[q]).live =>
               at'[Current(q)] = "ready" /\ requeued'[Current(q)] > 0
          /\ ~Head(inbox[q]).live => at'[Current(q)] = "gone"
      BY <2>1, <3>3, <3>4, <3>5 DEF HandInv
    <3>7. HandInv(q)'
      BY <3>1, <3>2, <3>6 DEF HandInv
    <3> QED BY <2>3, <2>5, <3>1, <3>2, <3>7 DEF Busy
  <2> QED BY <2>4, <2>5
<1> QED BY <1>1, <1>2

\* A settlement of the first unsettled delivery covers it and nothing else,
\* with or without the flag "multiple".
LEMMA TakeFirst ==
    ASSUME DeliveryInv, NEW q \in Queues, MirrorInv(q), chan[q] \in open,
           inbox[q] # <<>>, ~Finished(q), NEW multiple \in BOOLEAN
    PROVE  /\ Current(q) \in Msgs /\ at[Current(q)] = "unacked"
           /\ Covered(chan[q], Current(q), multiple) = {Current(q)}
           /\ Left(chan[q], Current(q), multiple) \in Seq(Msgs)
           /\ Len(unacked[chan[q]]) \in Nat \ {0}
           /\ Len(Left(chan[q], Current(q), multiple)) =
                 Len(unacked[chan[q]]) - 1
           /\ \A i \in 1..Len(unacked[chan[q]]) - 1 :
                 Left(chan[q], Current(q), multiple)[i] = unacked[chan[q]][i + 1]
           /\ \A i \in DOMAIN unacked[chan[q]] :
                 unacked[chan[q]][i] = Current(q) <=> i = 1
<1> USE DEF DeliveryInv
<1> DEFINE k == chan[q]
           m == Current(q)
           u == unacked[chan[q]]
<1>1. /\ u \in Seq(Msgs) /\ DOMAIN u = 1..Len(u) /\ Len(u) \in Nat
      /\ Len(inbox[q]) \in Nat /\ inbox[q] \in Seq(Delivery)
  <2>1. k \in Chans
    BY DEF TypeOK
  <2>2. u \in Seq(Msgs) /\ inbox[q] \in Seq(Delivery)
    BY <2>1 DEF TypeOK
  <2> QED BY <2>2
<1>2. /\ Len(inbox[q]) = Len(u)
      /\ \A i \in DOMAIN u : inbox[q][i].msg = u[i]
      /\ \A i, j \in DOMAIN u : u[i] = u[j] => i = j
  <2>1. Offset(q) = 0
    BY DEF Offset
  <2> HIDE DEF u
  <2>2. /\ Len(inbox[q]) = Len(u) + 0
        /\ \A i \in DOMAIN u : inbox[q][i + 0].msg = u[i]
        /\ \A i, j \in DOMAIN u : u[i] = u[j] => i = j
    BY <2>1 DEF MirrorInv, u
  <2> QED BY <1>1, <2>2
<1>3. 1 \in DOMAIN u /\ Len(u) \in Nat \ {0} /\ inbox[q][1] = Head(inbox[q])
  <2> HIDE DEF u
  <2> QED BY <1>1, <1>2
<1>4. u[1] = m /\ m \in Msgs
  BY <1>1, <1>2, <1>3 DEF Current
<1>5. at[m] = "unacked"
  BY <1>3, <1>4 DEF MirrorInv
<1>6. \A i \in DOMAIN u : u[i] = m <=> i = 1
  BY <1>2, <1>3, <1>4
<1>7. Place(k, m) = 1
  BY <1>3, <1>6 DEF Place
<1> HIDE DEF m
<1>8. CASE multiple
  <2>1. /\ Covered(k, m, multiple) = {u[i] : i \in 1..1}
        /\ Left(k, m, multiple) = SubSeq(u, 1 + 1, Len(u))
    BY <1>7, <1>8 DEF Covered, Left
  <2> HIDE DEF u
  <2>2. 1 \in 0..Len(u)
    BY <1>1, <1>3
  <2>3. /\ SubSeq(u, 1 + 1, Len(u)) \in Seq(Msgs)
        /\ Len(SubSeq(u, 1 + 1, Len(u))) = Len(u) - 1
        /\ \A i \in 1..Len(u) - 1 : SubSeq(u, 1 + 1, Len(u))[i] = u[1 + i]
    BY <1>1, <2>2, SuffixFacts
  <2>4. \A i \in 1..Len(u) - 1 : 1 + i = i + 1
    BY <1>1
  <2>5. Covered(k, m, multiple) = {m}
    BY <1>4, <2>1
  <2> QED BY <1>3, <1>4, <1>5, <1>6, <2>1, <2>3, <2>4, <2>5 DEF u, m
<1>9. CASE ~multiple
  <2>1. /\ Covered(k, m, multiple) = {m}
        /\ Left(k, m, multiple) = RemoveAt(u, 1)
    BY <1>7, <1>9 DEF Covered, Left
  <2> HIDE DEF u
  <2>2. u \in Seq(Msgs) /\ 1 \in 1..Len(u)
    BY <1>1, <1>3
  <2>3. /\ RemoveAt(u, 1) \in Seq(Msgs)
        /\ Len(RemoveAt(u, 1)) = Len(u) - 1
        /\ \A i \in 1..Len(u) - 1 : RemoveAt(u, 1)[i] = u[i + 1]
    BY <2>2, RemoveAtFacts
  <2> QED BY <1>3, <1>4, <1>5, <1>6, <2>1, <2>3 DEF u, m
<1> QED BY <1>8, <1>9

\* What a settlement does when the channel has one consumer: nothing, the
\* delivery in hand being lost; the settlement of that delivery; or, when it
\* had been settled before, the end of the channel.
Outcome(q, dead) ==
    \/ /\ Finished(q) /\ UNCHANGED <<at, dlq, requeued, unknownTag>>
    \/ /\ ~Finished(q) /\ at[Current(q)] = "unacked"
       /\ at' = [at EXCEPT ![Current(q)] =
                   IF dead /\ DeadLetter(q) = "retry" THEN "retry" ELSE "gone"]
       /\ dlq' = dlq \cup (IF dead /\ DeadLetter(q) = "dlq"
                           THEN {Current(q)} ELSE {})
       /\ UNCHANGED <<requeued, unknownTag>>
    \/ /\ pc[q] = "ackAgain" /\ dlq' = dlq
       /\ \A m \in Msgs :
             \/ at'[m] = at[m] /\ requeued'[m] = requeued[m]
             \/ at[m] = "unacked" /\ at'[m] = "ready" /\ requeued'[m] > 0

\* It keeps the mirror, and leaves the goroutine with what it settled, or
\* with the next delivery.
LEMMA SettleOne ==
    ASSUME DeliveryInv, NEW q \in Queues, MirrorInv(q), HandInv(q),
           inbox[q] # <<>>, NEW multiple \in BOOLEAN, NEW dead \in BOOLEAN,
           NEW done \in BOOLEAN, Settle(q, multiple, dead, done),
           UNCHANGED chan, NEW l, pc' = [pc EXCEPT ![q] = l],
           done => l = "receive",
           ~done => l \in {"publish", "ackAgain"} /\ ~dead /\ pc[q] # "ackAgain",
           pc[q] \in {"process", "handle", "ackAgain"}
    PROVE  /\ MirrorInv(q)' /\ HandInv(q)' /\ Outcome(q, dead)
           /\ ~done => inbox'[q] # <<>> /\ Current(q)' = Current(q)
<1> USE DEF DeliveryInv
<1> DEFINE k == chan[q]
           m == Current(q)
           b == inbox[q]
           Rest(box) == [box EXCEPT ![q] = IF done THEN Tail(@) ELSE @]
<1>1. /\ b \in Seq(Delivery) /\ Len(b) \in Nat \ {0} /\ 1 \in DOMAIN b
      /\ Head(b) = b[1] /\ DOMAIN b = 1..Len(b)
  <2>1. b \in Seq(Delivery) /\ b # <<>>
    BY DEF TypeOK
  <2> HIDE DEF b
  <2> QED BY <2>1
<1>2. m \in Msgs
  BY CurrentType
<1>3. pc'[q] = l /\ (Busy' \cup {q} = Busy \cup {q})
  BY DEF TypeOK, Busy
<1>4. CASE /\ k \notin open /\ inbox' = Rest(inbox)
           /\ UNCHANGED <<channels, stored, subscribed, requeued, unknownTag>>
  <2>1. /\ Finished(q) /\ Offset(q) = 1 /\ Len(b) = 1
    BY <1>4 DEF Finished, Offset, MirrorInv
  <2>2. UNCHANGED <<open, unacked, at, dlq, requeued, unknownTag>>
    BY <1>4 DEF channels, stored
  <2>3. inbox'[q] = IF done THEN Tail(b) ELSE b
    BY <1>4 DEF TypeOK
  <2>4. Tail(b) = <<>> /\ b = <<b[1]>>
    <3> HIDE DEF b
    <3>1. b = <<b[1]>>
      BY <1>1, <2>1
    <3>2. Tail(<<b[1]>>) = <<>>
      OBVIOUS
    <3> QED BY <3>1, <3>2
  <2>5. \A x \in Msgs : at[x] # "unacked"
    BY <1>4 DEF MirrorInv
  <2>6. \A c \in Chans : unacked[c] = <<>>
    BY <1>4 DEF MirrorInv
  <2> HIDE DEF b
  <2>7. MirrorInv(q)' /\ (Finished(q)' <=> inbox'[q] # <<>>)
    BY <1>4, <2>2, <2>3, <2>4, <2>5, <2>6, MirrorEmpty
  <2>8. CASE done
    BY <1>3, <2>1, <2>2, <2>3, <2>4, <2>7, <2>8 DEF HandInv, Outcome
  <2>9. CASE ~done
    <3>1. inbox'[q] = b /\ Current(q)' = m /\ b # <<>>
      BY <2>3, <2>9 DEF Current, b
    <3> QED BY <1>3, <2>1, <2>2, <2>7, <2>9, <3>1 DEF HandInv, Outcome, b
  <2> QED BY <2>8, <2>9
<1>5. CASE /\ k \in open /\ Head(b).live /\ Settled(k, m, multiple, dead)
           /\ inbox' = Rest(Stale(k, Covered(k, m, multiple)))
           /\ UNCHANGED unknownTag
  <2> DEFINE u == unacked[k]
             v == Left(k, m, multiple)
             s == Stale(k, {m})[q]
  <2>1. ~Finished(q)
    BY <1>5 DEF Finished
  <2>2. /\ at[m] = "unacked" /\ Covered(k, m, multiple) = {m}
        /\ v \in Seq(Msgs) /\ Len(u) \in Nat \ {0} /\ Len(v) = Len(u) - 1
        /\ \A i \in 1..Len(u) - 1 : v[i] = u[i + 1]
        /\ \A i \in DOMAIN u : u[i] = m <=> i = 1
    BY <1>5, <2>1, TakeFirst
  <2>3. /\ s \in Seq(Delivery) /\ Len(s) = Len(b)
        /\ \A i \in DOMAIN b :
              /\ s[i].msg = b[i].msg
              /\ s[i].live <=> b[i].live /\ ~(chan[q] = k /\ b[i].msg \in {m})
    BY StaleShape
  <2>4. k \in Chans /\ u \in Seq(Msgs)
    BY <1>5 DEF TypeOK
  <2>5. /\ Len(b) = Len(u)
        /\ \A i \in DOMAIN u : b[i].msg = u[i] /\ b[i].live
        /\ \A i, j \in DOMAIN u : u[i] = u[j] => i = j
        /\ \A c \in Chans : c # k => unacked[c] = <<>>
        /\ \A x \in Msgs : at[x] = "unacked" <=> \E i \in DOMAIN u : u[i] = x
    <3>1. Offset(q) = 0
      BY <2>1 DEF Offset
    <3> HIDE DEF u, b
    <3>2. /\ Len(b) = Len(u) + 0
          /\ \A i \in DOMAIN u : b[i + 0].msg = u[i] /\ b[i + 0].live
          /\ \A i, j \in DOMAIN u : u[i] = u[j] => i = j
          /\ \A c \in Chans : c # k => unacked[c] = <<>>
          /\ \A x \in Msgs : at[x] = "unacked" <=> \E i \in DOMAIN u : u[i] = x
      BY <1>5, <3>1 DEF MirrorInv, u, b
    <3> QED BY <2>4, <3>2
  <2>6. /\ unacked'[k] = v /\ open' = open /\ requeued' = requeued
        /\ \A c \in Chans : c # k => unacked'[c] = <<>>
    BY <1>5, <2>4, <2>5 DEF Settled, TypeOK
  <2>7. /\ at' = [at EXCEPT ![m] =
                    IF dead /\ DeadLetter(q) = "retry" THEN "retry" ELSE "gone"]
        /\ dlq' = dlq \cup (IF dead /\ DeadLetter(q) = "dlq" THEN {m} ELSE {})
    <3>1. QueueOf[m] = q
      BY <1>1 DEF BoxInv, Current
    <3>2. /\ at' = [x \in Msgs |->
                      IF x \notin {m} THEN at[x]
                      ELSE IF dead /\ DeadLetter(QueueOf[x]) = "retry"
                           THEN "retry" ELSE "gone"]
          /\ dlq' = dlq \cup
                {x \in {m} : dead /\ DeadLetter(QueueOf[x]) = "dlq"}
      BY <1>5, <2>2 DEF Settled
    <3> HIDE DEF m
    <3>3. at' = [at EXCEPT ![m] =
                    IF dead /\ DeadLetter(q) = "retry" THEN "retry" ELSE "gone"]
      BY <1>2, <3>1, <3>2 DEF TypeOK
    <3>4. dlq' = dlq \cup
             (IF dead /\ DeadLetter(q) = "dlq" THEN {m} ELSE {})
      BY <3>1, <3>2
    <3> QED BY <3>3, <3>4
  <2>8. Outcome(q, dead)
    BY <1>5, <2>1, <2>2, <2>6, <2>7 DEF Outcome
  <2>9. inbox'[q] = IF done THEN Tail(s) ELSE s
    BY <1>5, <2>2 DEF Stale
  <2>10. DOMAIN u = 1..Len(u) /\ DOMAIN v = 1..Len(v) /\ DOMAIN s = 1..Len(s)
    BY <2>2, <2>3, <2>4
  <2> HIDE DEF b, u, v, s
  <2>11. /\ s # <<>> /\ Head(s) = s[1] /\ s[1].msg = m /\ ~s[1].live
         /\ \A i \in DOMAIN v :
               /\ i + 1 \in DOMAIN s
               /\ s[i + 1].msg = v[i] /\ s[i + 1].live
    <3>1. /\ s # <<>> /\ Head(s) = s[1]
      BY <1>1, <2>3
    <3>2. s[1].msg = m /\ ~s[1].live
      BY <1>1, <2>3 DEF b, Current
    <3>3. ASSUME NEW i \in DOMAIN v
          PROVE  /\ i + 1 \in DOMAIN s
                 /\ s[i + 1].msg = v[i] /\ s[i + 1].live
      <4>1. i \in 1..Len(u) - 1 /\ i + 1 \in 1..Len(u) /\ i + 1 # 1
        BY <2>2, <2>10
      <4>2. /\ i + 1 \in DOMAIN u /\ i + 1 \in DOMAIN b /\ i + 1 \in DOMAIN s
        BY <4>1, <1>1, <2>3, <2>5, <2>10
      <4>3. u[i + 1] = v[i] /\ u[i + 1] # m
        BY <2>2, <4>1, <4>2
      <4>4. b[i + 1].msg = u[i + 1] /\ b[i + 1].live
        BY <2>5, <4>2
      <4> QED BY <2>3, <4>2, <4>3, <4>4
    <3> QED BY <3>1, <3>2, <3>3
  <2>12. /\ Len(s) = Len(v) + 1
         /\ \A i, j \in DOMAIN v : v[i] = v[j] => i = j
    <3>1. Len(s) = Len(v) + 1
      BY <2>2, <2>3, <2>5
    <3>2. ASSUME NEW i \in DOMAIN v, NEW j \in DOMAIN v, v[i] = v[j]
          PROVE  i = j
      <4>1. /\ i \in 1..Len(u) - 1 /\ i + 1 \in DOMAIN u
            /\ j \in 1..Len(u) - 1 /\ j + 1 \in DOMAIN u
        BY <2>2, <2>10
      <4>2. u[i + 1] = u[j + 1]
        BY <2>2, <3>2, <4>1
      <4>3. i + 1 = j + 1
        BY <2>5, <4>1, <4>2
      <4> QED BY <4>1, <4>3
    <3> QED BY <3>1, <3>2
  <2>13. ASSUME NEW x \in Msgs
         PROVE  at'[x] = "unacked" <=> \E i \in DOMAIN v : v[i] = x
    <3>1. \A i \in DOMAIN v : v[i] # m
      <4>1. ASSUME NEW i \in DOMAIN v PROVE v[i] # m
        <5>1. i \in 1..Len(u) - 1 /\ i + 1 \in DOMAIN u /\ i + 1 # 1
          BY <2>2, <2>10
        <5> QED BY <2>2, <5>1
      <4> QED BY <4>1
    <3>2. CASE x = m
      BY <1>2, <2>7, <3>1, <3>2 DEF TypeOK
    <3>3. CASE x # m
      <4>1. at'[x] = at[x]
        BY <2>7, <3>3 DEF TypeOK
      <4>2. ASSUME NEW i \in DOMAIN u, u[i] = x PROVE \E j \in DOMAIN v : v[j] = x
        <5>1. i # 1
          BY <2>2, <3>3, <4>2
        <5>2. i - 1 \in 1..Len(u) - 1 /\ (i - 1) + 1 = i /\ i - 1 \in DOMAIN v
          BY <2>2, <2>10, <4>2, <5>1
        <5> QED BY <2>2, <4>2, <5>2
      <4>3. ASSUME NEW j \in DOMAIN v, v[j] = x PROVE \E i \in DOMAIN u : u[i] = x
        <5>1. j \in 1..Len(u) - 1 /\ j + 1 \in DOMAIN u
          BY <2>2, <2>10
        <5> QED BY <2>2, <4>3, <5>1
      <4> QED BY <2>5, <4>1, <4>2, <4>3
    <3> QED BY <3>2, <3>3
  <2>14. CASE done
    <3>1. /\ inbox'[q] = Tail(s) /\ Len(Tail(s)) = Len(v)
          /\ Tail(s) \in Seq(Delivery)
          /\ \A i \in DOMAIN v : Tail(s)[i] = s[i + 1]
      BY <2>3, <2>9, <2>10, <2>11, <2>12, <2>14, HeadTailProperties
    <3>2. ~Finished(q)'
      <4>1. ASSUME Tail(s) # <<>> PROVE Head(Tail(s)).live
        <5>1. 1 \in DOMAIN v /\ Head(Tail(s)) = Tail(s)[1]
          BY <2>10, <3>1, <4>1
        <5> QED BY <2>11, <3>1, <5>1
      <4> QED BY <1>5, <2>6, <3>1, <4>1 DEF Finished
    <3>3. MirrorInv(q)'
      <4>1. Offset(q)' = 0
        BY <3>2 DEF Offset
      <4>2. /\ Len(inbox'[q]) = Len(v) + 0
            /\ \A i \in DOMAIN v :
                  inbox'[q][i + 0].msg = v[i] /\ inbox'[q][i + 0].live
        BY <2>2, <2>10, <2>11, <2>12, <3>1
      <4> QED BY <1>5, <2>6, <2>12, <2>13, <4>1, <4>2 DEF MirrorInv
    <3> QED BY <1>3, <2>8, <2>14, <3>2, <3>3 DEF HandInv
  <2>15. CASE ~done
    <3>1. inbox'[q] = s /\ Current(q)' = m
      BY <2>9, <2>11, <2>15 DEF Current
    <3>2. Finished(q)'
      BY <2>11, <3>1 DEF Finished
    <3>3. MirrorInv(q)'
      <4>1. Offset(q)' = 1
        BY <3>2 DEF Offset
      <4>2. /\ Len(inbox'[q]) = Len(v) + 1
            /\ \A i \in DOMAIN v :
                  inbox'[q][i + 1].msg = v[i] /\ inbox'[q][i + 1].live
        BY <2>11, <2>12, <3>1
      <4>3. /\ Len(inbox'[q]) = Len(unacked'[k]) + Offset(q)'
            /\ \A i \in DOMAIN unacked'[k] :
                  /\ inbox'[q][i + Offset(q)'].msg = unacked'[k][i]
                  /\ inbox'[q][i + Offset(q)'].live
            /\ \A i, j \in DOMAIN unacked'[k] :
                  unacked'[k][i] = unacked'[k][j] => i = j
            /\ \A x \in Msgs : at'[x] = "unacked" <=>
                  \E i \in DOMAIN unacked'[k] : unacked'[k][i] = x
        BY <2>6, <2>12, <2>13, <4>1, <4>2
      <4>4. /\ k \in open' /\ chan' = chan
            /\ \A c \in Chans : c # k => unacked'[c] = <<>>
        BY <1>5, <2>6
      <4> HIDE DEF DeliveryInv
      <4> QED BY <4>3, <4>4 DEF MirrorInv
    <3>4. at'[m] = "gone"
      BY <1>2, <2>7, <2>15 DEF TypeOK
    <3> QED BY <1>3, <2>8, <2>11, <2>15, <3>1, <3>2, <3>3, <3>4 DEF HandInv
  <2> QED BY <2>14, <2>15
<1>6. CASE /\ k \in open /\ ~Head(b).live /\ CloseChannels({k})
           /\ inbox' = Rest(LostInbox({k}, Busy \cup {q})) /\ unknownTag' = TRUE
  <2>1. Finished(q)
    BY <1>6 DEF Finished
  <2>2. pc[q] = "ackAgain" /\ done
    BY <1>6, <2>1 DEF HandInv
  <2>3. /\ dlq' = dlq /\ k \notin open' /\ \A c \in Chans : unacked'[c] = <<>>
        /\ \A x \in Msgs :
             /\ at[x] # "unacked" =>
                  at'[x] = at[x] /\ requeued'[x] = requeued[x]
             /\ at[x] = "unacked" => at'[x] = "ready" /\ requeued'[x] > 0
    BY <1>6, OneClose
  <2>4. inbox'[q] = <<>>
    <3>1. LostInbox({k}, Busy \cup {q})[q] = <<Head(b)>>
      BY DEF LostInbox
    <3>2. inbox'[q] = Tail(<<Head(b)>>)
      BY <1>6, <2>2, <3>1 DEF LostInbox
    <3> HIDE DEF b
    <3> QED BY <3>2
  <2>5. MirrorInv(q)' /\ ~Finished(q)'
    BY <2>3, <2>4, MirrorEmpty
  <2>6. HandInv(q)'
    BY <1>3, <2>2, <2>5 DEF HandInv
  <2>7. Outcome(q, dead)
    BY <2>2, <2>3 DEF Outcome
  <2> QED BY <2>2, <2>5, <2>6, <2>7
<1> QED BY <1>4, <1>5, <1>6, Zenon DEF Settle

\* Steps that leave deliveries and messages alone.
LEMMA HoldQuiet ==
    ASSUME NEW q \in Queues, MirrorInv(q), HandInv(q),
           UNCHANGED <<unacked, requeued>>,
           \A m \in Msgs :
               \/ at'[m] = at[m]
               \/ at[m] = "retry" /\ at'[m] = "ready",
           inbox[q] # <<>> => Current(q) \in Msgs,
           inbox'[q] = inbox[q], chan'[q] = chan[q],
           chan[q] \in open' <=> chan[q] \in open,
           \/ pc'[q] = pc[q]
           \/ pc'[q] \in {"check", "consume", "stopped"}
           \/ pc'[q] = "receive" /\ inbox[q] = <<>>
           \/ pc'[q] \in {"process", "handle"} /\ Head(inbox[q]).live
    PROVE  MirrorInv(q)' /\ HandInv(q)'
<1>1. /\ Finished(q)' <=> Finished(q)
      /\ Offset(q)' = Offset(q) /\ Current(q)' = Current(q)
  BY DEF Finished, Offset, Current
<1>2. MirrorInv(q)'
  <2>1. \A c \in Chans : c # chan[q] \/ c \notin open' => unacked[c] = <<>>
    BY DEF MirrorInv
  <2>2. \A m \in Msgs : at'[m] = "unacked" <=> at[m] = "unacked"
    OBVIOUS
  <2> QED BY <1>1, <2>1, <2>2 DEF MirrorInv
<1>3. HandInv(q)'
  <2>1. Finished(q) => inbox[q] # <<>>
    BY DEF Finished
  <2> QED BY <1>1, <2>1 DEF HandInv
<1> QED BY <1>2, <1>3

\* A goroutine that asks for a channel holds nothing, and the channel it gets
\* has no unsettled deliveries.
LEMMA HoldCheck ==
    ASSUME DeliveryInv, NEW q \in Queues, MirrorInv(q), HandInv(q), Check(q)
    PROVE  MirrorInv(q)' /\ HandInv(q)'
<1> USE DEF DeliveryInv
<1>1. /\ inbox[q] = <<>> /\ ~Finished(q) /\ Offset(q) = 0
      /\ UNCHANGED <<open, unacked, at, requeued, inbox>>
  BY DEF Check, LoopInv, Finished, Offset, channels, stored, history
<1>2. pc'[q] \in {"stopped", "consume"}
  BY DEF Check, Goto, TypeOK
<1>3. ~Finished(q)' /\ Offset(q)' = 0
  BY <1>1 DEF Finished, Offset
<1>4. HandInv(q)'
  BY <1>2, <1>3 DEF HandInv
<1>5. \A c \in Chans : unacked[c] = <<>>
  <2>1. ASSUME chan[q] \in open PROVE unacked[chan[q]] = <<>>
    <3>1. Len(unacked[chan[q]]) = 0 /\ unacked[chan[q]] \in Seq(Msgs)
      BY <1>1, <2>1 DEF MirrorInv, TypeOK
    <3> QED BY <3>1
  <2> QED BY <2>1 DEF MirrorInv
<1>6. \A m \in Msgs : at[m] # "unacked"
  <2>1. DOMAIN << >> = {}
    OBVIOUS
  <2> QED BY <1>5, <2>1 DEF MirrorInv, TypeOK
<1>7. chan'[q] \in open' => chan'[q] \in Chans
  BY <1>1 DEF TypeOK
<1>8. DOMAIN << >> = {} /\ Len(<< >>) = 0
  OBVIOUS
<1>9. /\ \A c \in Chans : unacked'[c] = <<>>
      /\ \A m \in Msgs : at'[m] # "unacked" /\ inbox'[q] = <<>>
      /\ inbox'[q] = <<>>
  BY <1>1, <1>5, <1>6
<1> QED BY <1>3, <1>4, <1>7, <1>8, <1>9 DEF MirrorInv

\* A delivery is the last one, in the inbox and on the channel.
LEMMA HoldDeliver ==
    ASSUME DeliveryInv, NEW q \in Queues, MirrorInv(q), HandInv(q), Deliver(q)
    PROVE  MirrorInv(q)' /\ HandInv(q)'
<1> USE DEF DeliveryInv
<1>1. PICK d \in Msgs :
         /\ at[d] = "ready" /\ at' = [at EXCEPT ![d] = "unacked"]
         /\ unacked' = [unacked EXCEPT ![chan[q]] = Append(@, d)]
         /\ inbox' = [inbox EXCEPT ![q] = Append(@,
                      [msg |-> d, count |-> deaths[d], live |-> TRUE])]
  BY DEF Deliver
<1>2. /\ chan[q] \in open /\ chan[q] \in Chans
      /\ UNCHANGED <<open, chan, pc, requeued>>
  BY DEF Deliver, LoopInv, TypeOK, history
<1> DEFINE b == inbox[q]
           u == unacked[chan[q]]
           o == Offset(q)
           e == [msg |-> d, count |-> deaths[d], live |-> TRUE]
<1>3. /\ b \in Seq(Delivery) /\ u \in Seq(Msgs) /\ e \in Delivery
      /\ e.msg = d /\ e.live
  BY <1>2 DEF TypeOK, Delivery
<1>4. inbox'[q] = Append(b, e) /\ unacked'[chan[q]] = Append(u, d)
      /\ \A c \in Chans : c # chan[q] => unacked'[c] = <<>>
  BY <1>1, <1>2 DEF TypeOK, MirrorInv
<1>5. /\ Len(b) = Len(u) + o /\ o \in {0, 1}
      /\ \A i \in DOMAIN u : b[i + o].msg = u[i] /\ b[i + o].live
      /\ \A i, j \in DOMAIN u : u[i] = u[j] => i = j
      /\ \A x \in Msgs : at[x] = "unacked" <=> \E i \in DOMAIN u : u[i] = x
  BY <1>2 DEF MirrorInv, Offset
<1>6. /\ Finished(q) => b # <<>> /\ ~Head(b).live /\ at[Current(q)] = "gone"
      /\ ~Finished(q) /\ b # <<>> => Head(b).live
      /\ o = 1 <=> Finished(q)
  BY <1>2 DEF Finished, HandInv, Offset
<1>7. b # <<>> => Current(q) \in Msgs
  BY CurrentType
<1> HIDE DEF b, u, o, e
<1>8. /\ DOMAIN b = 1..Len(b) /\ Len(b) \in Nat
      /\ DOMAIN u = 1..Len(u) /\ Len(u) \in Nat
  BY <1>3
<1>9. /\ Len(Append(b, e)) = Len(b) + 1 /\ Append(b, e)[Len(b) + 1] = e
      /\ \A i \in 1..Len(b) : Append(b, e)[i] = b[i]
      /\ Len(Append(u, d)) = Len(u) + 1 /\ Append(u, d)[Len(u) + 1] = d
      /\ \A i \in 1..Len(u) : Append(u, d)[i] = u[i]
      /\ Append(b, e) \in Seq(Delivery) /\ Append(u, d) \in Seq(Msgs)
  BY <1>3, AppendProperties
<1> DEFINE bb == inbox'[q]
           uu == unacked'[chan[q]]
<1>10. /\ Len(bb) = Len(uu) + o /\ bb # <<>>
       /\ Head(bb) = bb[1] /\ DOMAIN uu = 1..Len(u) + 1
  BY <1>4, <1>5, <1>8, <1>9
<1>11. ASSUME NEW i \in DOMAIN uu
       PROVE  bb[i + o].msg = uu[i] /\ bb[i + o].live
  <2>1. CASE i = Len(u) + 1
    <3>1. i + o = Len(b) + 1
      BY <1>5, <1>8, <2>1
    <3> QED BY <1>3, <1>4, <1>9, <2>1, <3>1
  <2>2. CASE i # Len(u) + 1
    <3>1. i \in 1..Len(u) + 1
      BY <1>10
    <3>2. i \in 1..Len(u) /\ i + o \in 1..Len(b)
      BY <1>5, <1>8, <2>2, <3>1
    <3> QED BY <1>4, <1>5, <1>8, <1>9, <3>2
  <2> QED BY <2>1, <2>2
<1>12. ASSUME NEW i \in DOMAIN uu, NEW j \in DOMAIN uu, uu[i] = uu[j]
       PROVE  i = j
  <2>1. \A n \in 1..Len(u) : u[n] # d
    BY <1>1, <1>5, <1>8
  <2>2. \A n \in DOMAIN uu : n = Len(u) + 1 \/ n \in 1..Len(u)
    BY <1>8, <1>10
  <2>3. \A n \in 1..Len(u) : uu[n] = u[n]
    BY <1>4, <1>9
  <2>4. uu[Len(u) + 1] = d
    BY <1>4, <1>9
  <2> QED BY <1>5, <1>8, <1>12, <2>1, <2>2, <2>3, <2>4
<1>13. ASSUME NEW x \in Msgs
       PROVE  at'[x] = "unacked" <=> \E i \in DOMAIN uu : uu[i] = x
  <2>1. \A n \in 1..Len(u) : n \in DOMAIN uu /\ uu[n] = u[n]
    BY <1>4, <1>8, <1>9, <1>10
  <2>2. Len(u) + 1 \in DOMAIN uu /\ uu[Len(u) + 1] = d
    BY <1>4, <1>8, <1>9, <1>10
  <2>3. \A n \in DOMAIN uu : n = Len(u) + 1 \/ n \in 1..Len(u)
    BY <1>8, <1>10
  <2>4. at'[x] = IF x = d THEN "unacked" ELSE at[x]
    BY <1>1 DEF TypeOK
  <2> QED BY <1>5, <1>8, <2>1, <2>2, <2>3, <2>4
<1>14. /\ Finished(q)' <=> Finished(q)
       /\ Finished(q) => Head(bb) = Head(b)
  <2>1. CASE b = <<>>
    <3>1. bb[1] = e
      BY <1>4, <1>8, <1>9, <2>1
    <3> QED BY <1>2, <1>3, <1>6, <1>10, <2>1, <3>1 DEF Finished, b
  <2>2. CASE b # <<>>
    <3>1. 1 \in 1..Len(b) /\ Head(b) = b[1]
      BY <1>3, <1>8, <2>2
    <3>2. Head(bb) = Head(b)
      BY <1>4, <1>9, <1>10, <3>1
    <3> QED BY <1>2, <1>6, <1>10, <2>2, <3>2 DEF Finished, b
  <2> QED BY <2>1, <2>2
<1>15. MirrorInv(q)'
  <2>1. Offset(q)' = o
    BY <1>14 DEF Offset, o
  <2>2. /\ chan'[q] = chan[q] /\ chan[q] \in open'
        /\ \A c \in Chans : c # chan[q] => unacked'[c] = <<>>
    BY <1>2, <1>4
  <2>3. /\ Len(inbox'[q]) = Len(unacked'[chan[q]]) + o
        /\ \A i \in DOMAIN unacked'[chan[q]] :
              /\ inbox'[q][i + o].msg = unacked'[chan[q]][i]
              /\ inbox'[q][i + o].live
        /\ \A i, j \in DOMAIN unacked'[chan[q]] :
              unacked'[chan[q]][i] = unacked'[chan[q]][j] => i = j
        /\ \A x \in Msgs : at'[x] = "unacked" <=>
              \E i \in DOMAIN unacked'[chan[q]] : unacked'[chan[q]][i] = x
    BY <1>10, <1>11, <1>12, <1>13
  <2> HIDE DEF DeliveryInv
  <2> QED BY <2>1, <2>2, <2>3 DEF MirrorInv
<1>16. HandInv(q)'
  <2>1. ASSUME Finished(q)
        PROVE  /\ Current(q)' = Current(q) /\ ~Head(bb).live
               /\ at'[Current(q)] = "gone"
    BY <1>1, <1>6, <1>7, <1>14, <2>1 DEF Current, b, TypeOK
  <2>2. pc[q] \in {"process", "handle"} => Head(bb).live
    <3>1. ASSUME pc[q] \in {"process", "handle"} PROVE Head(bb).live
      <4>1. b # <<>> /\ Head(b).live
        BY <3>1 DEF LoopInv, HandInv, b
      <4>2. 1 \in 1..Len(b) /\ Head(b) = b[1]
        BY <1>3, <1>8, <4>1
      <4>3. Head(bb) = Head(b)
        BY <1>4, <1>9, <1>10, <4>2
      <4> QED BY <4>1, <4>3
    <3> QED BY <3>1
  <2> QED BY <1>2, <1>14, <2>1, <2>2 DEF HandInv
<1> QED BY <1>15, <1>16

\* After the publication the goroutine goes on with the next delivery.
LEMMA HoldPublish ==
    ASSUME DeliveryInv, NEW q \in Queues, MirrorInv(q), HandInv(q),
           PublishToDlq(q)
    PROVE  /\ MirrorInv(q)' /\ HandInv(q)' /\ inbox[q] # <<>>
           /\ requeued[Current(q)] > 0 \/ at[Current(q)] = "gone"
<1> USE DEF DeliveryInv
<1> DEFINE b == inbox[q]
           u == unacked[chan[q]]
<1>1. /\ pc[q] = "publish" /\ b # <<>> /\ Finished(q) /\ Offset(q) = 1
      /\ pc'[q] = "receive" /\ inbox'[q] = Tail(b)
      /\ UNCHANGED <<open, unacked, at, chan, requeued>>
  BY DEF PublishToDlq, LoopInv, HandInv, Goto, Offset, TypeOK, channels
<1>2. requeued[Current(q)] > 0 \/ at[Current(q)] = "gone"
  BY <1>1 DEF HandInv
<1>3. b \in Seq(Delivery)
  BY DEF TypeOK
<1>4. /\ \A c \in Chans : c # chan[q] \/ c \notin open => unacked[c] = <<>>
      /\ chan[q] \notin open => Len(b) = 1
      /\ chan[q] \in open =>
           /\ Len(b) = Len(u) + 1 /\ u \in Seq(Msgs)
           /\ \A i \in DOMAIN u : b[i + 1].msg = u[i] /\ b[i + 1].live
           /\ \A i, j \in DOMAIN u : u[i] = u[j] => i = j
      /\ \A x \in Msgs : at[x] = "unacked" <=>
           chan[q] \in open /\ \E i \in DOMAIN u : u[i] = x
  <2>1. unacked[chan[q]] \in Seq(Msgs) \/ chan[q] \notin open
    BY DEF TypeOK
  <2>2. Offset(q) = 1
    BY <1>1
  <2> HIDE DEF DeliveryInv
  <2> QED BY <2>1, <2>2 DEF MirrorInv
<1> HIDE DEF b, u
<1>5. /\ Tail(b) \in Seq(Delivery) /\ Len(Tail(b)) = Len(b) - 1
      /\ Len(b) \in Nat \ {0} /\ DOMAIN Tail(b) = 1..Len(Tail(b))
      /\ \A i \in 1..Len(Tail(b)) : Tail(b)[i] = b[i + 1]
      /\ Tail(b) # <<>> => Head(Tail(b)) = Tail(b)[1]
  BY <1>1, <1>3, HeadTailProperties, LenProperties
<1>6. CASE chan[q] \in open
  <2>1. /\ Len(Tail(b)) = Len(u) /\ DOMAIN u = 1..Len(u) /\ Len(u) \in Nat
        /\ \A i \in DOMAIN u : Tail(b)[i].msg = u[i] /\ Tail(b)[i].live
    <3>1. u \in Seq(Msgs) /\ Len(b) = Len(u) + 1
      BY <1>4, <1>6
    <3>2. DOMAIN u = 1..Len(u) /\ Len(u) \in Nat
      BY <3>1
    <3>3. Len(Tail(b)) = Len(u)
      BY <1>5, <3>1, <3>2
    <3> QED BY <1>4, <1>5, <1>6, <3>2, <3>3
  <2>2. Tail(b) # <<>> => Head(Tail(b)).live
    <3>1. ASSUME Tail(b) # <<>> PROVE Head(Tail(b)).live
      <4>1. 1 \in DOMAIN u
        BY <1>5, <2>1, <3>1
      <4> QED BY <1>5, <2>1, <3>1, <4>1
    <3> QED BY <3>1
  <2>3. ~Finished(q)' /\ Offset(q)' = 0
    BY <1>1, <1>6, <2>2 DEF Finished, Offset
  <2>4. /\ Len(Tail(b)) = Len(u) + 0
        /\ \A i \in DOMAIN u : Tail(b)[i + 0].msg = u[i] /\ Tail(b)[i + 0].live
    BY <2>1
  <2>5. MirrorInv(q)'
    <3>1. /\ chan' = chan /\ open' = open /\ unacked' = unacked /\ at' = at
          /\ inbox'[q] = Tail(b)
      BY <1>1
    <3>2. unacked'[chan'[q]] = u
      BY <3>1 DEF u
    <3> HIDE DEF DeliveryInv
    <3>3. /\ Len(inbox'[q]) = Len(unacked'[chan'[q]]) + Offset(q)'
          /\ \A i \in DOMAIN unacked'[chan'[q]] :
                /\ inbox'[q][i + Offset(q)'].msg = unacked'[chan'[q]][i]
                /\ inbox'[q][i + Offset(q)'].live
      BY <2>3, <2>4, <3>1, <3>2
    <3>4. \A i, j \in DOMAIN unacked'[chan'[q]] :
              unacked'[chan'[q]][i] = unacked'[chan'[q]][j] => i = j
      BY <1>4, <1>6, <3>2
    <3>5. /\ chan'[q] \in open'
          /\ \A k \in Chans : k # chan'[q] \/ k \notin open' =>
                unacked'[k] = <<>>
      BY <1>4, <1>6, <3>1
    <3>6. \A m \in Msgs : at'[m] = "unacked" <=>
              /\ chan'[q] \in open'
              /\ \E i \in DOMAIN unacked'[chan'[q]] :
                    unacked'[chan'[q]][i] = m
      BY <1>4, <3>1, <3>2
    <3> QED BY <3>3, <3>4, <3>5, <3>6, Zenon DEF MirrorInv
  <2>6. HandInv(q)'
    BY <1>1, <2>3 DEF HandInv
  <2>7. inbox[q] # <<>>
    BY <1>1 DEF b
  <2> QED BY <1>2, <2>5, <2>6, <2>7, Zenon
<1>7. CASE chan[q] \notin open
  <2>1. Tail(b) = <<>>
    <3>1. Len(b) = 1
      BY <1>4, <1>7
    <3>2. Len(Tail(b)) = 0 /\ Tail(b) \in Seq(Delivery)
      BY <1>5, <3>1
    <3> QED BY <3>2, EmptySeq
  <2>2. \A c \in Chans : unacked[c] = <<>>
    BY <1>4, <1>7
  <2>3. MirrorInv(q)' /\ ~Finished(q)'
    BY <1>1, <1>4, <1>7, <2>1, <2>2, MirrorEmpty
  <2>4. HandInv(q)'
    BY <1>1, <2>3 DEF HandInv
  <2> QED BY <1>1, <1>2, <2>3, <2>4 DEF b
<1> QED BY <1>6, <1>7

\* Steps that end no delivery: a message is where it was, or moves without
\* leaving the queues.
LEMMA CauseQuiet ==
    ASSUME DeliveryInv, DeliveryInv', NEW q \in Queues, Queues = {q},
           CauseInv(q),
           UNCHANGED <<kind, conf, last, dlq, unpublished>>,
           unknownTag' => unknownTag \/ ~conf[q].dlq,
           \A m \in Msgs :
               \/ at'[m] = at[m] /\ requeued'[m] = requeued[m]
               \/ /\ at[m] # "gone" /\ at'[m] # "gone"
                  /\ requeued[m] > 0 => requeued'[m] > 0,
           q \in Called' => pc'[q] = pc[q] /\ Current(q)' = Current(q),
           pc[q] = "publish" => pc'[q] = "publish"
    PROVE  CauseInv(q)'
<1> USE DEF DeliveryInv
<1>0. \A m \in Msgs : requeued[m] \in Nat /\ requeued'[m] \in Nat
  BY DEF TypeOK
<1>1. q \in Called' => q \in Called /\ inbox[q] # <<>> /\ Current(q) \in Msgs
  <2>1. q \in Called' => q \in Called
    BY DEF Called
  <2>2. q \in Called => inbox[q] # <<>>
    BY DEF Called, LoopInv
  <2> QED BY <2>1, <2>2, CurrentType
<1>2. ReasonInv(q)'
  <2>1. /\ pc'[q] \in {"publish", "ackAgain"} => q \in Called'
        /\ pc'[q] = "publish" => q \in Called'
    BY DEF Called
  <2>2. \A m \in Msgs : requeued[m] > 0 => requeued'[m] > 0
    BY <1>0
  <2> QED BY <1>1, <2>1, <2>2 DEF CauseInv, ReasonInv, NeverRuns
<1>3. FateInv'
  BY <1>0 DEF CauseInv, FateInv
<1>4. OneFate'
  BY <1>0 DEF CauseInv, OneFate
<1>5. NoSilentLoss'
  <2>1. \A m \in Msgs : QueueOf[m] = q
    BY MessagesAssumption
  <2>2. \A m \in Msgs : at'[m] = "gone" => at[m] = "gone"
    OBVIOUS
  <2>3. ASSUME NEW m \in Msgs, pc[q] = "publish", Holds(q, m)
        PROVE  pc'[q] = "publish" /\ Holds(q, m)'
    BY <2>3 DEF Holds, Busy, Called
  <2> QED BY <2>1, <2>2, <2>3 DEF CauseInv, NoSilentLoss, NeverRuns
<1>6. unknownTag' => ~conf'[q].dlq
  BY DEF CauseInv
<1> QED BY <1>2, <1>3, <1>4, <1>5, <1>6 DEF CauseInv

\* The settlement of the delivery in hand, whatever the handler returned: the
\* message is gone, or goes to the retry queue, and has one fate; unless the
\* channel closed, and it went back. That its loss has a reason is left to
\* the action.
LEMMA CauseTaken ==
    ASSUME DeliveryInv, DeliveryInv', NEW q \in Queues, Queues = {q},
           HandInv(q), CauseInv(q), inbox[q] # <<>>,
           NEW dead \in BOOLEAN, Outcome(q, dead),
           pc[q] \in {"process", "handle"},
           UNCHANGED <<kind, conf, unpublished>>,
           NEW r, last' = [last EXCEPT ![Current(q)] = r],
           r = "ok" => ~dead \/ last[Current(q)] = "ok",
           ReasonInv(q)',
           ~Finished(q) /\ kind[Current(q)] = "typed"
             /\ at'[Current(q)] = "gone" =>
               \/ r = "ok"
               \/ pc'[q] = "publish" /\ Current(q)' = Current(q)
               \/ /\ ~conf[q].dlq
                  /\ r \in {"error", "retryable"} \/ NeverRuns(q)
    PROVE  CauseInv(q)'
<1> USE DEF DeliveryInv
<1>0. PICK c \in Msgs : c = Current(q)
  BY CurrentType
<1>1. c \in Msgs /\ \A m \in Msgs : QueueOf[m] = q
  BY MessagesAssumption
<1>2. CASE ~Finished(q)
  <2>1. /\ at[c] = "unacked"
        /\ at' = [at EXCEPT ![c] =
                    IF dead /\ DeadLetter(q) = "retry" THEN "retry" ELSE "gone"]
        /\ dlq' = dlq \cup (IF dead /\ DeadLetter(q) = "dlq" THEN {c} ELSE {})
        /\ UNCHANGED <<requeued, unknownTag>>
    BY <1>0, <1>2 DEF Outcome
  <2>2. requeued[c] = 0 => c \notin dlq /\ last[c] # "ok"
    BY <1>1, <2>1 DEF CauseInv, FateInv
  <2>3. requeued[c] \in Nat
    BY <1>1 DEF TypeOK
  <2>4. /\ last'[c] = r /\ at'[c] \in {"retry", "gone"}
        /\ at'[c] = "retry" => dead /\ dlq' = dlq
        /\ \A m \in Msgs \ {c} :
              /\ at'[m] = at[m] /\ last'[m] = last[m]
              /\ m \in dlq' <=> m \in dlq
    <3>1. /\ at'[c] = IF dead /\ DeadLetter(q) = "retry" THEN "retry" ELSE "gone"
          /\ \A m \in Msgs \ {c} : at'[m] = at[m]
      BY <1>1, <2>1 DEF TypeOK
    <3>2. last'[c] = r /\ \A m \in Msgs \ {c} : last'[m] = last[m]
      BY <1>0, <1>1 DEF TypeOK
    <3>3. /\ \A m \in Msgs \ {c} : m \in dlq' <=> m \in dlq
          /\ DeadLetter(q) = "retry" => dlq' = dlq
      BY <2>1
    <3> QED BY <3>1, <3>2, <3>3
  <2>5. FateInv'
    <3>1. ASSUME requeued[c] = 0, c \in dlq' \/ r = "ok" PROVE at'[c] = "gone"
      BY <2>2, <2>4, <3>1
    <3> QED BY <2>1, <2>4, <3>1 DEF FateInv, CauseInv
  <2>6. OneFate'
    <3>1. ASSUME r = "ok", c \in dlq' PROVE requeued[c] > 0
      BY <1>0, <2>1, <2>2, <2>3, <3>1
    <3> QED BY <2>1, <2>4, <3>1 DEF OneFate, CauseInv
  <2>7. NoSilentLoss'
    <3>1. ASSUME NEW m \in Msgs \ {c}, kind[m] = "typed", at'[m] = "gone"
          PROVE  \/ last'[m] = "ok" \/ m \in dlq' \/ m \in unpublished
                 \/ /\ ~conf[q].dlq
                    /\ last'[m] \in {"error", "retryable"} \/ NeverRuns(q)
      BY <1>1, <2>4, <3>1 DEF NoSilentLoss, CauseInv
    <3>2. ASSUME kind[c] = "typed", at'[c] = "gone"
          PROVE  \/ last'[c] = "ok"
                 \/ pc'[q] = "publish" /\ Holds(q, c)'
                 \/ /\ ~conf[q].dlq
                    /\ last'[c] \in {"error", "retryable"} \/ NeverRuns(q)
      <4>1. pc'[q] = "publish" /\ Current(q)' = c => Holds(q, c)'
        BY DEF Holds, Busy
      <4> QED BY <1>0, <1>2, <2>4, <3>2, <4>1
    <3> QED BY <1>1, <3>1, <3>2 DEF NoSilentLoss, NeverRuns
  <2>8. unknownTag' => ~conf'[q].dlq
    BY <2>1 DEF CauseInv
  <2> QED BY <2>5, <2>6, <2>7, <2>8 DEF CauseInv
<1>3. CASE Finished(q)
  <2>1. /\ at' = at /\ dlq' = dlq /\ requeued' = requeued
        /\ unknownTag' = unknownTag
        /\ at[c] = "ready" /\ requeued[c] > 0
    BY <1>0, <1>3 DEF Outcome, HandInv
  <2>2. \A m \in Msgs \ {c} : last'[m] = last[m]
    BY <1>0 DEF TypeOK
  <2>3. FateInv' /\ OneFate' /\ (unknownTag' => ~conf'[q].dlq)
    BY <2>1, <2>2 DEF CauseInv, FateInv, OneFate
  <2>4. NoSilentLoss'
    BY <1>1, <2>1, <2>2 DEF CauseInv, NoSilentLoss, NeverRuns
  <2> QED BY <2>3, <2>4 DEF CauseInv
<1> QED BY <1>2, <1>3

\* At the start nothing is delivered.
LEMMA OneInit ==
    ASSUME Init, NEW q \in Queues
    PROVE  OneInv(q)
<1>1. /\ inbox[q] = <<>> /\ pc[q] = "check" /\ chan[q] = NoChan
      /\ chan[q] \notin open
  BY ChansAssumption DEF Init
<1>2. \A k \in Chans : unacked[k] = <<>>
  BY DEF Init
<1>3. ~Finished(q) /\ Offset(q) = 0
  BY <1>1 DEF Finished, Offset
<1>4. MirrorInv(q)
  BY <1>1, <1>2, <1>3 DEF MirrorInv, Init
<1>5. HandInv(q)
  BY <1>1, <1>3 DEF HandInv
<1>6. ReasonInv(q)
  BY <1>1 DEF ReasonInv, Called
<1>7. FateInv /\ NoSilentLoss /\ OneFate /\ ~unknownTag
  BY DEF Init, FateInv, NoSilentLoss, OneFate
<1> QED BY <1>4, <1>5, <1>6, <1>7 DEF OneInv, CauseInv

\* A step that ends no delivery: a message is where it was, or moves without
\* leaving the queues, and the goroutine holds what it held.
Quiet(q) ==
    /\ UNCHANGED <<kind, conf, last, dlq, unpublished>>
    /\ unknownTag' = unknownTag
    /\ \A m \in Msgs :
          \/ at'[m] = at[m] /\ requeued'[m] = requeued[m]
          \/ /\ at[m] # "gone" /\ at'[m] # "gone"
             /\ requeued[m] > 0 => requeued'[m] > 0
    /\ q \in Called \/ q \in Called' =>
          pc'[q] = pc[q] /\ Current(q)' = Current(q)

\* The steps of the broker and the manager, and those of a goroutine that has
\* nothing in its hands, are quiet, and keep the mirror.
LEMMA QuietStep ==
    ASSUME DeliveryInv, NEW q \in Queues, MirrorInv(q), HandInv(q),
           \/ Check(q) \/ Consume(q) \/ ConsumeFailed(q) \/ Resubscribe(q)
           \/ Receive(q) \/ CancelConsumer(q) \/ Deliver(q)
           \/ (\E m \in Msgs : Expire(m)) \/ ChannelsFail \/ ManagerReopens
           \/ Signal \/ UNCHANGED vars
    PROVE  MirrorInv(q)' /\ HandInv(q)' /\ Quiet(q)
<1> USE DEF DeliveryInv
<1>0. /\ inbox[q] # <<>> => Current(q) \in Msgs
      /\ q \in Busy => inbox[q] # <<>>
  BY CurrentType DEF LoopInv, Busy
<1>1. CASE Check(q)
  <2>1. MirrorInv(q)' /\ HandInv(q)'
    BY <1>1, HoldCheck
  <2>2. /\ UNCHANGED <<kind, conf, last, dlq, unpublished, at, requeued>>
        /\ unknownTag' = unknownTag
        /\ pc[q] = "check" /\ pc'[q] \in {"stopped", "consume"}
    BY <1>1 DEF Check, Goto, TypeOK, fixed, stored, history
  <2> QED BY <2>1, <2>2 DEF Quiet, Called
<1>2. CASE Consume(q) \/ Resubscribe(q) \/ CancelConsumer(q)
  <2>1. /\ UNCHANGED <<kind, conf, last, dlq, unpublished, at, requeued,
                       unacked, open, inbox, chan>>
        /\ unknownTag' = unknownTag
    BY <1>2 DEF Consume, Resubscribe, CancelConsumer, fixed, stored, channels,
       history
  <2>2. \/ pc' = pc
        \/ pc[q] \notin {"handle", "publish", "ackAgain"} /\ pc'[q] = "check"
        \/ /\ pc[q] \notin {"handle", "publish", "ackAgain"}
           /\ pc'[q] = "receive" /\ inbox[q] = <<>>
    BY <1>2 DEF Consume, Resubscribe, CancelConsumer, Goto, TypeOK, LoopInv
  <2>3. MirrorInv(q)' /\ HandInv(q)'
    BY <1>0, <2>1, <2>2, HoldQuiet
  <2> QED BY <2>1, <2>2, <2>3 DEF Quiet, Called, Current
<1>3. ASSUME NEW K \in SUBSET open, CloseChannels(K),
             inbox' = LostInbox(K, Busy),
             UNCHANGED <<kind, conf, chan, last, unpublished>>,
             unknownTag' = unknownTag,
             \/ pc' = pc
             \/ pc[q] = "consume" /\ pc'[q] = "check"
      PROVE  MirrorInv(q)' /\ HandInv(q)' /\ Quiet(q)
  <2>1. /\ MirrorInv(q)' /\ HandInv(q)'
        /\ q \in Busy => q \in Busy' /\ Current(q)' = Current(q)
    BY <1>3, OneLost
  <2>2. /\ dlq' = dlq
        /\ \A m \in Msgs :
               \/ at'[m] = at[m] /\ requeued'[m] = requeued[m]
               \/ /\ at[m] # "gone" /\ at'[m] # "gone"
                  /\ requeued[m] > 0 => requeued'[m] > 0
    BY <1>3, OneClose
  <2> QED BY <1>3, <2>1, <2>2 DEF Quiet, Called, Busy
<1>4. CASE ConsumeFailed(q)
  <2>1. /\ UNCHANGED <<kind, conf, chan, last, unpublished>>
        /\ unknownTag' = unknownTag
        /\ pc[q] = "consume" /\ pc'[q] = "check"
    BY <1>4 DEF ConsumeFailed, Goto, TypeOK, fixed
  <2>2. CASE UNCHANGED <<channels, stored, subscribed, inbox, requeued, faults>>
    <3>1. UNCHANGED <<unacked, open, at, dlq, inbox, requeued>>
      BY <2>2 DEF channels, stored
    <3>2. MirrorInv(q)' /\ HandInv(q)'
      BY <1>0, <2>1, <3>1, HoldQuiet
    <3> QED BY <2>1, <3>1, <3>2 DEF Quiet, Called
  <2>3. CASE /\ chan[q] \in open /\ CloseChannels({chan[q]})
             /\ inbox' = LostInbox({chan[q]}, Busy)
    BY <1>3, <2>1, <2>3
  <2> QED BY <1>4, <2>2, <2>3 DEF ConsumeFailed
<1>5. CASE Deliver(q)
  <2>1. MirrorInv(q)' /\ HandInv(q)'
    BY <1>5, HoldDeliver
  <2>2. PICK d \in Msgs :
         /\ at[d] = "ready" /\ at' = [at EXCEPT ![d] = "unacked"]
         /\ inbox' = [inbox EXCEPT ![q] = Append(@,
                      [msg |-> d, count |-> deaths[d], live |-> TRUE])]
    BY <1>5 DEF Deliver
  <2>3. /\ UNCHANGED <<kind, conf, last, dlq, unpublished, requeued, pc>>
        /\ unknownTag' = unknownTag
    BY <1>5 DEF Deliver, fixed, history
  <2>4. q \in Busy => Current(q)' = Current(q)
    <3> DEFINE e == [msg |-> d, count |-> deaths[d], live |-> TRUE]
    <3>1. /\ inbox[q] \in Seq(Delivery) /\ e \in Delivery
          /\ inbox'[q] = Append(inbox[q], e)
      BY <2>2 DEF TypeOK, Delivery
    <3> HIDE DEF e
    <3>2. inbox[q] # <<>> => Head(Append(inbox[q], e)) = Head(inbox[q])
      BY <3>1
    <3> QED BY <1>0, <2>3, <3>1, <3>2 DEF Current
  <2>5. \A m \in Msgs : \/ at'[m] = at[m]
                        \/ at[m] # "gone" /\ at'[m] # "gone"
    BY <2>2 DEF TypeOK
  <2> QED BY <2>1, <2>3, <2>4, <2>5 DEF Quiet, Called, Busy
<1>6. ASSUME NEW x \in Msgs, Expire(x)
      PROVE  MirrorInv(q)' /\ HandInv(q)' /\ Quiet(q)
  <2>1. /\ at[x] = "retry" /\ at' = [at EXCEPT ![x] = "ready"]
        /\ UNCHANGED <<kind, conf, last, dlq, unpublished, requeued, unacked,
                       open, inbox, chan, pc>>
        /\ unknownTag' = unknownTag
    BY <1>6 DEF Expire, fixed, channels, workers, history
  <2>2. \A m \in Msgs : \/ at'[m] = at[m]
                        \/ at[m] = "retry" /\ at'[m] = "ready"
    BY <2>1 DEF TypeOK
  <2>3. MirrorInv(q)' /\ HandInv(q)'
    BY <1>0, <2>1, <2>2, HoldQuiet
  <2> QED BY <2>1, <2>2, <2>3 DEF Quiet, Called, Current
<1>7. CASE ChannelsFail
  <2>1. PICK K \in {open} \cup {{k} : k \in open} :
           CloseChannels(K) /\ inbox' = LostInbox(K, Busy)
    BY <1>7 DEF ChannelsFail
  <2>2. /\ UNCHANGED <<kind, conf, chan, last, unpublished>> /\ pc' = pc
        /\ unknownTag' = unknownTag
    BY <1>7 DEF ChannelsFail, fixed
  <2> QED BY <1>3, <2>1, <2>2
<1>8. CASE ManagerReopens \/ Signal \/ UNCHANGED vars
  <2>1. /\ UNCHANGED <<kind, conf, last, dlq, unpublished, at, requeued,
                       unacked, inbox, chan, pc>>
        /\ unknownTag' = unknownTag
    BY <1>8 DEF ManagerReopens, Signal, vars, fixed, channels, stored,
       workers, history
  <2>2. chan[q] \in open' <=> chan[q] \in open
    BY <1>8 DEF ManagerReopens, Unused, Signal, vars, channels
  <2>3. MirrorInv(q)' /\ HandInv(q)'
    BY <1>0, <2>1, <2>2, HoldQuiet
  <2> QED BY <2>1, <2>3 DEF Quiet, Called, Current
<1>9. CASE Receive(q)
  <2>1. /\ UNCHANGED <<kind, conf, last, dlq, unpublished, at, requeued,
                       unacked, open, inbox, chan>>
        /\ unknownTag' = unknownTag
        /\ pc[q] = "receive" /\ inbox[q] # <<>> /\ pc'[q] = "process"
    BY <1>9 DEF Receive, Goto, TypeOK, fixed, stored, channels, history
  <2>2. Head(inbox[q]).live
    BY <2>1 DEF HandInv, Finished
  <2>3. MirrorInv(q)' /\ HandInv(q)'
    BY <1>0, <2>1, <2>2, HoldQuiet
  <2> QED BY <2>1, <2>3 DEF Quiet, Called
<1> HIDE DEF DeliveryInv
<1> QED BY <1>1, <1>2, <1>4, <1>5, <1>6, <1>7, <1>8, <1>9

\* Every step of a system with one consumer.
LEMMA OneStep ==
    ASSUME DeliveryInv, DeliveryInv', FreshInv, NEW q \in Queues, Queues = {q},
           OneInv(q), [Next]_vars
    PROVE  OneInv(q)'
<1> USE DEF DeliveryInv
<1>0. /\ MirrorInv(q) /\ HandInv(q) /\ CauseInv(q)
      /\ inbox[q] # <<>> => Current(q) \in Msgs
      /\ q \in Busy => inbox[q] # <<>>
      /\ pc[q] = "process" => inbox[q] # <<>> /\ Head(inbox[q]).live
  BY CurrentType DEF OneInv, LoopInv, Busy, HandInv
<1>1. CASE \/ Check(q) \/ Consume(q) \/ ConsumeFailed(q) \/ Resubscribe(q)
           \/ Receive(q) \/ CancelConsumer(q) \/ Deliver(q)
           \/ (\E m \in Msgs : Expire(m)) \/ ChannelsFail \/ ManagerReopens
           \/ Signal \/ UNCHANGED vars
  <2>1. MirrorInv(q)' /\ HandInv(q)' /\ Quiet(q)
    BY <1>0, <1>1, QuietStep
  <2>2. pc[q] = "publish" => pc'[q] = "publish"
    BY <2>1 DEF Quiet, Called
  <2>3. CauseInv(q)'
    BY <1>0, <2>1, <2>2, CauseQuiet DEF Quiet
  <2> QED BY <2>1, <2>3 DEF OneInv
<1>5. CASE DiscardUnknown(q) \/ RejectMalformed(q)
  <2>1. /\ pc[q] = "process" /\ inbox[q] # <<>> /\ kind[Current(q)] # "typed"
        /\ pc' = [pc EXCEPT ![q] = "receive"]
        /\ UNCHANGED <<kind, conf, chan, last, unpublished>>
    BY <1>0, <1>5 DEF DiscardUnknown, RejectMalformed, Received, Goto, fixed
  <2>2. PICK dead \in BOOLEAN : \E multiple \in BOOLEAN :
           Settle(q, multiple, dead, TRUE)
    BY <1>5 DEF DiscardUnknown, RejectMalformed
  <2>3. pc'[q] = "receive"
    BY <2>1 DEF TypeOK
  <2>4. MirrorInv(q)' /\ HandInv(q)' /\ Outcome(q, dead)
    BY <1>0, <2>1, <2>2, SettleOne
  <2>5. last' = [last EXCEPT ![Current(q)] = last[Current(q)]]
    BY <2>1 DEF TypeOK
  <2>6. ReasonInv(q)'
    BY <2>3 DEF ReasonInv, Called
  <2>7. CauseInv(q)'
    BY <1>0, <2>1, <2>4, <2>5, <2>6, CauseTaken
  <2> QED BY <2>4, <2>7 DEF OneInv
<1>6. CASE GiveUpRetrying(q)
  <2>1. /\ pc[q] = "process" /\ inbox[q] # <<>> /\ kind[Current(q)] = "typed"
        /\ Exhausted(q) /\ Settle(q, FALSE, FALSE, FALSE)
        /\ pc' = [pc EXCEPT ![q] = "publish"]
        /\ UNCHANGED <<kind, conf, chan, last, unpublished>>
    BY <1>0, <1>6 DEF GiveUpRetrying, Received, Goto, fixed
  <2>2. /\ MirrorInv(q)' /\ HandInv(q)' /\ Outcome(q, FALSE)
        /\ Current(q)' = Current(q)
    BY <1>0, <2>1, SettleOne
  <2>3. pc'[q] = "publish"
    BY <2>1 DEF TypeOK
  <2>4. last' = [last EXCEPT ![Current(q)] = last[Current(q)]]
    BY <2>1 DEF TypeOK
  <2>5. requeued[Current(q)] > 0 \/ last[Current(q)] # "ok"
    <3>1. Current(q) \in Msgs /\ requeued[Current(q)] \in Nat
      BY <1>0, <2>1 DEF TypeOK
    <3>2. at[Current(q)] = "unacked" \/ requeued[Current(q)] > 0
      BY <1>0, <2>1, <2>2 DEF Outcome, HandInv
    <3> QED BY <1>0, <3>1, <3>2 DEF CauseInv, FateInv
  <2>6. ~conf[q].dlq => NeverRuns(q)
    <3>1. ASSUME ~conf[q].dlq PROVE NeverRuns(q)
      <4>1. Head(inbox[q]) = inbox[q][1] /\ 1 \in DOMAIN inbox[q]
        BY <2>1, CurrentType
      <4>2. Head(inbox[q]).count = 0
        BY <3>1, <4>1 DEF FreshInv
      <4> QED BY <2>1, <4>2, LimitsAssumption DEF Exhausted, NeverRuns
    <3> QED BY <3>1
  <2>7. requeued' = requeued
    BY <1>0, <2>1, <2>2 DEF Outcome
  <2>8. ReasonInv(q)'
    BY <2>1, <2>2, <2>3, <2>5, <2>6, <2>7 DEF ReasonInv, NeverRuns
  <2>9. CauseInv(q)'
    BY <1>0, <2>1, <2>2, <2>3, <2>4, <2>8, CauseTaken
  <2> QED BY <2>2, <2>9 DEF OneInv
<1>7. CASE CallHandler(q)
  <2>1. /\ pc[q] = "process" /\ inbox[q] # <<>> /\ kind[Current(q)] = "typed"
        /\ pc'[q] = "handle"
        /\ UNCHANGED <<kind, conf, last, dlq, unpublished, at, requeued,
                       unacked, open, inbox, chan>>
        /\ unknownTag' = unknownTag
    BY <1>0, <1>7 DEF CallHandler, Received, Goto, TypeOK, fixed, channels, stored
  <2>2. Head(inbox[q]).live
    BY <1>0, <2>1
  <2>3. MirrorInv(q)' /\ HandInv(q)'
    BY <1>0, <2>1, <2>2, HoldQuiet
  <2>4. Current(q)' = Current(q)
    BY <2>1 DEF Current
  <2>5. ReasonInv(q)'
    BY <2>1, <2>4 DEF ReasonInv
  <2>6. FateInv' /\ OneFate' /\ (unknownTag' => ~conf'[q].dlq)
    BY <1>0, <2>1 DEF CauseInv, FateInv, OneFate
  <2>7. NoSilentLoss'
    <3>1. \A m \in Msgs : QueueOf[m] = q
      BY MessagesAssumption
    <3> QED BY <1>0, <2>1, <3>1 DEF CauseInv, NoSilentLoss, NeverRuns
  <2> QED BY <2>3, <2>5, <2>6, <2>7 DEF OneInv, CauseInv
<1>8. CASE HandlerReturns(q)
  <2>1. /\ pc[q] = "handle" /\ inbox[q] # <<>> /\ q \in Called
        /\ UNCHANGED <<kind, conf, chan, unpublished>>
    BY <1>0, <1>8 DEF HandlerReturns, fixed, Busy, Called
  <2>2. PICK c \in Msgs : c = Current(q)
    BY <1>0, <2>1
  <2>3. PICK result \in {"ok", "retryable", "error"} :
           /\ last' = [last EXCEPT ![Current(q)] = result]
           /\ \/ result = "ok"
                 /\ Settle(q, TRUE, FALSE, TRUE) /\ Goto(q, "receive")
              \/ result = "retryable" /\ conf[q].retry
                 /\ Settle(q, FALSE, TRUE, TRUE) /\ Goto(q, "receive")
              \/ result # "ok" /\ ~(result = "retryable" /\ conf[q].retry)
                 /\ Settle(q, FALSE, FALSE, FALSE)
                 /\ Goto(q, IF conf[q].dlq THEN "publish" ELSE "ackAgain")
    BY <1>8, Zenon DEF HandlerReturns
  <2>4. kind[c] = "typed" /\ last'[c] = result
        /\ \A m \in Msgs \ {c} : last'[m] = last[m]
    BY <1>0, <2>1, <2>2, <2>3 DEF CauseInv, ReasonInv, TypeOK
  <2>5. ASSUME NEW dead \in BOOLEAN, Outcome(q, dead),
               MirrorInv(q)', HandInv(q)',
               result = "ok" => ~dead,
               ReasonInv(q)',
               at'[c] = "gone" /\ ~Finished(q) =>
                   \/ result = "ok"
                   \/ pc'[q] = "publish" /\ Current(q)' = Current(q)
                   \/ ~conf[q].dlq /\ result \in {"error", "retryable"}
        PROVE  OneInv(q)'
    <3>1. CauseInv(q)'
      BY <1>0, <2>1, <2>2, <2>3, <2>5, CauseTaken
    <3> QED BY <2>5, <3>1 DEF OneInv
  <2>6. CASE /\ result = "ok" /\ Settle(q, TRUE, FALSE, TRUE)
             /\ pc' = [pc EXCEPT ![q] = "receive"]
    <3>1. MirrorInv(q)' /\ HandInv(q)' /\ Outcome(q, FALSE)
      BY <1>0, <2>1, <2>6, SettleOne
    <3>2. ReasonInv(q)'
      BY <2>6 DEF ReasonInv, Called, TypeOK
    <3> QED BY <2>5, <2>6, <3>1, <3>2
  <2>7. CASE /\ result = "retryable" /\ conf[q].retry
             /\ Settle(q, FALSE, TRUE, TRUE)
             /\ pc' = [pc EXCEPT ![q] = "receive"]
    <3>1. MirrorInv(q)' /\ HandInv(q)' /\ Outcome(q, TRUE)
      BY <1>0, <2>1, <2>7, SettleOne
    <3>2. ReasonInv(q)'
      BY <2>7 DEF ReasonInv, Called, TypeOK
    <3>3. at'[c] = "gone" /\ ~Finished(q) => ~conf[q].dlq
      BY <2>1, <2>2, <2>7, <3>1 DEF Outcome, DeadLetter, TypeOK
    <3> QED BY <2>5, <2>7, <3>1, <3>2, <3>3
  <2>8. CASE /\ result # "ok" /\ Settle(q, FALSE, FALSE, FALSE)
             /\ pc' = [pc EXCEPT ![q] =
                         IF conf[q].dlq THEN "publish" ELSE "ackAgain"]
    <3>1. /\ MirrorInv(q)' /\ HandInv(q)' /\ Outcome(q, FALSE)
          /\ Current(q)' = Current(q)
      BY <1>0, <2>1, <2>8, SettleOne
    <3>2. pc'[q] = IF conf[q].dlq THEN "publish" ELSE "ackAgain"
      BY <2>8 DEF TypeOK
    <3>3. ReasonInv(q)'
      BY <2>1, <2>2, <2>4, <2>8, <3>1, <3>2 DEF ReasonInv, Called
    <3> QED BY <2>5, <2>8, <3>1, <3>2, <3>3
  <2> QED BY <2>3, <2>6, <2>7, <2>8 DEF Goto
<1>9. CASE PublishToDlq(q)
  <2>1. /\ MirrorInv(q)' /\ HandInv(q)' /\ inbox[q] # <<>>
        /\ requeued[Current(q)] > 0 \/ at[Current(q)] = "gone"
    BY <1>0, <1>9, HoldPublish
  <2>2. PICK c \in Msgs : c = Current(q)
    BY <1>0, <2>1
  <2>3. /\ UNCHANGED <<kind, conf, last, at, requeued>>
        /\ unknownTag' = unknownTag /\ pc[q] = "publish" /\ pc'[q] = "receive"
        /\ \/ /\ dlq' = dlq \cup (IF conf[q].dlq THEN {c} ELSE {})
              /\ unpublished' = unpublished
           \/ unpublished' = unpublished \cup {c} /\ dlq' = dlq
    BY <1>9, <2>2 DEF PublishToDlq, Goto, TypeOK, fixed
  <2>4. /\ last[c] # "ok" \/ requeued[c] > 0
        /\ ~conf[q].dlq => NeverRuns(q)
    BY <1>0, <2>2, <2>3 DEF CauseInv, ReasonInv
  <2>5. ReasonInv(q)'
    BY <2>3 DEF ReasonInv, Called
  <2>6. FateInv' /\ OneFate' /\ (unknownTag' => ~conf'[q].dlq)
    <3>1. requeued[c] \in Nat
      BY DEF TypeOK
    <3>2. \A m \in Msgs \ {c} : m \in dlq' <=> m \in dlq
      BY <2>3
    <3>3. FateInv'
      BY <1>0, <2>1, <2>2, <2>3, <3>1, <3>2 DEF CauseInv, FateInv
    <3>4. OneFate'
      BY <1>0, <2>3, <2>4, <3>2 DEF CauseInv, OneFate
    <3> QED BY <1>0, <2>3, <3>3, <3>4 DEF CauseInv
  <2>7. NoSilentLoss'
    <3>1. \A m \in Msgs : QueueOf[m] = q
      BY MessagesAssumption
    <3>2. \A m \in Msgs : Holds(q, m) => m = c
      BY <2>2 DEF Holds
    <3>3. \/ c \in dlq' \/ c \in unpublished'
          \/ ~conf[q].dlq /\ NeverRuns(q)
      BY <2>3, <2>4
    <3>4. dlq \subseteq dlq' /\ unpublished \subseteq unpublished'
      BY <2>3
    <3> QED BY <1>0, <2>3, <3>1, <3>2, <3>3, <3>4
            DEF CauseInv, NoSilentLoss, NeverRuns
  <2> QED BY <2>1, <2>5, <2>6, <2>7 DEF OneInv, CauseInv
<1>10. CASE AckAgain(q)
  <2>1. /\ pc[q] = "ackAgain" /\ inbox[q] # <<>> /\ Settle(q, TRUE, FALSE, TRUE)
        /\ pc' = [pc EXCEPT ![q] = "receive"]
        /\ UNCHANGED <<kind, conf, chan, last, unpublished>>
    BY <1>0, <1>10 DEF AckAgain, Goto, fixed, Busy
  <2>2. MirrorInv(q)' /\ HandInv(q)' /\ Outcome(q, FALSE)
    BY <1>0, <2>1, SettleOne
  <2>3. Finished(q) /\ ~conf[q].dlq
    BY <1>0, <2>1 DEF HandInv, CauseInv, ReasonInv
  <2>4. /\ dlq' = dlq
        /\ \A m \in Msgs :
               \/ at'[m] = at[m] /\ requeued'[m] = requeued[m]
               \/ /\ at[m] # "gone" /\ at'[m] # "gone"
                  /\ requeued[m] > 0 => requeued'[m] > 0
    BY <2>2, <2>3 DEF Outcome
  <2>5. q \notin Called'
    BY <2>1 DEF Called, TypeOK
  <2>6. CauseInv(q)'
    BY <1>0, <2>1, <2>3, <2>4, <2>5, CauseQuiet
  <2> QED BY <2>2, <2>6 DEF OneInv
<1> HIDE DEF DeliveryInv
<1>11. ASSUME NEW r \in Queues, Consumer(r) \/ Deliver(r) \/ CancelConsumer(r)
      PROVE  OneInv(q)'
  <2>1. r = q
    OBVIOUS
  <2>2. Consumer(q) \/ Deliver(q) \/ CancelConsumer(q)
    BY <1>11, <2>1
  <2> QED BY <1>1, <1>5, <1>6, <1>7, <1>8, <1>9, <1>10, <2>2, Zenon
          DEF Consumer
<1> QED BY <1>1, <1>11, Zenon DEF Next

\* With one consumer on the channel OneInv holds in every reachable state.
LEMMA OneInvariant ==
    Spec => [](OneConsumer => \A q \in Queues : OneInv(q))
<1> DEFINE Inv == /\ DeliveryInv /\ FreshInv
                  /\ OneConsumer => \A q \in Queues : OneInv(q)
<1>1. Init => Inv
  <2>1. Init => FreshInv
    BY DEF Init, FreshInv, Fresh
  <2> QED BY <2>1, DeliveryInit, OneInit
<1>2. Inv /\ [Next]_vars => Inv'
  <2> SUFFICES ASSUME Inv, [Next]_vars PROVE Inv'
    OBVIOUS
  <2>1. DeliveryInv' /\ FreshInv'
    BY DeliveryStep, RunStep
  <2>2. ASSUME OneConsumer, NEW q \in Queues PROVE OneInv(q)'
    <3>1. Queues = {q}
      BY <2>2 DEF OneConsumer
    <3> QED BY <2>1, <2>2, <3>1, OneStep
  <2>3. OneConsumer' <=> OneConsumer
    BY DEF OneConsumer
  <2> QED BY <2>1, <2>2, <2>3
<1>3. Inv => (OneConsumer => \A q \in Queues : OneInv(q))
  OBVIOUS
<1> HIDE DEF Inv
<1> QED BY <1>1, <1>2, <1>3, PTL DEF Spec

\* A message a handler understands leaves the queues only handled, in the DLQ
\* or on its way there, with a publication that failed, or from a queue
\* without a DLQ: with one consumer on the channel, for any number of
\* messages, retries, channels and faults.
THEOREM NothingIsLost == Spec => [](OneConsumer => NoSilentLoss)
<1>1. (OneConsumer => \A q \in Queues : OneInv(q)) =>
          (OneConsumer => NoSilentLoss)
  BY DEF OneConsumer, OneInv, CauseInv
<1> QED BY <1>1, OneInvariant, PTL

\* No message is both taken by the handler and dead-lettered, unless a channel
\* closed before its settlement.
THEOREM OneFateOnly == Spec => [](OneConsumer => OneFate)
<1>1. (OneConsumer => \A q \in Queues : OneInv(q)) => (OneConsumer => OneFate)
  BY DEF OneConsumer, OneInv, CauseInv
<1> QED BY <1>1, OneInvariant, PTL

\* With a DLQ the dispatcher never settles a delivery twice.
THEOREM NoUnknownTags == Spec => [](OneConsumer => TagsKnown)
<1>1. (OneConsumer => \A q \in Queues : OneInv(q)) => (OneConsumer => TagsKnown)
  BY DEF OneConsumer, OneInv, CauseInv, TagsKnown
<1> QED BY <1>1, OneInvariant, PTL

-----------------------------------------------------------------------------
(***************************************************************************)
(* The dispatcher as the publishers of messages see it: MessageFate.       *)
(***************************************************************************)

\* A message that is still to be processed.
Waits(m) == at[m] # "gone" \/ InHand(m)

\* The abstract specification moves the messages that wait.
LEMMA FateView ==
    ASSUME NEW m \in Kept, Waits(m),
           Fate!Handle(m) \/ Fate!Fail(m) \/ Fate!Bury(m) \/ Fate!Lose(m)
    PROVE  Fate!Next
BY DEF Fate!Next, Waits

\* Nothing is processed at the start.
LEMMA FateInit == Init => Fate!Init
<1> SUFFICES ASSUME Init PROVE Fate!Init
  OBVIOUS
<1>1. /\ \A m \in Msgs : at[m] # "gone" /\ last[m] # "ok"
      /\ dlq = {} /\ unpublished = {}
  BY DEF Init
<1> QED BY <1>1 DEF Fate!Init, Kept

\* A step that moves no message of the abstract state is a stutter of it.
LEMMA FateStutters ==
    ASSUME UNCHANGED <<kind, conf>>,
           \A m \in Kept :
              /\ Waits(m)' <=> Waits(m)
              /\ last'[m] = "ok" <=> last[m] = "ok"
              /\ m \in dlq' <=> m \in dlq
              /\ m \in unpublished' <=> m \in unpublished
    PROVE  UNCHANGED Fate!vars
<1>1. Kept' = Kept
  BY DEF Kept
<1>2. {m \in Kept : Waits(m)}' = {m \in Kept : Waits(m)}
  BY <1>1
<1>3. {m \in Kept : last[m] = "ok"}' = {m \in Kept : last[m] = "ok"}
  BY <1>1
<1>4. (dlq \cap Kept)' = dlq \cap Kept
  BY <1>1
<1>5. (unpublished \cap Kept)' = unpublished \cap Kept
  BY <1>1
<1>6. {m \in Kept : at[m] # "gone" \/ InHand(m)}'
        = {m \in Kept : at[m] # "gone" \/ InHand(m)}
  BY <1>2 DEF Waits
<1> QED BY <1>1, <1>3, <1>4, <1>5, <1>6 DEF Fate!vars

\* A step that touches only one message that waits is a step of the abstract
\* specification, when it touches only one thing about it.
LEMMA FateMoves ==
    ASSUME UNCHANGED <<kind, conf>>, NEW c \in Kept, Waits(c),
           \A m \in Kept \ {c} :
              /\ Waits(m)' <=> Waits(m)
              /\ last'[m] = "ok" <=> last[m] = "ok"
              /\ m \in dlq' <=> m \in dlq
              /\ m \in unpublished' <=> m \in unpublished,
           \/ /\ last'[c] = "ok" /\ UNCHANGED <<dlq, unpublished>>
           \/ /\ last'[c] # "ok" /\ Waits(c)'
              /\ UNCHANGED <<dlq, unpublished>>
           \/ /\ c \in dlq' /\ UNCHANGED <<last, unpublished>>
           \/ /\ c \in unpublished' /\ UNCHANGED <<last, dlq>>
    PROVE  Fate!Next
<1> DEFINE W == {m \in Kept : Waits(m)}
           H == {m \in Kept : last[m] = "ok"}
<1>1. Kept' = Kept
  BY DEF Kept
<1>2. W' \in {W, W \ {c}} /\ (Waits(c)' => W' = W)
  BY <1>1
<1>3. last'[c] = "ok" => H' = H \cup {c}
  BY <1>1
<1>4. last'[c] # "ok" => H' = H \ {c}
  BY <1>1
<1>5. last' = last => H' = H
  BY <1>1
<1>6. /\ c \in dlq' => (dlq \cap Kept)' = (dlq \cap Kept) \cup {c}
      /\ dlq' = dlq => (dlq \cap Kept)' = dlq \cap Kept
  BY <1>1
<1>7. /\ c \in unpublished' =>
             (unpublished \cap Kept)' = (unpublished \cap Kept) \cup {c}
      /\ unpublished' = unpublished =>
             (unpublished \cap Kept)' = unpublished \cap Kept
  BY <1>1
<1>8. W = {m \in Kept : at[m] # "gone" \/ InHand(m)}
  BY DEF Waits
<1>9. W' = {m \in Kept : at[m] # "gone" \/ InHand(m)}'
  BY DEF Waits
<1>10. Fate!Leave(c)
  BY <1>2, <1>8, <1>9 DEF Fate!Leave
<1>11. CASE last'[c] = "ok" /\ UNCHANGED <<dlq, unpublished>>
  <2>1. Fate!Handle(c)
    BY <1>1, <1>3, <1>6, <1>7, <1>10, <1>11 DEF Fate!Handle
  <2> QED BY <2>1, FateView
<1>12. CASE last'[c] # "ok" /\ Waits(c)' /\ UNCHANGED <<dlq, unpublished>>
  <2>1. Fate!Fail(c)
    BY <1>1, <1>2, <1>4, <1>6, <1>7, <1>8, <1>9, <1>12 DEF Fate!Fail
  <2> QED BY <2>1, FateView
<1>13. CASE c \in dlq' /\ UNCHANGED <<last, unpublished>>
  <2>1. Fate!Bury(c)
    BY <1>1, <1>5, <1>6, <1>7, <1>10, <1>13 DEF Fate!Bury
  <2> QED BY <2>1, FateView
<1>14. CASE c \in unpublished' /\ UNCHANGED <<last, dlq>>
  <2>1. Fate!Lose(c)
    BY <1>1, <1>5, <1>6, <1>7, <1>10, <1>14 DEF Fate!Lose
  <2> QED BY <2>1, FateView
<1> QED BY <1>11, <1>12, <1>13, <1>14

\* Every step of a system with one consumer is a step of the abstract
\* specification, or a stutter of it.
LEMMA FateStep ==
    ASSUME DeliveryInv, NEW q \in Queues, Queues = {q}, OneInv(q), OneInv(q)',
           [Next]_vars
    PROVE  [Fate!Next]_Fate!vars
<1> USE DEF DeliveryInv
<1>0. /\ MirrorInv(q) /\ HandInv(q) /\ CauseInv(q)
      /\ inbox[q] # <<>> => Current(q) \in Msgs
      /\ q \in Busy => inbox[q] # <<>>
      /\ pc[q] = "process" => inbox[q] # <<>> /\ Head(inbox[q]).live
      /\ \A m \in Msgs : QueueOf[m] = q
  BY CurrentType, MessagesAssumption DEF OneInv, LoopInv, Busy, HandInv
<1>1. /\ Kept \subseteq Msgs
      /\ \A m \in Kept : kind[m] = "typed" /\ conf[q].dlq
  BY <1>0 DEF Kept
<1>2. \A m \in Msgs : InHand(m) <=> pc[q] = "publish" /\ Current(q) = m
  BY <1>0 DEF InHand, Holds, Busy
<1>3. \A m \in Msgs : InHand(m)' <=> pc'[q] = "publish" /\ Current(q)' = m
  BY <1>0 DEF InHand, Holds, Busy
<1>4. ASSUME Quiet(q) PROVE UNCHANGED Fate!vars
  <2>1. \A m \in Msgs : InHand(m)' <=> InHand(m)
    BY <1>2, <1>3, <1>4 DEF Quiet, Called
  <2>2. \A m \in Msgs : at'[m] = "gone" <=> at[m] = "gone"
    BY <1>4 DEF Quiet
  <2>3. UNCHANGED <<kind, conf, last, dlq, unpublished>>
    BY <1>4 DEF Quiet
  <2> QED BY <1>1, <2>1, <2>2, <2>3, FateStutters DEF Waits
<1>5. CASE DiscardUnknown(q) \/ RejectMalformed(q)
  <2>1. /\ pc[q] = "process" /\ inbox[q] # <<>> /\ kind[Current(q)] # "typed"
        /\ pc' = [pc EXCEPT ![q] = "receive"]
        /\ UNCHANGED <<kind, conf, chan, last, unpublished>>
    BY <1>0, <1>5 DEF DiscardUnknown, RejectMalformed, Received, Goto, fixed
  <2>2. PICK dead \in BOOLEAN : \E multiple \in BOOLEAN :
           Settle(q, multiple, dead, TRUE)
    BY <1>5 DEF DiscardUnknown, RejectMalformed
  <2>3. pc'[q] = "receive"
    BY <2>1 DEF TypeOK
  <2>4. Outcome(q, dead)
    BY <1>0, <2>1, <2>2, SettleOne
  <2>5. \A m \in Kept : /\ at'[m] = at[m] /\ m # Current(q)
                        /\ m \in dlq' <=> m \in dlq
    BY <1>0, <1>1, <2>1, <2>4 DEF Outcome, TypeOK
  <2>6. \A m \in Kept : Waits(m)' <=> Waits(m)
    BY <1>1, <1>2, <1>3, <2>1, <2>3, <2>5 DEF Waits
  <2> QED BY <2>1, <2>5, <2>6, FateStutters
<1>6. CASE GiveUpRetrying(q)
  <2>1. /\ pc[q] = "process" /\ inbox[q] # <<>>
        /\ Settle(q, FALSE, FALSE, FALSE)
        /\ pc' = [pc EXCEPT ![q] = "publish"]
        /\ UNCHANGED <<kind, conf, chan, last, unpublished>>
    BY <1>0, <1>6 DEF GiveUpRetrying, Received, Goto, fixed
  <2>2. Outcome(q, FALSE) /\ Current(q)' = Current(q)
    BY <1>0, <2>1, SettleOne
  <2>3. PICK c \in Msgs : c = Current(q)
    BY <1>0, <2>1
  <2>4. /\ at[c] # "gone" /\ Waits(c)' /\ dlq' = dlq
        /\ \A m \in Msgs \ {c} : at'[m] = at[m]
    <3>1. pc'[q] = "publish"
      BY <2>1 DEF TypeOK
    <3> QED BY <1>0, <1>3, <2>1, <2>2, <2>3, <3>1
            DEF Outcome, HandInv, Waits, TypeOK
  <2>5. \A m \in Msgs : Waits(m)' <=> Waits(m)
    BY <1>2, <1>3, <2>1, <2>2, <2>3, <2>4 DEF Waits
  <2> QED BY <1>1, <2>1, <2>4, <2>5, FateStutters
<1>7. CASE CallHandler(q)
  <2>1. /\ pc[q] = "process" /\ pc'[q] = "handle"
        /\ UNCHANGED <<kind, conf, last, dlq, unpublished, at>>
    BY <1>7 DEF CallHandler, Received, Goto, TypeOK, fixed, stored
  <2>2. \A m \in Msgs : Waits(m)' <=> Waits(m)
    BY <1>2, <1>3, <2>1 DEF Waits
  <2> QED BY <1>1, <2>1, <2>2, FateStutters
<1>8. CASE HandlerReturns(q) /\ conf[q].dlq
  <2>1. /\ pc[q] = "handle" /\ inbox[q] # <<>> /\ q \in Called
        /\ UNCHANGED <<kind, conf, chan, unpublished>>
    BY <1>0, <1>8 DEF HandlerReturns, fixed, Busy, Called
  <2>2. PICK c \in Msgs : c = Current(q)
    BY <1>0, <2>1
  <2>3. PICK result \in {"ok", "retryable", "error"} :
           /\ last' = [last EXCEPT ![c] = result]
           /\ \/ result = "ok"
                 /\ Settle(q, TRUE, FALSE, TRUE) /\ Goto(q, "receive")
              \/ result = "retryable" /\ conf[q].retry
                 /\ Settle(q, FALSE, TRUE, TRUE) /\ Goto(q, "receive")
              \/ result # "ok" /\ ~(result = "retryable" /\ conf[q].retry)
                 /\ Settle(q, FALSE, FALSE, FALSE) /\ Goto(q, "publish")
    BY <1>8, <2>2, Zenon DEF HandlerReturns
  <2>4. c \in Kept
    BY <1>0, <1>8, <2>1, <2>2 DEF Kept, CauseInv, ReasonInv
  <2>5. last'[c] = result /\ \A m \in Msgs \ {c} : last'[m] = last[m]
    BY <2>3 DEF TypeOK
  <2>6. ASSUME NEW dead \in BOOLEAN, Outcome(q, dead), NEW l,
               pc' = [pc EXCEPT ![q] = l],
               \/ result = "ok" /\ ~dead /\ l = "receive"
               \/ result # "ok" /\ dead /\ conf[q].retry /\ l = "receive"
               \/ /\ result # "ok" /\ ~dead /\ l = "publish"
                  /\ Current(q)' = c
        PROVE  Fate!Next
    <3>1. pc'[q] = l
      BY <2>6 DEF TypeOK
    <3>2. /\ at[c] # "gone" /\ dlq' = dlq
          /\ \A m \in Msgs \ {c} : at'[m] = at[m]
          /\ dead /\ conf[q].retry => at'[c] # "gone"
      <4>1. CASE Finished(q)
        BY <1>0, <2>1, <2>2, <2>6, <4>1 DEF Outcome, HandInv
      <4>2. CASE ~Finished(q)
        BY <1>8, <2>1, <2>2, <2>6, <4>2 DEF Outcome, DeadLetter, TypeOK
      <4> QED BY <4>1, <4>2
    <3>3. /\ Waits(c)
          /\ \A m \in Msgs \ {c} : Waits(m)' <=> Waits(m)
      BY <1>2, <1>3, <2>1, <2>6, <3>1, <3>2 DEF Waits
    <3>4. result # "ok" => Waits(c)'
      BY <1>3, <2>6, <3>1, <3>2 DEF Waits
    <3> QED BY <1>1, <2>1, <2>4, <2>5, <3>2, <3>3, <3>4, FateMoves
  <2>7. CASE /\ result = "ok" /\ Settle(q, TRUE, FALSE, TRUE)
             /\ pc' = [pc EXCEPT ![q] = "receive"]
    <3>1. Outcome(q, FALSE)
      BY <1>0, <2>1, <2>7, SettleOne
    <3> QED BY <2>6, <2>7, <3>1
  <2>8. CASE /\ result = "retryable" /\ conf[q].retry
             /\ Settle(q, FALSE, TRUE, TRUE)
             /\ pc' = [pc EXCEPT ![q] = "receive"]
    <3>1. Outcome(q, TRUE)
      BY <1>0, <2>1, <2>8, SettleOne
    <3> QED BY <2>6, <2>8, <3>1
  <2>9. CASE /\ result # "ok" /\ Settle(q, FALSE, FALSE, FALSE)
             /\ pc' = [pc EXCEPT ![q] = "publish"]
    <3>1. Outcome(q, FALSE) /\ Current(q)' = Current(q)
      BY <1>0, <2>1, <2>9, SettleOne
    <3> QED BY <2>2, <2>6, <2>9, <3>1
  <2> QED BY <2>3, <2>7, <2>8, <2>9 DEF Goto
<1>9. CASE PublishToDlq(q) /\ conf[q].dlq
  <2>1. inbox[q] # <<>> /\ q \in Called
    BY <1>0, <1>9 DEF PublishToDlq, Busy, Called
  <2>2. PICK c \in Msgs : c = Current(q)
    BY <1>0, <2>1
  <2>3. /\ UNCHANGED <<kind, conf, last, at>>
        /\ pc[q] = "publish" /\ pc'[q] = "receive"
        /\ \/ dlq' = dlq \cup {c} /\ unpublished' = unpublished
           \/ unpublished' = unpublished \cup {c} /\ dlq' = dlq
    BY <1>9, <2>2 DEF PublishToDlq, Goto, TypeOK, fixed
  <2>4. c \in Kept
    BY <1>0, <1>9, <2>1, <2>2 DEF Kept, CauseInv, ReasonInv
  <2>5. Waits(c) /\ \A m \in Msgs \ {c} : Waits(m)' <=> Waits(m)
    BY <1>2, <1>3, <2>2, <2>3 DEF Waits
  <2> QED BY <1>1, <2>3, <2>4, <2>5, FateMoves
<1>10. CASE ~conf[q].dlq /\ UNCHANGED <<kind, conf>>
  <2>1. Kept = {}
    BY <1>0, <1>10 DEF Kept
  <2> QED BY <1>10, <2>1, FateStutters
<1>11. ASSUME AckAgain(q) PROVE ~conf[q].dlq /\ UNCHANGED <<kind, conf>>
  BY <1>0, <1>11 DEF AckAgain, fixed, CauseInv, ReasonInv
<1>12. ASSUME HandlerReturns(q) \/ PublishToDlq(q) PROVE UNCHANGED <<kind, conf>>
  BY <1>12 DEF HandlerReturns, PublishToDlq, fixed
<1>13. CASE \/ Check(q) \/ Consume(q) \/ ConsumeFailed(q) \/ Resubscribe(q)
            \/ Receive(q) \/ CancelConsumer(q) \/ Deliver(q)
            \/ (\E m \in Msgs : Expire(m)) \/ ChannelsFail \/ ManagerReopens
            \/ Signal \/ UNCHANGED vars
  <2>1. Quiet(q)
    BY <1>0, <1>13, QuietStep
  <2> QED BY <1>4, <2>1
<1> HIDE DEF DeliveryInv
<1>14. ASSUME NEW r \in Queues, Consumer(r) \/ Deliver(r) \/ CancelConsumer(r)
       PROVE  [Fate!Next]_Fate!vars
  <2>1. r = q
    OBVIOUS
  <2>2. Consumer(q) \/ Deliver(q) \/ CancelConsumer(q)
    BY <1>14, <2>1
  <2> QED BY <1>5, <1>6, <1>7, <1>8, <1>9, <1>10, <1>11, <1>12, <1>13, <2>2,
             Zenon DEF Consumer
<1> QED BY <1>13, <1>14, Zenon DEF Next

\* With one consumer on the channel, the dispatcher keeps the promise of
\* MessageFate: a message of a queue with a DLQ that its handler understands
\* waits until the handler took it, it was published to the DLQ or that
\* publication failed, and never comes back afterwards.
THEOREM MessagesAreKept == Spec => (OneConsumer => KeepsMessages)
<1> DEFINE Inv == /\ DeliveryInv /\ FreshInv
                  /\ OneConsumer => \A q \in Queues : OneInv(q)
           Step == OneConsumer => [Fate!Next]_Fate!vars
<1>1. Spec => []Inv
  BY DeliveryInvariant, RunInvariant, OneInvariant, PTL
<1>2. Inv /\ Inv' /\ [Next]_vars => Step
  <2> SUFFICES ASSUME Inv, Inv', [Next]_vars, OneConsumer
               PROVE  [Fate!Next]_Fate!vars
    OBVIOUS
  <2>1. PICK q \in Queues : Queues = {q}
    BY DEF OneConsumer
  <2>2. OneInv(q) /\ OneInv(q)'
    BY DEF OneConsumer
  <2> QED BY <2>1, <2>2, FateStep
<1>3. OneConsumer /\ [Next]_vars => OneConsumer'
  BY DEF OneConsumer
<1> HIDE DEF Inv
<1> QED BY <1>1, <1>2, <1>3, FateInit, PTL DEF Spec, KeepsMessages, Fate!Spec

=============================================================================
