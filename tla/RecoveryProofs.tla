--------------------------- MODULE RecoveryProofs ---------------------------
(* Theorems about Recovery, for every value of its constants: any number   *)
(* of queues with any definitions, of failures and of channels.            *)
EXTENDS Recovery, SequenceLemmas

\* The messages that fail in q have somewhere to go, among the queues of the
\* living connection and among those that a dead one still owns.
TargetInv ==
    /\ \A q \in Queues :
          /\ def[q].dlq
          /\ {<<"queue", q>>, <<"dlq", q>>} \cap (exists \ held) # {}
          => FailTarget(q) \in exists \ held
    /\ \A q \in Queues :
          def[q].dlq /\ {<<"queue", q>>, <<"dlq", q>>} \cap held # {}
          => FailTarget(q) \in held
    /\ \A e \in held : e[1] \in {"retry", "dlq"} => e \in exists

\* The monitor watches an open connection, or declares over an open channel.
Serving ==
    \/ mon = "watch" /\ up
    \/ mon = "declare" /\ ch # NoChan

\* What is declared over the living connection is there, and its exclusive
\* queues are not owned by a dead one. A queue is declared before its
\* bindings.
DoneInv ==
    /\ mon # "declare" => todo = {}
    /\ Serving =>
         /\ Lasting \ todo \subseteq exists
         /\ (Exclusive \ todo) \cap held = {}
         /\ \A q \in Queues : <<"queue", q>> \in todo => <<"binding", q>> \in todo

RecoveryInv == TypeOK /\ TargetInv /\ DoneInv

\* Which of the names of entities are alike.
LEMMA Tuples ==
    /\ \A x, y, q, r : <<x, q>> = <<y, r>> <=> x = y /\ q = r
    /\ \A x, q : <<x, q>>[1] = x /\ <<x, q>>[2] = q
OBVIOUS

\* The entities that belong to a connection.
LEMMA ExclusiveFacts ==
    /\ \A e \in Exclusive : \E q \in Queues :
          e \in Family(q) /\ e[2] = q /\ def[q].exclusive
    /\ \A q \in Queues : \A e \in Family(q) :
          /\ e[2] = q /\ e[1] \in {"retry", "dlq", "queue"} /\ e = <<e[1], q>>
          /\ e \in Exclusive <=> def[q].exclusive
<1>1. \A q \in Queues : \A e \in Family(q) :
          e[2] = q /\ e[1] \in {"retry", "dlq", "queue"} /\ e = <<e[1], q>>
  BY DEF Family
<1>2. \A e : e \in Exclusive <=>
          \E q \in Queues : e \in Family(q) /\ def[e[2]].exclusive
  BY DEF Exclusive
<1> HIDE DEF Exclusive
<1>3. \A q \in Queues : \A e \in Family(q) :
          e \in Exclusive <=> def[q].exclusive
  BY <1>1, <1>2
<1> QED BY <1>1, <1>2, <1>3

\* The entities of a topology.
LEMMA EntityFacts ==
    /\ \A q \in Queues : /\ Family(q) \subseteq Entities
                         /\ <<"binding", q>> \in Entities
                         /\ <<"queue", q>> \in Family(q)
                         /\ def[q].dlq => /\ FailTarget(q) \in Family(q)
                                          /\ <<"dlq", q>> \in Family(q)
    /\ Exclusive \subseteq Entities
<1>1. \A q \in Queues : Family(q) \subseteq Entities /\ <<"binding", q>> \in Entities
  BY DEF Entities
<1>2. \A q \in Queues : /\ <<"queue", q>> \in Family(q)
                        /\ def[q].dlq => /\ FailTarget(q) \in Family(q)
                                         /\ <<"dlq", q>> \in Family(q)
  BY DEF Family, FailTarget
<1>3. Exclusive \subseteq Entities
  BY DEF Exclusive, Entities
<1> QED BY <1>1, <1>2, <1>3

\* What goes with the queues of a set.
LEMMA GoneFacts ==
    ASSUME NEW E, NEW e
    PROVE  e \in Gone(E) <=>
             \/ e \in E
             \/ \E q \in Queues : <<"queue", q>> \in E /\ e = <<"binding", q>>
BY DEF Gone

\* What an auto-delete queue is.
LEMMA UnusedFacts ==
    ASSUME NEW Q, NEW e \in Unused(Q)
    PROVE  /\ e[1] = "queue"
           /\ \E q \in Q : e = <<"queue", q>> /\ def[q].delete
<1>1. \E q \in Q : e = <<"queue", q>> /\ def[q].delete
  BY DEF Unused
<1> QED BY <1>1

\* The targets of failed messages are never queues that consumers read, and
\* they last.
LEMMA TargetFacts ==
    ASSUME NEW q \in Queues
    PROVE  /\ FailTarget(q)[1] \in {"retry", "dlq"}
           /\ FailTarget(q) = <<FailTarget(q)[1], q>>
BY DEF FailTarget

\* What is not a queue or a binding lasts.
LEMMA LastingFacts ==
    ASSUME NEW e \in Entities
    PROVE  e \in Lasting <=>
              \A q \in Queues : Volatile(q) =>
                  e # <<"queue", q>> /\ e # <<"binding", q>>
<1> DEFINE V == {<<"queue", q>> : q \in {p \in Queues : Volatile(p)}}
<1>1. \A q : <<"queue", q>> \in V <=> q \in Queues /\ Volatile(q)
  BY Tuples
<1>2. e \in V <=> \E q \in Queues : Volatile(q) /\ e = <<"queue", q>>
  OBVIOUS
<1>3. e \in Lasting <=> e \notin Gone(V)
  BY DEF Lasting
<1> HIDE DEF V
<1> QED BY <1>1, <1>2, <1>3, GoneFacts

\* There is always a channel that nobody holds.
LEMMA FreshChanExists ==
    ASSUME TypeOK
    PROVE  /\ FreshChan \in Chans /\ FreshChan # ch
           /\ \A q \in Queues : chan[q] # FreshChan
<1> DEFINE T == {chan[q] : q \in Queues}
           U == T \cup {ch}
<1>1. chan \in Surjection(Queues, T)
  BY DEF TypeOK, Surjection
<1>2. IsFiniteSet(T) /\ Cardinality(T) <= Cardinality(Queues)
  BY <1>1, ChansAssumption, FS_Surjection
<1>3. /\ Cardinality(T) \in Nat /\ Cardinality(Queues) \in Nat
      /\ Cardinality(Chans) \in Nat
  BY <1>2, ChansAssumption, FS_CardinalityType
<1> HIDE DEF T
<1>4. IsFiniteSet(U) /\ Cardinality(U) <= Cardinality(T) + 1
  <2>1. /\ IsFiniteSet(U)
        /\ \/ ch \in T /\ Cardinality(U) = Cardinality(T)
           \/ ch \notin T /\ Cardinality(U) = Cardinality(T) + 1
    BY <1>2, FS_AddElement
  <2> QED BY <1>3, <2>1
<1>5. Cardinality(U) \in Nat
  BY <1>4, FS_CardinalityType
<1>6. ~ (Chans \subseteq U)
  <2>1. ASSUME Chans \subseteq U PROVE Cardinality(Chans) <= Cardinality(U)
    <3> HIDE DEF U
    <3> QED BY <1>4, <2>1, FS_Subset
  <2> QED BY <1>2, <1>3, <1>4, <1>5, <2>1, ChansAssumption
<1>7. \E k \in Chans : k # ch /\ \A q \in Queues : chan[q] # k
  BY <1>6 DEF T
<1> QED BY <1>7 DEF FreshChan

\* Everything is declared at the start.
LEMMA RecoveryInit == Init => RecoveryInv
<1> SUFFICES ASSUME Init PROVE RecoveryInv
  OBVIOUS
<1>1. ch \in Chans
  <2>1. Cardinality(Queues) \in Nat /\ Cardinality({}) = 0
    BY ChansAssumption, FS_CardinalityType, FS_EmptySet
  <2>2. Chans # {}
    BY <2>1, ChansAssumption
  <2> QED BY <2>2 DEF Init
<1>2. TypeOK
  <2>1. up \in BOOLEAN /\ closed \in BOOLEAN /\ cancel \in BOOLEAN
    BY Zenon DEF Init
  <2>3. faults \in 0..MaxFaults
    BY FaultsAssumption DEF Init
  <2>2. /\ chan \in [Queues -> Chans \cup {NoChan}]
        /\ pc \in [Queues -> {"check", "consume", "receive"}]
    BY DEF Init
  <2> QED BY <1>1, <2>1, <2>2, <2>3 DEF Init, TypeOK
<1>3. TargetInv
  BY EntityFacts DEF Init, TargetInv
<1>4. DoneInv
  BY DEF Init, DoneInv, Serving, Lasting
<1> QED BY <1>2, <1>3, <1>4 DEF RecoveryInv

\* The definitions never change.
LEMMA SameDefinitions ==
    ASSUME def' = def
    PROVE  /\ Exclusive' = Exclusive /\ Entities' = Entities
           /\ \A q : Family(q)' = Family(q) /\ FailTarget(q)' = FailTarget(q)
           /\ deleted' = deleted => Lasting' = Lasting
BY DEF Exclusive, Entities, Family, FailTarget, Lasting, Volatile

\* The queues of a definition are exclusive and durable together.
LEMMA OneFamily ==
    ASSUME NEW q \in Queues, def[q].dlq, NEW e,
           e \in {<<"queue", q>>, <<"dlq", q>>, FailTarget(q)}
    PROVE  /\ e \in Exclusive <=> def[q].exclusive
           /\ Durable(e) = def[q].durable
           /\ \A p : e # <<"binding", p>> /\ e # <<"consumer", p>>
<1>1. e \in Family(q)
  BY EntityFacts
<1>2. e[2] = q /\ e[1] \in {"retry", "dlq", "queue"} /\ e = <<e[1], q>>
  BY <1>1, ExclusiveFacts
<1>3. Durable(e) = def[q].durable
  BY <1>2 DEF Durable
<1> QED BY <1>1, <1>2, <1>3, ExclusiveFacts

\* The steps that neither declare nor remove anything.
LEMMA TargetsUntouched ==
    ASSUME TargetInv, def' = def, exists' = exists, held' = held
    PROVE  TargetInv'
BY SameDefinitions DEF TargetInv

\* When only queues that consumers read vanish, with their bindings, failed
\* messages keep the place they go to.
LEMMA TargetsOutlive ==
    ASSUME TargetInv, def' = def, NEW E, NEW H,
           \A e \in E : e[1] = "queue", \A e \in H : e[1] = "consumer",
           exists' = exists \ Gone(E), held' = held \ H
    PROVE  TargetInv'
<1>1. ASSUME NEW e, e[1] \in {"retry", "dlq"}
      PROVE  e \notin Gone(E) /\ e \notin H
  <2>1. e \notin E /\ e \notin H
    BY <1>1
  <2>2. \A q : e # <<"binding", q>>
    BY <1>1
  <2> QED BY <2>1, <2>2, GoneFacts
<1>2. \A q \in Queues :
          /\ FailTarget(q)[1] \in {"retry", "dlq"}
          /\ FailTarget(q)' = FailTarget(q)
  BY TargetFacts, SameDefinitions
<1>3. \A q : <<"queue", q>> \notin H /\ <<"dlq", q>> \notin H
  OBVIOUS
<1> HIDE DEF Gone
<1> QED BY <1>1, <1>2, <1>3 DEF TargetInv

\* A channel that is closed takes no target with it.
LEMMA ChannelTargets ==
    ASSUME TargetInv, def' = def, NEW k, CloseChannel(k)
    PROVE  TargetInv'
<1> PICK E, H : E = Unused({q \in Subscribed : chan[q] = k}) /\ H = {}
  OBVIOUS
<1>1. \A e \in E : e[1] = "queue"
  BY UnusedFacts
<1>2. exists' = exists \ Gone(E) /\ held' = held \ H
  BY DEF CloseChannel
<1>3. \A e \in H : e[1] = "consumer"
  OBVIOUS
<1> QED BY <1>1, <1>2, <1>3, TargetsOutlive

\* A lost connection takes the queues of a definition together.
LEMMA ConnectionTargets ==
    ASSUME TypeOK, TargetInv, def' = def, NEW late \in BOOLEAN,
           CloseConnection(late)
    PROVE  TargetInv'
<1>t. \A e \in held : \/ e \in Exclusive
                      \/ \E q \in Queues : e = <<"consumer", q>>
  BY DEF TypeOK
<1>1. CASE late
  <2> DEFINE C == {<<"consumer", q>> : q \in Subscribed}
  <2>1. exists' = exists /\ held' = held \cup (Exclusive \cap exists) \cup C
    BY <1>1 DEF CloseConnection
  <2>2. \A e \in C : \E p : e = <<"consumer", p>>
    OBVIOUS
  <2> HIDE DEF C
  <2>3. ASSUME NEW q \in Queues, def[q].dlq,
               {<<"queue", q>>, <<"dlq", q>>} \cap (exists' \ held') # {}
        PROVE  FailTarget(q) \in exists' \ held'
    <3>1. PICK e \in {<<"queue", q>>, <<"dlq", q>>} : e \in exists' \ held'
      BY <2>3
    <3>2. e \in exists \ held /\ e \notin Exclusive
      BY <3>1, <2>1
    <3>3. FailTarget(q) \in exists \ held /\ FailTarget(q) \notin Exclusive
      BY <3>1, <3>2, <2>3, OneFamily DEF TargetInv
    <3> QED BY <3>3, <2>1, <2>2, <2>3, OneFamily
  <2>4. ASSUME NEW q \in Queues, def[q].dlq,
               {<<"queue", q>>, <<"dlq", q>>} \cap held' # {}
        PROVE  FailTarget(q) \in held'
    <3>1. PICK e \in {<<"queue", q>>, <<"dlq", q>>} : e \in held'
      BY <2>4
    <3>2. e \notin C
      BY <3>1, <2>2, <2>4, OneFamily
    <3>3. CASE e \in held
      BY <3>3, <3>1, <2>1, <2>4 DEF TargetInv
    <3>4. CASE e \notin held /\ e \in Exclusive \cap exists
      <4>1. FailTarget(q) \in exists
        BY <3>4, <3>1, <2>4 DEF TargetInv
      <4>2. FailTarget(q) \in Exclusive
        BY <3>4, <3>1, <2>4, OneFamily
      <4> QED BY <4>1, <4>2, <2>1
    <3> QED BY <3>1, <3>2, <3>3, <3>4, <2>1
  <2>5. \A e \in held' : e[1] \in {"retry", "dlq"} => e \in exists'
    <3>1. \A e \in C : e[1] \notin {"retry", "dlq"}
      BY <2>2
    <3> QED BY <3>1, <2>1 DEF TargetInv
  <2> QED BY <2>3, <2>4, <2>5, SameDefinitions DEF TargetInv
<1>2. CASE ~late
  <2> PICK U, E : U = Unused(Subscribed) /\ E = U \cup (Exclusive \ held)
    OBVIOUS
  <2>1. exists' = exists \ Gone(E) /\ held' = held
    BY <1>2 DEF CloseConnection
  <2>2. \A e \in U : e[1] = "queue"
    BY UnusedFacts
  <2>7. \A e : e \in E <=> e \in U \/ e \in Exclusive \ held
    OBVIOUS
  <2>3. ASSUME NEW e, e \in Gone(E)
        PROVE  \/ e \in U
               \/ e \in Exclusive \ held
               \/ \E q \in Queues : e = <<"binding", q>>
    BY <2>3, <2>7 DEF Gone
  <2>4. \A e : e \in Exclusive \ held => e \in Gone(E)
    BY <2>7, GoneFacts
  <2>5. ASSUME NEW q \in Queues, def[q].dlq,
               {<<"queue", q>>, <<"dlq", q>>} \cap (exists' \ held') # {}
        PROVE  FailTarget(q) \in exists' \ held'
    <3>1. PICK e \in {<<"queue", q>>, <<"dlq", q>>} : e \in exists' \ held'
      BY <2>5
    <3>2. e \in exists \ held /\ e \notin Exclusive
      BY <3>1, <2>1, <2>4
    <3>3. FailTarget(q) \in exists \ held /\ FailTarget(q) \notin Exclusive
      BY <3>1, <3>2, <2>5, OneFamily DEF TargetInv
    <3>4. FailTarget(q) \notin U
      BY <2>2, TargetFacts
    <3>5. FailTarget(q) \notin Gone(E)
      BY <3>3, <3>4, <2>3, <2>5, OneFamily
    <3> QED BY <3>3, <3>5, <2>1
  <2>6. \A e \in held' : e[1] \in {"retry", "dlq"} => e \in exists'
    <3>1. \A e \in held : e[1] \in {"retry", "dlq"} => e \notin Gone(E)
      <4>1. \A q : <<"binding", q>>[1] = "binding"
        OBVIOUS
      <4> QED BY <4>1, <2>2, <2>3
    <3> QED BY <3>1, <2>1 DEF TargetInv
  <2> QED BY <2>1, <2>5, <2>6, SameDefinitions DEF TargetInv
<1> QED BY <1>1, <1>2

\* A queue that a dead connection owns is exclusive.
LEMMA HeldFacts ==
    ASSUME TypeOK, NEW q \in Queues, def[q].dlq, NEW e \in held,
           e \in {<<"queue", q>>, <<"dlq", q>>, FailTarget(q)}
    PROVE  e \in Exclusive
<1>1. \A p : e # <<"consumer", p>>
  BY OneFamily
<1> QED BY <1>1 DEF TypeOK

\* The queues of a dead connection vanish together.
LEMMA NoticeTargets ==
    ASSUME TypeOK, TargetInv, Notice
    PROVE  TargetInv'
<1> PICK E : E = (Exclusive \cap held)
          \cup {<<"queue", q>> : q \in {p \in Queues \ Subscribed :
                                  def[p].delete /\ <<"consumer", p>> \in held}}
  OBVIOUS
<1>1. exists' = exists \ Gone(E) /\ held' = {} /\ def' = def
  BY DEF Notice
<1>2. \A e \in E : e \in held \/ e[1] = "queue"
  <2>1. \A e \in E : e \in held \/ \E p : e = <<"queue", p>>
    OBVIOUS
  <2>2. \A p : <<"queue", p>>[1] = "queue"
    OBVIOUS
  <2> QED BY <2>1, <2>2
<1>3. \A e \in Exclusive \cap held : e \in E
  OBVIOUS
<1>4. ASSUME NEW q \in Queues, def[q].dlq,
             {<<"queue", q>>, <<"dlq", q>>} \cap exists' # {}
      PROVE  FailTarget(q) \in exists'
  <2>1. PICK e \in {<<"queue", q>>, <<"dlq", q>>} : e \in exists'
    BY <1>4
  <2>2. e \in exists /\ e \notin E
    BY <2>1, <1>1 DEF Gone
  <2>3. e \notin held
    BY <2>1, <2>2, <1>3, <1>4, HeldFacts
  <2>4. FailTarget(q) \in exists \ held
    BY <2>1, <2>2, <2>3, <1>4 DEF TargetInv
  <2>5. FailTarget(q) \notin E
    BY <2>4, <1>2, TargetFacts
  <2>6. FailTarget(q) \notin Gone(E)
    BY <2>5, <1>4, OneFamily DEF Gone
  <2> QED BY <2>4, <2>6, <1>1
<1> QED BY <1>1, <1>4, SameDefinitions DEF TargetInv

\* A broker that restarts forgets the queues of a definition together.
LEMMA RestartTargets ==
    ASSUME TypeOK, TargetInv, BrokerRestart
    PROVE  TargetInv'
<1> PICK E, X : E = Gone(Exclusive) /\ X = {e \in exists \ E : Durable(e)}
  OBVIOUS
<1>1. exists' = X /\ held' = {} /\ def' = def
  BY DEF BrokerRestart
<1>2. \A e \in Exclusive : e \in E
  BY DEF Gone
<1>3. \A e \in E : e \in Exclusive \/ \E q : e = <<"binding", q>>
  BY DEF Gone
<1>4. ASSUME NEW q \in Queues, def[q].dlq,
             {<<"queue", q>>, <<"dlq", q>>} \cap X # {}
      PROVE  FailTarget(q) \in X
  <2>1. PICK e \in {<<"queue", q>>, <<"dlq", q>>} : e \in X
    BY <1>4
  <2>2. e \in exists /\ e \notin Exclusive /\ Durable(e)
    BY <2>1, <1>2
  <2>3. e \notin held
    BY <2>1, <2>2, <1>4, HeldFacts
  <2>4. FailTarget(q) \in exists \ held
    BY <2>1, <2>2, <2>3, <1>4 DEF TargetInv
  <2>5. FailTarget(q) \notin Exclusive /\ Durable(FailTarget(q))
    BY <2>1, <2>2, <1>4, OneFamily
  <2>6. FailTarget(q) \notin E
    BY <2>5, <1>3, <1>4, OneFamily
  <2> QED BY <2>4, <2>5, <2>6
<1> QED BY <1>1, <1>4, SameDefinitions DEF TargetInv

\* An operator deletes the queue of a definition only, not its DLQ.
LEMMA DeletionTargets ==
    ASSUME TargetInv, NEW q \in Queues, QueueDeleted(q)
    PROVE  TargetInv'
<1> PICK E, H : E = {<<"queue", q>>} /\ H = {<<"consumer", q>>}
  OBVIOUS
<1>1. exists' = exists \ Gone(E) /\ held' = held \ H /\ def' = def
  BY DEF QueueDeleted
<1>2. \A e \in E : e[1] = "queue"
  OBVIOUS
<1>3. \A e \in H : e[1] = "consumer"
  OBVIOUS
<1> QED BY <1>1, <1>2, <1>3, TargetsOutlive

\* What was to be declared before e is there, and it belongs to the
\* connection over which e is declared.
LEMMA TargetDeclared ==
    ASSUME RecoveryInv, Serving, NEW q \in Queues, def[q].dlq,
           FailTarget(q) \notin todo
    PROVE  FailTarget(q) \in exists \ held
<1>1. FailTarget(q) \in Entities
  BY EntityFacts
<1>2. FailTarget(q) \in Lasting
  BY <1>1, LastingFacts, TargetFacts
<1>3. FailTarget(q) \in exists
  BY <1>2 DEF RecoveryInv, DoneInv
<1>4. FailTarget(q) \in held => FailTarget(q) \in Exclusive
  BY HeldFacts DEF RecoveryInv
<1>5. FailTarget(q) \notin held
  BY <1>4 DEF RecoveryInv, DoneInv
<1> QED BY <1>3, <1>5

\* The targets of a definition are declared before what needs them.
LEMMA DeclareTargets ==
    ASSUME RecoveryInv, DeclareNext
    PROVE  TargetInv'
<1>1. PICK e \in NextUp : /\ Accepted(e) /\ exists' = exists \cup {e}
                          /\ held' = held /\ def' = def
  BY DEF DeclareNext
<1>2. Serving
  BY DEF DeclareNext, Serving
<1>3. Before(e) \cap todo = {}
  BY <1>1 DEF NextUp
<1>4. ASSUME NEW q \in Queues, def[q].dlq,
             {<<"queue", q>>, <<"dlq", q>>} \cap (exists' \ held') # {}
      PROVE  FailTarget(q) \in exists' \ held'
  <2>1. PICK m \in {<<"queue", q>>, <<"dlq", q>>} : m \in exists' \ held'
    BY <1>4
  <2>2. CASE m \in exists
    <3>1. FailTarget(q) \in exists \ held
      BY <1>1, <1>4, <2>1, <2>2 DEF RecoveryInv, TargetInv
    <3> QED BY <3>1, <1>1
  <2>3. CASE m = e /\ FailTarget(q) = m
    BY <2>1, <2>3
  <2>4. CASE m = e /\ FailTarget(q) # m
    <3>1. FailTarget(q) \in Before(e)
      BY <2>1, <2>4 DEF FailTarget, Before
    <3>2. FailTarget(q) \in exists \ held
      BY <3>1, <1>2, <1>3, <1>4, TargetDeclared
    <3> QED BY <3>2, <1>1
  <2> QED BY <2>1, <2>2, <2>3, <2>4, <1>1
<1> QED BY <1>1, <1>4, SameDefinitions DEF RecoveryInv, TargetInv

\* While nothing is declared, what is there is what was declared, as long as
\* only auto-delete queues vanish.
LEMMA DoneOutlives ==
    ASSUME RecoveryInv, def' = def, deleted' = deleted, mon' = mon, todo' = todo,
           Serving' => Serving, NEW E, held' = held, exists' = exists \ Gone(E),
           \A e \in E : \E q \in Queues : e = <<"queue", q>> /\ def[q].delete
    PROVE  DoneInv'
<1>1. ASSUME NEW x \in Lasting PROVE x \notin Gone(E)
  <2>1. \A q \in Queues : Volatile(q) => x # <<"queue", q>> /\ x # <<"binding", q>>
    BY LastingFacts DEF Lasting
  <2>2. \A q \in Queues : <<"queue", q>> \in E => Volatile(q)
    BY DEF Volatile
  <2> QED BY <2>1, <2>2, GoneFacts DEF Volatile
<1>2. Serving => \A x \in Lasting \ todo : x \in exists'
  BY <1>1 DEF RecoveryInv, DoneInv
<1> QED BY <1>2, SameDefinitions DEF RecoveryInv, DoneInv

\* The steps that leave broker and monitor alone.
LEMMA DoneUntouched ==
    ASSUME RecoveryInv, def' = def, deleted' = deleted, mon' = mon, todo' = todo,
           Serving' => Serving, held' = held, exists' = exists
    PROVE  DoneInv'
BY SameDefinitions DEF RecoveryInv, DoneInv

\* A channel that is closed interrupts, and takes auto-delete queues with it.
LEMMA ChannelDone ==
    ASSUME RecoveryInv, NEW k, CloseChannel(k), def' = def, mon' = mon,
           todo' = todo
    PROVE  DoneInv'
<1> PICK E : E = Unused({q \in Subscribed : chan[q] = k})
  OBVIOUS
<1>1. /\ exists' = exists \ Gone(E) /\ held' = held /\ deleted' = deleted
      /\ up' = up /\ ch' \in {ch, NoChan}
  BY DEF CloseChannel
<1>2. \A e \in E : \E q \in Queues : e = <<"queue", q>> /\ def[q].delete
  BY UnusedFacts DEF Subscribed
<1>3. Serving' => Serving
  BY <1>1 DEF Serving
<1> QED BY <1>1, <1>2, <1>3, DoneOutlives

\* Without a connection nothing is promised.
LEMMA NothingServed ==
    ASSUME RecoveryInv, up' = FALSE, ch' = NoChan, mon' = mon, todo' = todo
    PROVE  DoneInv'
BY DEF RecoveryInv, DoneInv, Serving

\* What a dead connection takes with it was not declared over this one.
LEMMA NoticeDone ==
    ASSUME RecoveryInv, Notice
    PROVE  DoneInv'
<1> PICK D : D = {<<"queue", q>> : q \in {p \in Queues \ Subscribed :
                                  def[p].delete /\ <<"consumer", p>> \in held}}
  OBVIOUS
<1> PICK E : E = (Exclusive \cap held) \cup D
  OBVIOUS
<1>1. /\ exists' = exists \ Gone(E) /\ held' = {} /\ def' = def
      /\ deleted' = deleted /\ mon' = mon /\ todo' = todo /\ up' = up /\ ch' = ch
  BY DEF Notice, broker, manager, monitor
<1>2. \A e \in D : \E q \in Queues : e = <<"queue", q>> /\ Volatile(q)
  BY DEF Volatile
<1>3. ASSUME Serving, NEW x \in Lasting \ todo PROVE x \in exists'
  <2>1. x \in exists /\ x \notin Exclusive \cap held
    BY <1>3 DEF RecoveryInv, DoneInv
  <2>2. \A q \in Queues : Volatile(q) => x # <<"queue", q>> /\ x # <<"binding", q>>
    BY LastingFacts DEF Lasting
  <2>3. x \notin D
    BY <1>2, <2>2
  <2>4. ASSUME NEW q \in Queues, <<"queue", q>> \in E, x = <<"binding", q>>
        PROVE  FALSE
    <3>1. <<"queue", q>> \notin D
      BY <1>2, <2>2, <2>4
    <3>2. <<"queue", q>> \in Exclusive \cap held
      BY <3>1, <2>4
    <3>3. <<"queue", q>> \in todo
      BY <3>2, <1>3 DEF RecoveryInv, DoneInv
    <3> QED BY <3>3, <1>3, <2>4 DEF RecoveryInv, DoneInv
  <2>5. x \notin Gone(E)
    BY <2>1, <2>3, <2>4 DEF Gone
  <2> QED BY <2>1, <2>5, <1>1
<1>4. Serving' => Serving
  BY <1>1 DEF Serving
<1> QED BY <1>1, <1>3, <1>4, SameDefinitions DEF RecoveryInv, DoneInv

\* A queue that an operator deletes is not expected any more.
LEMMA DeletionDone ==
    ASSUME RecoveryInv, NEW p \in Queues, QueueDeleted(p)
    PROVE  DoneInv'
<1>1. /\ exists' = exists \ Gone({<<"queue", p>>}) /\ held' \subseteq held
      /\ deleted' = deleted \cup {p} /\ def' = def /\ mon' = mon /\ todo' = todo
      /\ up' = up /\ ch' = ch
  BY DEF QueueDeleted, monitor
<1>2. Lasting' = Entities \ Gone({<<"queue", q>> :
                                     q \in {r \in Queues : Volatile(r)'}})
  BY <1>1, SameDefinitions DEF Lasting, Gone
<1>3. ASSUME NEW x \in Lasting'
      PROVE  x \in Lasting /\ x \notin Gone({<<"queue", p>>})
  <2>1. \A q : Volatile(q)' <=> Volatile(q) \/ q = p
    BY <1>1 DEF Volatile
  <2>2. x \in Entities
    BY <1>2
  <2>3. \A q \in Queues : Volatile(q) \/ q = p =>
            x # <<"queue", q>> /\ x # <<"binding", q>>
    BY <1>2, <2>1 DEF Gone
  <2>4. x \in Lasting
    BY <2>2, <2>3, LastingFacts
  <2>5. x \notin Gone({<<"queue", p>>})
    BY <2>3 DEF Gone
  <2> QED BY <2>4, <2>5
<1>4. Serving' => Serving
  BY <1>1 DEF Serving
<1>5. Serving => \A x \in Lasting' \ todo : x \in exists'
  BY <1>1, <1>3 DEF RecoveryInv, DoneInv
<1> QED BY <1>1, <1>4, <1>5, SameDefinitions DEF RecoveryInv, DoneInv

\* Each declaration adds what it takes from the list.
LEMMA DeclareDone ==
    ASSUME RecoveryInv, DeclareNext
    PROVE  DoneInv'
<1>1. PICK e \in NextUp :
          /\ Accepted(e) /\ exists' = exists \cup {e} /\ todo' = todo \ {e}
          /\ deleted' = {q \in deleted : e # <<"queue", q>>}
  BY DEF DeclareNext
<1>2. /\ held' = held /\ def' = def /\ up' = up /\ ch' = ch
      /\ mon' = (IF todo' = {} THEN "watch" ELSE mon) /\ Serving
  BY DEF DeclareNext, manager, Serving
<1>3. mon' # "declare" => todo' = {}
  BY <1>2 DEF DeclareNext
<1>4. ASSUME NEW x \in Lasting' \ todo' PROVE x \in exists'
  <2>1. CASE x = e
    BY <2>1, <1>1
  <2>2. CASE x # e
    <3>1. x \notin todo
      BY <2>2, <1>1, <1>4
    <3>2. ASSUME x \notin Lasting PROVE FALSE
      <4>1. x \in Entities /\ \A q \in Queues :
                Volatile(q)' => x # <<"queue", q>> /\ x # <<"binding", q>>
        BY <1>2, <1>4, SameDefinitions DEF Lasting, Gone
      <4>2. PICK q \in Queues : /\ Volatile(q)
                                /\ x = <<"queue", q>> \/ x = <<"binding", q>>
        BY <3>2, <4>1, LastingFacts
      <4>3. e = <<"queue", q>>
        BY <4>1, <4>2, <1>1, <1>2 DEF Volatile
      <4>4. e \in todo
        BY DEF NextUp
      <4>5. <<"binding", q>> \in todo
        BY <4>3, <4>4, <1>2 DEF RecoveryInv, DoneInv
      <4> QED BY <4>2, <4>3, <4>5, <2>2, <3>1
    <3>3. x \in exists
      BY <3>1, <3>2, <1>2 DEF RecoveryInv, DoneInv
    <3> QED BY <3>3, <1>1
  <2> QED BY <2>1, <2>2
<1>5. ASSUME NEW x \in Exclusive \ todo' PROVE x \notin held
  <2>1. CASE x = e
    <3>1. x[1] \in {"retry", "dlq", "queue"}
      BY <1>5, ExclusiveFacts
    <3>2. x # Link /\ x[1] # "binding"
      BY <3>1 DEF Link
    <3> QED BY <3>2, <2>1, <1>1 DEF Accepted
  <2>2. CASE x # e
    BY <2>2, <1>1, <1>2, <1>5 DEF RecoveryInv, DoneInv
  <2> QED BY <2>1, <2>2
<1>6. ASSUME NEW q \in Queues, <<"queue", q>> \in todo'
      PROVE  <<"binding", q>> \in todo'
  <2>1. <<"queue", q>> \in todo /\ <<"binding", q>> \in todo
    BY <1>1, <1>2, <1>6 DEF RecoveryInv, DoneInv
  <2>2. Stage(e) <= Stage(<<"queue", q>>)
    BY <2>1 DEF NextUp
  <2>3. Stage(<<"queue", q>>) = 2 /\ Stage(<<"binding", q>>) = 3
    BY DEF Stage
  <2>4. e # <<"binding", q>>
    BY <2>2, <2>3
  <2> QED BY <2>1, <2>4, <1>1
<1> QED BY <1>2, <1>3, <1>4, <1>5, <1>6, SameDefinitions DEF DoneInv

-----------------------------------------------------------------------------

\* A fault is counted.
LEMMA FaultFacts ==
    ASSUME TypeOK, Fault
    PROVE  faults' \in 0..MaxFaults
BY FaultsAssumption DEF TypeOK, Fault

\* The channels that are left when one is closed.
LEMMA ChannelTypes ==
    ASSUME TypeOK, NEW k, CloseChannel(k), def' = def
    PROVE  /\ exists' \subseteq Entities' /\ held' = held /\ deleted' = deleted
           /\ up' = up /\ ch' \in Chans \cup {NoChan}
           /\ chan' \in [Queues -> Chans \cup {NoChan}]
           /\ ~up' => ch' = NoChan /\ \A q \in Queues : chan'[q] = NoChan
<1>1. \A q \in Queues : chan'[q] = IF chan[q] = k THEN NoChan ELSE chan[q]
  BY DEF CloseChannel
<1> QED BY <1>1, SameDefinitions DEF CloseChannel, TypeOK

\* A connection that is closed has no open channels.
LEMMA ConnectionTypes ==
    ASSUME TypeOK, NEW late \in BOOLEAN, CloseConnection(late), def' = def
    PROVE  /\ exists' \subseteq Entities'
           /\ held' \subseteq Exclusive' \cup {<<"consumer", q>> : q \in Queues}
           /\ deleted' = deleted /\ up' = FALSE /\ ch' = NoChan
           /\ chan' \in [Queues -> Chans \cup {NoChan}]
           /\ \A q \in Queues : chan'[q] = NoChan
<1>1. {<<"consumer", q>> : q \in Subscribed} \subseteq
          {<<"consumer", q>> : q \in Queues}
  BY DEF Subscribed
<1>2. held' \subseteq Exclusive' \cup {<<"consumer", q>> : q \in Queues}
  <2> DEFINE C == {<<"consumer", q>> : q \in Queues}
             S == {<<"consumer", q>> : q \in Subscribed}
  <2>1. \/ held' = held
        \/ held' = held \cup (Exclusive \cap exists) \cup S
    BY DEF CloseConnection
  <2>2. held \subseteq Exclusive \cup C /\ S \subseteq C
    BY <1>1 DEF TypeOK
  <2> HIDE DEF C, S
  <2> QED BY <2>1, <2>2, SameDefinitions DEF C
<1>3. exists' \subseteq Entities'
  BY SameDefinitions DEF CloseConnection, TypeOK
<1> QED BY <1>2, <1>3 DEF CloseConnection

\* Every step keeps the types.
LEMMA TypeStep == TypeOK /\ [Next]_vars => TypeOK'
<1> SUFFICES ASSUME TypeOK, [Next]_vars PROVE TypeOK'
  OBVIOUS
<1> USE DEF manager, monitor, broker, consumers
<1>1. CASE UNCHANGED vars
  BY <1>1, SameDefinitions DEF vars, TypeOK
<1>2. CASE ReopenChannel
  BY <1>2, SameDefinitions, FreshChanExists DEF ReopenChannel, TypeOK
<1>3. CASE Reconnect
  BY <1>3, SameDefinitions DEF Reconnect, TypeOK
<1>4. CASE Dial
  BY <1>4, SameDefinitions, FreshChanExists DEF Dial, TypeOK
<1>5. CASE DeclareNext
  <2>1. PICK e \in NextUp :
          /\ exists' = exists \cup {e} /\ todo' = todo \ {e}
          /\ deleted' = {q \in deleted : e # <<"queue", q>>}
    BY <1>5 DEF DeclareNext
  <2>2. e \in Entities
    BY <2>1 DEF NextUp, TypeOK
  <2>3. mon' \in {"watch", "declare"}
    BY <1>5 DEF DeclareNext
  <2> QED BY <1>5, <2>1, <2>2, <2>3, SameDefinitions DEF DeclareNext, TypeOK
<1>6. CASE DeclareFailed
  <2>1. CASE UNCHANGED <<ch, chan, exists, held, deleted, up>>
    BY <1>6, <2>1, SameDefinitions DEF DeclareFailed, TypeOK
  <2>2. CASE CloseChannel(ch)
    BY <1>6, <2>2, SameDefinitions, ChannelTypes DEF DeclareFailed, TypeOK
  <2> QED BY <1>6, <2>1, <2>2 DEF DeclareFailed
<1>7. CASE DropConnection
  <2>1. CASE CloseConnection(FALSE) /\ mon' = "reconnect" /\ closed' = TRUE
    BY <1>7, <2>1, SameDefinitions, ConnectionTypes DEF DropConnection, TypeOK
  <2>2. CASE mon' = "watch" /\ UNCHANGED <<broker, up, ch, closed, chan>>
    BY <1>7, <2>2, SameDefinitions DEF DropConnection, TypeOK
  <2> QED BY <1>7, <2>1, <2>2 DEF DropConnection
<1>8. CASE Notice
  BY <1>8, SameDefinitions DEF Notice, TypeOK
<1>9. CASE ConnectionLost
  BY <1>9, SameDefinitions, ConnectionTypes, FaultFacts
     DEF ConnectionLost, TypeOK
<1>10. CASE BrokerRestart
  BY <1>10, SameDefinitions, FaultFacts DEF BrokerRestart, TypeOK
<1>11. CASE ChannelError
  BY <1>11, SameDefinitions, ChannelTypes, FaultFacts DEF ChannelError, TypeOK
<1>12. ASSUME NEW q \in Queues, QueueDeleted(q)
       PROVE  TypeOK'
  <2>1. cancel' \in BOOLEAN
    BY <1>12 DEF QueueDeleted, TypeOK
  <2>2. /\ chan' \in [Queues -> Chans \cup {NoChan}]
        /\ ~up' => \A p \in Queues : chan'[p] = NoChan
    BY <1>12 DEF QueueDeleted, TypeOK
  <2> QED BY <1>12, <2>1, <2>2, SameDefinitions, FaultFacts
          DEF QueueDeleted, TypeOK
<1>13. ASSUME NEW q \in Queues, GetChannel(q)
       PROVE  TypeOK'
  BY <1>13, SameDefinitions DEF GetChannel, TypeOK
<1>14. ASSUME NEW q \in Queues, Subscribe(q)
       PROVE  TypeOK'
  BY <1>14, SameDefinitions DEF Subscribe, TypeOK
<1>15. ASSUME NEW q \in Queues, SubscribeFailed(q)
       PROVE  TypeOK'
  <2>1. CASE UNCHANGED <<ch, chan, exists, held, deleted, up, faults>>
    BY <1>15, <2>1, SameDefinitions DEF SubscribeFailed, TypeOK
  <2>2. CASE CloseChannel(chan[q]) /\ (faults' = faults \/ Fault)
    <3>1. faults' \in 0..MaxFaults
      BY <2>2, FaultFacts DEF TypeOK
    <3> QED BY <1>15, <2>2, <3>1, SameDefinitions, ChannelTypes
            DEF SubscribeFailed, TypeOK
  <2> QED BY <1>15, <2>1, <2>2 DEF SubscribeFailed
<1>16. ASSUME NEW q \in Queues, DeliveriesEnd(q)
       PROVE  TypeOK'
  BY <1>16, SameDefinitions DEF DeliveriesEnd, TypeOK
<1> QED
  BY <1>1, <1>2, <1>3, <1>4, <1>5, <1>6, <1>7, <1>8, <1>9, <1>10, <1>11,
     <1>12, <1>13, <1>14, <1>15, <1>16
  DEF Next, Monitor, Failure, Consumer

\* Every step keeps the invariant.
LEMMA RecoveryStep == RecoveryInv /\ [Next]_vars => RecoveryInv'
<1> SUFFICES ASSUME RecoveryInv, [Next]_vars PROVE RecoveryInv'
  OBVIOUS
<1>t. TypeOK /\ TargetInv /\ DoneInv
  BY DEF RecoveryInv
<1>u. TypeOK'
  BY <1>t, TypeStep
<1> SUFFICES TargetInv' /\ DoneInv'
  BY <1>u DEF RecoveryInv
<1> USE DEF manager, monitor, broker, consumers
<1>1. CASE UNCHANGED vars
  BY <1>1, <1>t, TargetsUntouched, DoneUntouched DEF vars, Serving
<1>2. CASE ReopenChannel
  BY <1>2, <1>t, TargetsUntouched, DoneUntouched DEF ReopenChannel, Serving
<1>3. CASE Reconnect
  <2>1. TargetInv'
    BY <1>3, <1>t, TargetsUntouched DEF Reconnect
  <2>2. todo' = {} /\ ~Serving'
    BY <1>3, <1>t DEF Reconnect, DoneInv, Serving
  <2> QED BY <2>1, <2>2 DEF DoneInv
<1>4. CASE Dial
  <2>1. TargetInv'
    BY <1>4, <1>t, TargetsUntouched DEF Dial
  <2>2. mon' = "declare" /\ todo' = Entities /\ def' = def
    BY <1>4 DEF Dial
  <2>3. Lasting' \ todo' = {} /\ Exclusive' \ todo' = {}
    BY <2>2, SameDefinitions, EntityFacts DEF Lasting
  <2>4. \A q \in Queues : <<"binding", q>> \in todo'
    BY <2>2, EntityFacts
  <2> QED BY <2>1, <2>2, <2>3, <2>4 DEF DoneInv
<1>5. CASE DeclareNext
  BY <1>5, DeclareTargets, DeclareDone
<1>6. CASE DeclareFailed
  <2>1. mon' = "drop" /\ todo' = {} /\ def' = def
    BY <1>6 DEF DeclareFailed
  <2>2. TargetInv'
    BY <1>6, <1>t, <2>1, TargetsUntouched, ChannelTargets DEF DeclareFailed
  <2> QED BY <2>1, <2>2 DEF DoneInv, Serving
<1>7. CASE DropConnection
  <2>1. TargetInv'
    BY <1>7, <1>t, TargetsUntouched, ConnectionTargets DEF DropConnection
  <2>2. todo' = {}
    BY <1>7, <1>t DEF DropConnection, DoneInv
  <2>3. \/ mon' = "reconnect"
        \/ mon' = "watch" /\ ~up'
    BY <1>7 DEF DropConnection
  <2>4. ~Serving'
    BY <2>3 DEF Serving
  <2> QED BY <2>1, <2>2, <2>4 DEF DoneInv
<1>8. CASE Notice
  BY <1>8, <1>t, NoticeTargets, NoticeDone
<1>9. CASE ConnectionLost
  <2>1. PICK late \in BOOLEAN : CloseConnection(late)
    BY <1>9 DEF ConnectionLost
  <2>2. /\ def' = def /\ mon' = mon /\ todo' = todo /\ up' = FALSE
        /\ ch' = NoChan
    BY <1>9, <2>1 DEF ConnectionLost, CloseConnection
  <2> QED BY <2>1, <2>2, <1>t, ConnectionTargets, NothingServed
<1>10. CASE BrokerRestart
  <2>1. mon' = mon /\ todo' = todo /\ up' = FALSE /\ ch' = NoChan
    BY <1>10 DEF BrokerRestart
  <2> QED BY <2>1, <1>10, <1>t, RestartTargets, NothingServed
<1>11. CASE ChannelError
  <2>1. PICK k : CloseChannel(k)
    BY <1>11 DEF ChannelError
  <2>2. def' = def /\ mon' = mon /\ todo' = todo
    BY <1>11 DEF ChannelError
  <2> QED BY <2>1, <2>2, <1>t, ChannelTargets, ChannelDone
<1>12. ASSUME NEW q \in Queues, QueueDeleted(q)
       PROVE  TargetInv' /\ DoneInv'
  BY <1>12, <1>t, DeletionTargets, DeletionDone
<1>13. ASSUME NEW q \in Queues, GetChannel(q) \/ Subscribe(q) \/ DeliveriesEnd(q)
       PROVE  TargetInv' /\ DoneInv'
  BY <1>13, <1>t, TargetsUntouched, DoneUntouched
     DEF GetChannel, Subscribe, DeliveriesEnd, Serving
<1>14. ASSUME NEW q \in Queues, SubscribeFailed(q)
       PROVE  TargetInv' /\ DoneInv'
  <2>1. def' = def /\ mon' = mon /\ todo' = todo
    BY <1>14 DEF SubscribeFailed
  <2>2. CASE UNCHANGED <<ch, chan, exists, held, deleted, up, faults>>
    BY <2>1, <2>2, <1>t, TargetsUntouched, DoneUntouched DEF Serving
  <2>3. CASE CloseChannel(chan[q])
    BY <2>1, <2>3, <1>t, ChannelTargets, ChannelDone
  <2> QED BY <1>14, <2>2, <2>3 DEF SubscribeFailed
<1> QED
  BY <1>1, <1>2, <1>3, <1>4, <1>5, <1>6, <1>7, <1>8, <1>9, <1>10, <1>11,
     <1>12, <1>13, <1>14
  DEF Next, Monitor, Failure, Consumer

\* What is there, and what a dead connection owns, is as the declarations
\* and failures so far allow.
LEMMA RecoveryInvariant == Spec => []RecoveryInv
BY RecoveryInit, RecoveryStep, PTL DEF Spec

\* The types of the model's variables: among other things, a closed
\* connection has no open channels, and what a dead connection still owns
\* are exclusive queues and subscriptions.
THEOREM TypeCorrect == Spec => []TypeOK
<1>1. RecoveryInv => TypeOK
  BY DEF RecoveryInv
<1> QED BY <1>1, RecoveryInvariant, PTL

\* DeclareQueues and every failure: no queue and no DLQ is ever there without
\* the queue that its failed messages are routed to.
THEOREM TargetsComeFirst == Spec => []TargetsFirst
<1>1. RecoveryInv => TargetsFirst
  <2> SUFFICES ASSUME RecoveryInv, NEW q \in Queues, def[q].dlq,
                      NEW e \in {<<"queue", q>>, <<"dlq", q>>}, e \in exists
               PROVE  FailTarget(q) \in exists
    BY DEF TargetsFirst
  <2>1. CASE e \in held
    <3>1. FailTarget(q) \in held
      BY <2>1 DEF RecoveryInv, TargetInv
    <3> QED BY <3>1, TargetFacts DEF RecoveryInv, TargetInv
  <2>2. CASE e \notin held
    BY <2>2 DEF RecoveryInv, TargetInv
  <2> QED BY <2>1, <2>2
<1> QED BY <1>1, RecoveryInvariant, PTL

\* The monitor goes back to its loop with an open connection only when
\* everything that should last is declared over it.
THEOREM DeclaredWhenWatching == Spec => []DeclaredWhenIdle
<1>1. RecoveryInv => DeclaredWhenIdle
  BY DEF RecoveryInv, DoneInv, Serving, DeclaredWhenIdle
<1> QED BY <1>1, RecoveryInvariant, PTL

=============================================================================
