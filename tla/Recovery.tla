------------------------------ MODULE Recovery ------------------------------
(***************************************************************************)
(* What is left of a topology and of its consumers after failures: the     *)
(* monitor of connection_manager.go that reopens channels and declares the *)
(* topology again over a new connection, DeclareAndBindings (topology.go)  *)
(* step by step, and the goroutines of the dispatcher that subscribe again *)
(* (dispatcher.go, consume). They share one channel, which the broker      *)
(* closes for everybody when it refuses a call of one of them.             *)
(*                                                                         *)
(* The module starts when Apply has returned and the consumers are about   *)
(* to start. Locks, limits on attempts and Close are the subject of        *)
(* ConnectionManager, deliveries that of Dispatcher. A variable that holds *)
(* a closed channel is set to NoChan, and an open channel that nobody      *)
(* refers to is used again.                                                *)
(***************************************************************************)
EXTENDS Naturals, FiniteSets

CONSTANTS
    Queues,
    Definitions,      \* the definitions of the queues that occur
    DurableExchanges, \* ExchangeDefinition.durable
    Chans, NoChan,
    MaxFaults         \* bound: failures, and calls at an unlucky moment

\* QueueDefinition, as far as existence goes.
DefinitionType ==
    [Queues -> [retry : BOOLEAN, dlq : BOOLEAN, durable : BOOLEAN,
                delete : BOOLEAN, exclusive : BOOLEAN]]

\* The manager and each consumer may hold a channel, and one more is opened.
ASSUME ChansAssumption ==
    /\ IsFiniteSet(Queues) /\ IsFiniteSet(Chans) /\ NoChan \notin Chans
    /\ Cardinality(Chans) > Cardinality(Queues) + 1
ASSUME DefinitionsAssumption ==
    Definitions \subseteq DefinitionType /\ DurableExchanges \in BOOLEAN
ASSUME FaultsAssumption == MaxFaults \in Nat

VARIABLES
    def,      \* the definition of each queue
    exists,   \* the broker: what is declared
    held,     \* the broker: what a dead connection it has not noticed still
              \* owns, exclusive queues and subscriptions
    up,       \* the connection is open
    ch,       \* cm.ch
    closed,   \* cm.closed
    cancel,   \* a notice waits in cm.chCancelNotify
    mon,      \* where the monitor goroutine is
    todo,     \* the rest of DeclareAndBindings
    pc, chan, \* the consumer goroutine of a queue and the channel it uses
    deleted,  \* queues an operator deleted, not declared again since
    faults

broker  == <<exists, held, deleted>>
manager == <<up, ch, closed, cancel>>
monitor == <<mon, todo>>
consumers == <<pc, chan>>
vars == <<def, broker, manager, monitor, consumers, faults>>

-----------------------------------------------------------------------------
(* The topology: messages are published to the exchange "in", which is     *)
(* bound to "out", which the queues are bound to.                          *)

Exchanges == {<<"exchange", "in">>, <<"exchange", "out">>}
Link == <<"link", "out">>

\* The queues declared for a definition: q, q-retry and q-dlq.
Family(q) ==
    {<<"queue", q>>} \cup (IF def[q].retry THEN {<<"retry", q>>} ELSE {})
                     \cup (IF def[q].dlq THEN {<<"dlq", q>>} ELSE {})

Entities == Exchanges \cup {Link} \cup {<<"binding", q>> : q \in Queues}
                      \cup UNION {Family(q) : q \in Queues}

\* DeclareAndBindings: exchanges, queues, their bindings, the bindings of
\* exchanges. The exchanges and the bindings come in the order in which the
\* application lists them, which is left open.
Stage(e) == CASE e[1] = "exchange" -> 1
              [] e[1] \in {"retry", "dlq", "queue"} -> 2
              [] e[1] = "binding" -> 3
              [] e[1] = "link" -> 4

\* (mutant) The queue itself first.
BeforeMainFirst(e) ==
    IF e[1] \in {"retry", "dlq"} THEN {<<"queue", e[2]>>} ELSE {}

\* What is declared for a definition before e.
Before(e) ==
    CASE e[1] = "dlq" -> {<<"retry", e[2]>>}
      [] e[1] = "queue" -> {<<"retry", e[2]>>, <<"dlq", e[2]>>}
      [] OTHER -> {}

\* What may be declared next. The definitions are kept in a map: they come in
\* any order, but one after the other.
NextUp ==
    {e \in todo :
        /\ Before(e) \cap todo = {} /\ \A f \in todo : Stage(e) <= Stage(f)
        /\ Stage(e) = 2 => \A q \in Queues \ {e[2]} :
                              Family(q) \cap todo \in {{}, Family(q)}}

\* Where the broker routes a message that dies in q or in its DLQ.
FailTarget(q) == <<IF def[q].retry THEN "retry" ELSE "dlq", q>>

Exclusive == {e \in UNION {Family(q) : q \in Queues} : def[e[2]].exclusive}

Durable(e) == CASE e[1] \in {"exchange", "link"} -> DurableExchanges
                [] e[1] = "binding" -> DurableExchanges /\ def[e[2]].durable
                [] OTHER -> def[e[2]].durable

-----------------------------------------------------------------------------

TypeOK ==
    /\ def \in Definitions /\ exists \subseteq Entities
    /\ held \subseteq Exclusive \cup {<<"consumer", q>> : q \in Queues}
    /\ up \in BOOLEAN /\ closed \in BOOLEAN /\ cancel \in BOOLEAN
    /\ ch \in Chans \cup {NoChan} /\ chan \in [Queues -> Chans \cup {NoChan}]
    /\ mon \in {"watch", "reconnect", "declare", "drop"}
    /\ todo \subseteq Entities
    /\ pc \in [Queues -> {"check", "consume", "receive"}]
    /\ deleted \subseteq Queues /\ faults \in 0..MaxFaults
    \* a closed connection has no open channels
    /\ ~up => ch = NoChan /\ \A q \in Queues : chan[q] = NoChan

Init ==
    /\ def \in Definitions /\ exists = Entities /\ held = {}
    /\ up = TRUE /\ ch = (CHOOSE k \in Chans : TRUE)
    /\ closed = FALSE /\ cancel = FALSE
    /\ mon = "watch" /\ todo = {} /\ deleted = {} /\ faults = 0
    /\ pc = [q \in Queues |-> "check"] /\ chan = [q \in Queues |-> NoChan]

Fault == faults < MaxFaults /\ faults' = faults + 1

-----------------------------------------------------------------------------
(* The broker.                                                             *)

\* Consumers that have a delivery channel.
Subscribed == {q \in Queues : pc[q] = "receive" /\ chan[q] # NoChan}

\* Queues go with their bindings.
Gone(E) == E \cup {<<"binding", q>> : q \in {p \in Queues : <<"queue", p>> \in E}}

\* The auto-delete queues that go when their consumers Q do. A consumer of a
\* dead connection still counts.
Unused(Q) == {<<"queue", q>> :
                 q \in {p \in Q : def[p].delete /\ <<"consumer", p>> \notin held}}

\* Channel k is closed, by the broker or by a failure.
CloseChannel(k) ==
    /\ ch' = (IF ch = k THEN NoChan ELSE ch)
    /\ chan' = [q \in Queues |-> IF chan[q] = k THEN NoChan ELSE chan[q]]
    /\ exists' = exists \ Gone(Unused({q \in Subscribed : chan[q] = k}))
    /\ UNCHANGED <<held, deleted, up>>

\* (mutant) The delivery channels stay open.
CloseConnectionOnly(late) ==
    up' = FALSE /\ ch' = NoChan /\ UNCHANGED <<chan, held, exists, deleted>>

\* The connection is closed. Unless the broker notices late, it removes the
\* consumers and the exclusive queues.
CloseConnection(late) ==
    /\ up' = FALSE /\ ch' = NoChan /\ chan' = [q \in Queues |-> NoChan]
    /\ IF late
       THEN /\ held' = held \cup (Exclusive \cap exists)
                            \cup {<<"consumer", q>> : q \in Subscribed}
            /\ UNCHANGED exists
       ELSE /\ exists' = exists \ Gone(Unused(Subscribed) \cup (Exclusive \ held))
            /\ UNCHANGED held
    /\ UNCHANGED deleted

ConnectionLost ==
    /\ up /\ Fault /\ \E late \in BOOLEAN : CloseConnection(late)
    /\ UNCHANGED <<def, closed, cancel, monitor, pc>>

\* The broker notices that a connection is dead.
Notice ==
    /\ held # {} /\ held' = {}
    /\ exists' = exists \ Gone((Exclusive \cap held)
          \cup {<<"queue", q>> : q \in {p \in Queues \ Subscribed :
                                  def[p].delete /\ <<"consumer", p>> \in held}})
    /\ UNCHANGED <<def, deleted, manager, monitor, consumers, faults>>

BrokerRestart ==
    /\ Fault /\ exists' = {e \in exists \ Gone(Exclusive) : Durable(e)}
    /\ held' = {} /\ up' = FALSE /\ ch' = NoChan
    /\ chan' = [q \in Queues |-> NoChan]
    /\ UNCHANGED <<def, deleted, closed, cancel, monitor, pc>>

\* An error of the channel that any of its users provokes: an unknown
\* delivery tag, or a publication to an exchange that is not there (yet).
ChannelError ==
    \E k \in Chans \cap ({ch} \cup {chan[q] : q \in Queues}) :
        /\ Fault /\ CloseChannel(k)
        /\ UNCHANGED <<def, closed, cancel, monitor, pc>>

\* An operator deletes a queue; its consumer is cancelled. The notice counts
\* on the channel of the manager only. (Two unread ones: ConnectionManager.)
QueueDeleted(q) ==
    /\ <<"queue", q>> \in exists \ Exclusive /\ ~(cancel /\ chan[q] = ch) /\ Fault
    /\ exists' = exists \ Gone({<<"queue", q>>})
    /\ deleted' = deleted \cup {q} /\ held' = held \ {<<"consumer", q>>}
    /\ cancel' = (cancel \/ (q \in Subscribed /\ chan[q] = ch))
    /\ chan' = IF pc[q] = "receive" THEN [chan EXCEPT ![q] = NoChan] ELSE chan
    /\ UNCHANGED <<def, up, ch, closed, monitor, pc>>

-----------------------------------------------------------------------------
(* The monitor.                                                            *)

FreshChan == CHOOSE k \in Chans : k # ch /\ \A q \in Queues : chan[q] # k

\* (mutant) A closed channel is left to a reconnection.
ReopenChannelOnCancel ==
    /\ mon = "watch" /\ up /\ cancel
    /\ ch' = FreshChan /\ cancel' = FALSE
    /\ UNCHANGED <<def, broker, up, closed, monitor, consumers, faults>>

\* handleChannelFailure: the channel was closed, or a consumer cancelled. The
\* topology is not declared again, and the old channel is not closed.
ReopenChannel ==
    /\ mon = "watch" /\ up /\ (ch = NoChan \/ cancel)
    /\ ch' = FreshChan /\ cancel' = FALSE
    /\ UNCHANGED <<def, broker, up, closed, monitor, consumers, faults>>

\* handleConnectionFailure, until an attempt succeeds.
Reconnect ==
    /\ mon = "watch" /\ ~up /\ mon' = "reconnect" /\ closed' = TRUE
    /\ UNCHANGED <<def, broker, up, ch, cancel, todo, consumers, faults>>

\* (mutant) The manager is content with the connection.
DialOnly ==
    /\ mon = "reconnect" /\ mon' = "watch" /\ UNCHANGED todo
    /\ up' = TRUE /\ ch' = FreshChan /\ closed' = FALSE /\ cancel' = FALSE
    /\ UNCHANGED <<def, broker, consumers, faults>>

\* The manager serves its callers from here on, before the declarations.
Dial ==
    /\ mon = "reconnect" /\ mon' = "declare" /\ todo' = Entities
    /\ up' = TRUE /\ ch' = FreshChan /\ closed' = FALSE /\ cancel' = FALSE
    /\ UNCHANGED <<def, broker, consumers, faults>>

\* The broker accepts the declaration of e.
Accepted(e) ==
    CASE e[1] = "binding" -> {<<"queue", e[2]>>, <<"exchange", "out">>} \subseteq exists
      [] e = Link -> Exchanges \subseteq exists
      [] OTHER -> e \notin held

DeclareNext ==
    /\ mon = "declare" /\ ch # NoChan
    /\ \E e \in NextUp :
         /\ Accepted(e) /\ exists' = exists \cup {e} /\ todo' = todo \ {e}
         /\ deleted' = {q \in deleted : e # <<"queue", q>>}
    /\ mon' = (IF todo' = {} THEN "watch" ELSE mon)
    /\ UNCHANGED <<def, held, manager, consumers, faults>>

\* (mutant) A failed declaration is only logged.
DeclareFailedLogged ==
    /\ mon = "declare" /\ ch = NoChan /\ mon' = "watch" /\ todo' = {}
    /\ UNCHANGED <<def, broker, manager, consumers, faults>>

\* The broker refuses and closes the channel, or the channel is closed.
DeclareFailed ==
    /\ mon = "declare" /\ mon' = "drop" /\ todo' = {}
    /\ \/ ch = NoChan /\ UNCHANGED <<ch, chan, exists, held, deleted, up>>
       \/ /\ ch # NoChan /\ \E e \in NextUp : ~Accepted(e)
          /\ CloseChannel(ch)
    /\ UNCHANGED <<def, closed, cancel, pc, faults>>

\* cm.conn.Close(), which returns an error when the connection is lost.
DropConnection ==
    /\ mon = "drop"
    /\ \/ up /\ mon' = "reconnect" /\ closed' = TRUE /\ CloseConnection(FALSE)
       \/ ~up /\ mon' = "watch" /\ UNCHANGED <<broker, up, ch, closed, chan>>
    /\ UNCHANGED <<def, cancel, todo, pc, faults>>

-----------------------------------------------------------------------------
(* The goroutine of a consumer.                                            *)

\* GetChannel. A failure is retried after a pause.
GetChannel(q) ==
    /\ pc[q] = "check" /\ ~closed /\ ch # NoChan
    /\ pc' = [pc EXCEPT ![q] = "consume"] /\ chan' = [chan EXCEPT ![q] = ch]
    /\ UNCHANGED <<def, broker, manager, monitor, faults>>

Subscribe(q) ==
    /\ pc[q] = "consume" /\ chan[q] # NoChan /\ <<"queue", q>> \in exists \ held
    /\ pc' = [pc EXCEPT ![q] = "receive"]
    /\ UNCHANGED <<def, broker, manager, monitor, chan, faults>>

\* Consume fails: the channel is closed, or the broker closes it because it
\* has no such queue or has locked it. The pause of five seconds after each
\* try makes a try between Dial and the end of the declarations bad luck.
SubscribeFailed(q) ==
    /\ pc[q] = "consume" /\ pc' = [pc EXCEPT ![q] = "check"]
    /\ \/ chan[q] = NoChan
          /\ UNCHANGED <<ch, chan, exists, held, deleted, up, faults>>
       \/ /\ chan[q] # NoChan /\ <<"queue", q>> \notin exists \ held
          /\ CloseChannel(chan[q])
          /\ IF mon = "watch" THEN UNCHANGED faults ELSE Fault
    /\ UNCHANGED <<def, closed, cancel, monitor>>

\* The delivery channel is closed: the range loop ends.
DeliveriesEnd(q) ==
    /\ pc[q] = "receive" /\ chan[q] = NoChan
    /\ pc' = [pc EXCEPT ![q] = "check"]
    /\ UNCHANGED <<def, broker, manager, monitor, chan, faults>>

-----------------------------------------------------------------------------

Monitor == ReopenChannel \/ Reconnect \/ Dial \/ DeclareNext \/ DeclareFailed
           \/ DropConnection

Consumer(q) ==
    GetChannel(q) \/ Subscribe(q) \/ SubscribeFailed(q) \/ DeliveriesEnd(q)

Failure == ConnectionLost \/ BrokerRestart \/ ChannelError
           \/ \E q \in Queues : QueueDeleted(q)

Next == Monitor \/ Notice \/ Failure \/ \E q \in Queues : Consumer(q)

Spec == Init /\ [][Next]_vars

\* The goroutines run, and the heartbeat of the broker notices the dead.
FairSpec == /\ Spec /\ WF_vars(Monitor) /\ WF_vars(Notice)
            /\ \A q \in Queues : WF_vars(Consumer(q))

-----------------------------------------------------------------------------
(* What the manager restores.                                              *)

\* Queues that may be gone for other reasons than a lost connection.
Volatile(q) == def[q].delete \/ q \in deleted

Lasting == Entities \ Gone({<<"queue", q>> : q \in {p \in Queues : Volatile(p)}})

\* At no point of a declaration, however it is interrupted, does a queue or
\* its DLQ exist without the queue its failed messages are routed to: a
\* message that is rejected in between would be lost (topology.go).
TargetsFirst ==
    \A q \in Queues :
        def[q].dlq /\ {<<"queue", q>>, <<"dlq", q>>} \cap exists # {}
            => FailTarget(q) \in exists

\* When the monitor is back in its loop with an open connection, the whole
\* topology is there again, whatever failed during the declarations, except
\* for queues that vanish by themselves and those an operator deleted.
DeclaredWhenIdle == mon = "watch" /\ up => Lasting \subseteq exists

\* Failures that end leave a declared topology behind: refused and
\* interrupted declarations are repeated until they succeed.
Redeclared == <>[](Lasting \subseteq exists)

\* When no queue is missing any more, every consumer is subscribed again at
\* some time and for good (README: "All registered consumers are
\* automatically restarted after connection recovery").
Restored ==
    <>[](\A q \in Queues : <<"queue", q>> \in exists) => <>[](Subscribed = Queues)

-----------------------------------------------------------------------------
(* What the documentation says, and the code does not do.                  *)

\* The same for each consumer by itself: the queue of another one is none of
\* its business.
EachRestored == \A q \in Queues : <>[](q \in Subscribed \/ Volatile(q))

=============================================================================
