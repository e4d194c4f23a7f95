----------------------------- MODULE RetryCycle -----------------------------
(***************************************************************************)
(* One queue of a topology with its retry queue and its dead-letter queue  *)
(* (DLQ): how DeclareQueues (topology.go) connects the three, and what the *)
(* dispatcher (dispatcher.go) reads back from the x-death header a message *)
(* collects on its way: the retry count, and the exchange and routing key  *)
(* it was first published with.                                            *)
(*                                                                         *)
(* The module follows well-formed messages over one consumer. Settlement,  *)
(* prefetching and failing channels are the subject of Dispatcher.         *)
(***************************************************************************)
EXTENDS Naturals, Sequences, SequencesExt

CONSTANTS
    Msgs,
    None,        \* no message, no queue
    Published,   \* the exchange and routing key the publisher uses
    Definitions, \* the queue definitions that occur
    Retries,     \* QueueDefinition.retries
    Trusted,     \* the broker takes the x-death header of a publisher for its
                 \* own (RabbitMQ before 4.0)
    MaxCount     \* bound: counts in the header stop here

Names == {"main", "retry", "dlq"}

\* QueueDefinition: withRetry, withDLQ, the two limits (0: not set), and
\* whether its handler is registered by exchange or by type.
DefinitionType ==
    [retry : BOOLEAN, dlq : BOOLEAN, limit : Nat, dlqLimit : Nat,
     byExchange : BOOLEAN]

ASSUME NamesAssumption ==
    None \notin Msgs \cup Names /\ Published \notin Names
ASSUME DefinitionsAssumption == \A d \in Definitions : d \in DefinitionType
ASSUME CountsAssumption ==
    Retries \in Nat /\ MaxCount \in Nat /\ MaxCount > Retries
ASSUME TrustedAssumption == Trusted \in BOOLEAN

VARIABLES
    def,        \* the definition of the queue
    queue,      \* the messages that are ready in each queue
    hand,       \* the delivery the consumer works on
    deaths,     \* the x-death header of a message, latest entry first
    from,       \* the exchange and key it entered its queue with; a queue
                \* name stands for the default exchange and that key
    fate,       \* new, live, or how the message left the queues
    runs,       \* history: runs of the handler
    returns,    \* history: times it came back from the retry queue
    overflowed  \* history: messages that overflowed the main queue

vars == <<def, queue, hand, deaths, from, fate, runs, returns, overflowed>>

Sources == Names \cup {Published}

\* An entry of the header: only the retry queue has a TTL and no limit, and
\* only the main queue has a consumer.
Entry ==
    {e \in [queue : Names, reason : {"rejected", "expired", "maxlen"},
            count : 1..MaxCount, from : Sources] :
        /\ e.queue = "retry" <=> e.reason = "expired"
        /\ e.reason = "rejected" => e.queue = "main"}

TypeOK ==
    /\ def \in Definitions /\ queue \in [Names -> Seq(Msgs)]
    /\ hand \in Msgs \cup {None} /\ deaths \in [Msgs -> Seq(Entry)]
    /\ from \in [Msgs -> Sources]
    /\ fate \in [Msgs -> {"new", "live", "taken", "skipped", "dropped"}]
    /\ runs \in [Msgs -> 0..MaxCount] /\ returns \in [Msgs -> 0..MaxCount]
    /\ overflowed \subseteq Msgs

Init ==
    /\ def \in Definitions
    /\ queue = [q \in Names |-> <<>>] /\ hand = None
    /\ deaths = [m \in Msgs |-> <<>>] /\ from = [m \in Msgs |-> Published]
    /\ fate = [m \in Msgs |-> "new"] /\ overflowed = {}
    /\ runs = [m \in Msgs |-> 0] /\ returns = [m \in Msgs |-> 0]

-----------------------------------------------------------------------------
(* What DeclareQueues declares: x-dead-letter-routing-key and x-max-length *)
(* of the queues. One table of arguments serves the DLQ and the main queue.*)

FailTarget ==
    IF ~def.dlq THEN None ELSE IF def.retry THEN "retry" ELSE "dlq"

Target(q) == IF q = "retry" THEN "main" ELSE FailTarget

\* The limit of the DLQ is taken out of the table only after a DLQ was
\* declared with it.
MainLimit ==
    IF def.limit > 0 THEN def.limit
    ELSE IF def.dlq THEN 0 ELSE def.dlqLimit

\* (mutant) The retry queue is declared with the limit of the DLQ as well.
LimitAlsoRetry(q) == IF q = "main" THEN MainLimit ELSE def.dlqLimit

Limit(q) == CASE q = "main" -> MainLimit
              [] q = "retry" -> 0
              [] q = "dlq" -> def.dlqLimit

Overfull(q) == Limit(q) > 0 /\ Len(queue[q]) > Limit(q)

-----------------------------------------------------------------------------
(* The broker: dead lettering.                                             *)

Capped(n) == IF n < MaxCount THEN n + 1 ELSE n

\* The header after a death: the entry of this queue and reason is counted up
\* and moved to the front, the others stay in order.
Died(m, q, reason) ==
    LET header == deaths[m]
        same == {i \in DOMAIN header :
                    header[i].queue = q /\ header[i].reason = reason}
        old == CHOOSE i \in same : TRUE
    IN  IF same = {}
        THEN <<[queue |-> q, reason |-> reason, count |-> 1, from |-> from[m]]>>
             \o header
        ELSE <<[header[old] EXCEPT !.count = Capped(@)]>>
             \o RemoveAt(header, old)

\* The broker drops a message that would come back to a queue it died in,
\* when no consumer rejected it on the way.
Cycle(header, q) ==
    \E i \in DOMAIN header :
        /\ header[i].queue = q
        /\ \A j \in 1..i : header[j].reason # "rejected"

\* m, which is no longer in the queues of rest, dies in q.
DeadLetter(m, q, reason, rest) ==
    LET header == Died(m, q, reason)
        lost == Target(q) = None \/ Cycle(header, Target(q))
    IN  IF lost
        THEN /\ fate' = [fate EXCEPT ![m] = "dropped"]
             /\ queue' = rest /\ UNCHANGED <<deaths, from>>
        ELSE /\ queue' = [rest EXCEPT ![Target(q)] = Append(@, m)]
             /\ deaths' = [deaths EXCEPT ![m] = header]
             /\ from' = [from EXCEPT ![m] = Target(q)]
             /\ UNCHANGED fate

Popped(q) == [queue EXCEPT ![q] = Tail(@)]

Publish(m) ==
    /\ fate[m] = "new" /\ ~Overfull("main")
    /\ fate' = [fate EXCEPT ![m] = "live"]
    /\ queue' = [queue EXCEPT !["main"] = Append(@, m)]
    /\ UNCHANGED <<def, hand, deaths, from, runs, returns, overflowed>>

\* The oldest message makes room for the newest.
Overflow(q) ==
    /\ Overfull(q) /\ DeadLetter(Head(queue[q]), q, "maxlen", Popped(q))
    /\ overflowed' = overflowed \cup
                       (IF q = "main" THEN {Head(queue[q])} ELSE {})
    /\ UNCHANGED <<def, hand, runs, returns>>

\* The TTL of the retry queue.
Expire ==
    /\ queue["retry"] # <<>> /\ ~Overfull("main")
    /\ LET m == Head(queue["retry"])
       IN  /\ DeadLetter(m, "retry", "expired", Popped("retry"))
           /\ returns' = [returns EXCEPT ![m] = Capped(@)]
    /\ UNCHANGED <<def, hand, runs, overflowed>>

Deliver ==
    /\ hand = None /\ queue["main"] # <<>> /\ ~Overfull("main")
    /\ hand' = Head(queue["main"]) /\ queue' = Popped("main")
    /\ UNCHANGED <<def, deaths, from, fate, runs, returns, overflowed>>

-----------------------------------------------------------------------------
(* The dispatcher: extractMetadata and processReceivedMessage.             *)

\* (mutant) The number of entries is taken for the number of deaths.
XCountEntries(m) == Len(deaths[m])

XCount(m) == IF deaths[m] = <<>> THEN 0 ELSE Head(deaths[m]).count

\* (mutant) The latest death instead of the first.
OriginLatest(m) == IF deaths[m] = <<>> THEN from[m] ELSE Head(deaths[m]).from

Origin(m) == IF deaths[m] = <<>> THEN from[m] ELSE Last(deaths[m]).from

\* evaluateDefByReceivedMsg finds the one handler of the queue.
Matched(m) == def.byExchange => Origin(m) = Published

\* (mutant) One retry too many.
ExhaustedLate(m) == def.retry /\ XCount(m) > Retries

\* (mutant) The count is never compared.
ExhaustedNever(m) == def.retry /\ XCount(m) < 0

Exhausted(m) == def.retry /\ XCount(m) >= Retries

Leave(m, how) ==
    fate' = [fate EXCEPT ![m] = how] /\ UNCHANGED <<queue, deaths, from>>

\* publishToDlq after the acknowledgement. A queue without a DLQ has no
\* dqlName, and the broker drops a message for the queue "".
ToDlq(m) ==
    \/ ~def.dlq /\ Leave(m, "dropped")
    \/ /\ def.dlq /\ queue' = [queue EXCEPT !["dlq"] = Append(@, m)]
       /\ from' = [from EXCEPT ![m] = "dlq"]
       /\ deaths' = IF Trusted THEN deaths ELSE [deaths EXCEPT ![m] = <<>>]
       /\ UNCHANGED fate

Discard ==
    /\ hand # None /\ ~Matched(hand) /\ hand' = None
    /\ Leave(hand, "skipped")
    /\ UNCHANGED <<def, runs, returns, overflowed>>

\* (mutant) The message is acknowledged and not published.
GiveUpRetryingAckOnly ==
    /\ hand # None /\ Matched(hand) /\ Exhausted(hand) /\ hand' = None
    /\ Leave(hand, "dropped")
    /\ UNCHANGED <<def, runs, returns, overflowed>>

GiveUpRetrying ==
    /\ hand # None /\ Matched(hand) /\ Exhausted(hand) /\ hand' = None
    /\ ~Overfull("dlq") /\ ToDlq(hand)
    /\ UNCHANGED <<def, runs, returns, overflowed>>

Handle(result) ==
    /\ hand # None /\ Matched(hand) /\ ~Exhausted(hand) /\ hand' = None
    /\ ~Overfull("dlq")
    /\ runs' = [runs EXCEPT ![hand] = Capped(@)]
    /\ \/ result = "ok" /\ Leave(hand, "taken")
       \/ result = "retryable" /\ def.retry
             /\ DeadLetter(hand, "main", "rejected", queue)
       \/ result # "ok" /\ ~(result = "retryable" /\ def.retry)
             /\ ToDlq(hand)
    /\ UNCHANGED <<def, returns, overflowed>>

-----------------------------------------------------------------------------

Broker == (\E q \in Names : Overflow(q)) \/ Expire \/ Deliver

Dispatcher ==
    \/ Discard \/ GiveUpRetrying
    \/ \E result \in {"ok", "retryable", "error"} : Handle(result)

Next == (\E m \in Msgs : Publish(m)) \/ Broker \/ Dispatcher

Spec == Init /\ [][Next]_vars

\* The TTL passes, the broker delivers, the handler returns.
FairSpec ==
    /\ Spec /\ WF_vars(Expire) /\ WF_vars(Deliver) /\ WF_vars(Dispatcher)
    /\ \A q \in Names : WF_vars(Overflow(q))

-----------------------------------------------------------------------------
(* What the topology and the dispatcher guarantee together.                *)

\* The messages the consumer has, or will have next.
Arriving == Range(queue["main"]) \cup ({hand} \ {None})

\* As long as the DLQ keeps what it holds, a message comes back from the
\* retry queue with the exchange and routing key it was published with,
\* however often it went round: its handler is found again.
OriginKept ==
    def.dlqLimit = 0 => \A m \in Arriving : Origin(m) = Published

\* The count the dispatcher compares with Retries, that of the latest entry,
\* is the number of times the message came back from the retry queue.
CountsReturns ==
    def.dlqLimit = 0 => \A m \in Arriving : XCount(m) = returns[m]

\* With retries the handler sees a message at most Retries times.
HandlerBound ==
    def.retry /\ def.dlqLimit = 0 => \A m \in Msgs : runs[m] <= Retries

\* With a DLQ whose length is not limited no message is lost, except those
\* that overflowed the main queue.
LostOnlyByOverflow ==
    def.dlq /\ def.dlqLimit = 0 =>
        \A m \in Msgs : fate[m] \in {"skipped", "dropped"} => m \in overflowed

\* Every message comes to rest: a handler took it, or it stays in the DLQ
\* (README: "Failed messages are automatically routed to dead letter queues
\* for manual inspection"), or it is lost. With a limit on the DLQ this takes
\* a broker that trusts the header, and ends the cycle.
Rested(m) == fate[m] # "live" \/ m \in Range(queue["dlq"])
Rests == \A m \in Msgs : <>[]Rested(m)

=============================================================================
