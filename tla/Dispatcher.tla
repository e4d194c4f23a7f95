----------------------------- MODULE Dispatcher -----------------------------
(***************************************************************************)
(* The dispatcher of bunmq (dispatcher.go): one consumer goroutine per     *)
(* queue, all of them on the one channel of the connection manager, and    *)
(* the settlement of each message: acknowledged, sent to the retry queue   *)
(* or published to the dead-letter queue (DLQ).                            *)
(*                                                                         *)
(* A delivery tag is the place of a message in the sequence of unsettled   *)
(* deliveries of its channel. The manager appears only as the channel it   *)
(* hands out: see ConnectionManager for how it is replaced.                *)
(***************************************************************************)
EXTENDS Naturals, Sequences, SequencesExt

CONSTANTS
    Queues, Msgs,
    QueueOf,      \* the queue a message was published to
    Kinds,        \* the kinds of message that occur
    Configs,      \* the queue definitions that occur
    Retries,      \* QueueDefinition.retries
    Prefetch,     \* the limit set with QoS before consuming, 0 for none
    Chans, NoChan,
    MaxFaults,    \* bound: channels and connections that fail, consumers
                  \* that are cancelled
    MaxDeaths     \* bound: from here on the x-death count stays the same

ASSUME MessagesAssumption == QueueOf \in [Msgs -> Queues]
ASSUME KindsAssumption == Kinds \subseteq {"typed", "malformed", "unknown"}
ASSUME ConfigsAssumption == Configs \subseteq [retry : BOOLEAN, dlq : BOOLEAN]
ASSUME LimitsAssumption ==
    /\ Retries \in Nat /\ Prefetch \in Nat /\ MaxFaults \in Nat
    /\ MaxDeaths \in Nat /\ MaxDeaths >= Retries
ASSUME ChansAssumption == Chans # {} /\ NoChan \notin Chans

VARIABLES
    kind,       \* does the body unmarshal, is a handler registered
    conf,       \* withRetry and withDLQ of each queue
    at,         \* where a message is: its queue, a consumer, the retry queue
    deaths,     \* times it came back from the retry queue (x-death count)
    dlq,        \* messages with a copy in the DLQ
    open,       \* open channels
    unacked,    \* per channel, the unsettled deliveries in delivery order
    limited,    \* channels QoS was called on
    ch,         \* the channel GetChannel hands out, when it is open
    cancelSeen, \* a consumer was cancelled: the manager will replace ch
    consuming,  \* d.consuming
    pc,         \* where a consumer goroutine is
    chan,       \* the channel it called Consume on
    subscribed, \* queues with a live consumer
    inbox,      \* its undelivered and, first, its current delivery
    last,       \* history: what the last run of the handler returned
    invoked,    \* history: runs of the handler
    requeued,   \* history: times a channel closed before the settlement
    unknownTag, \* history: a settlement the broker knew no delivery for
    unpublished,\* history: messages whose publication to the DLQ failed
    faults

fixed    == <<kind, conf>>
channels == <<open, unacked, limited>>
stored   == <<at, deaths, dlq>>
links    == <<ch, cancelSeen>>
workers  == <<pc, chan, subscribed, inbox>>
history  == <<last, invoked, requeued, unknownTag, unpublished>>
vars == <<fixed, channels, stored, links, consuming, workers, history, faults>>

\* The goroutines that are past the receive of processReceivedMessage.
Busy ==
    {q \in Queues : pc[q] \in {"process", "handle", "publish", "ackAgain"}}

\* A delivery in the client: the x-death count is the one it came with, live
\* tells whether its tag is still unsettled.
Delivery == [msg : Msgs, count : 0..MaxDeaths, live : BOOLEAN]

\* Past the call of GetChannel a goroutine has a channel.
HasChannel ==
    \A q \in Queues : pc[q] \in {"check", "stopped"} \/ chan[q] \in Chans

TypeOK ==
    /\ kind \in [Msgs -> Kinds] /\ conf \in [Queues -> Configs]
    /\ at \in [Msgs -> {"ready", "unacked", "retry", "gone"}]
    /\ deaths \in [Msgs -> 0..MaxDeaths] /\ dlq \subseteq Msgs
    /\ open \subseteq Chans /\ limited \subseteq Chans
    /\ unacked \in [Chans -> Seq(Msgs)]
    /\ ch \in Chans /\ cancelSeen \in BOOLEAN /\ consuming \in BOOLEAN
    /\ pc \in [Queues -> {"check", "consume", "receive", "process", "handle",
                          "publish", "ackAgain", "stopped"}]
    /\ chan \in [Queues -> Chans \cup {NoChan}] /\ subscribed \subseteq Queues
    /\ HasChannel
    /\ inbox \in [Queues -> Seq(Delivery)]
    /\ last \in [Msgs -> {"none", "ok", "retryable", "error"}]
    /\ invoked \in [Msgs -> Nat] /\ requeued \in [Msgs -> Nat]
    /\ unknownTag \in BOOLEAN /\ unpublished \subseteq Msgs /\ faults \in Nat

Init ==
    /\ kind \in [Msgs -> Kinds] /\ conf \in [Queues -> Configs]
    /\ at = [m \in Msgs |-> "ready"] /\ deaths = [m \in Msgs |-> 0] /\ dlq = {}
    /\ ch = CHOOSE k \in Chans : TRUE
    /\ open = {ch} /\ limited = IF Prefetch > 0 THEN {ch} ELSE {}
    /\ unacked = [k \in Chans |-> <<>>] /\ cancelSeen = FALSE
    /\ consuming = TRUE
    /\ pc = [q \in Queues |-> "check"] /\ chan = [q \in Queues |-> NoChan]
    /\ subscribed = {} /\ inbox = [q \in Queues |-> <<>>]
    /\ last = [m \in Msgs |-> "none"] /\ invoked = [m \in Msgs |-> 0]
    /\ requeued = [m \in Msgs |-> 0] /\ unknownTag = FALSE
    /\ unpublished = {} /\ faults = 0

-----------------------------------------------------------------------------
(* The broker, as the dispatcher relies on it.                             *)

Fault == faults < MaxFaults /\ faults' = faults + 1

Current(q) == Head(inbox[q]).msg

\* Where a rejected message of queue q goes: x-dead-letter-routing-key of the
\* queue, which is declared only for a queue with a DLQ.
DeadLetter(q) ==
    IF ~conf[q].dlq THEN "dropped" ELSE IF conf[q].retry THEN "retry" ELSE "dlq"

\* The channels in K close: unsettled messages go back to their queues, the
\* consumers lose what they have not begun to process.
CloseChannels(K) ==
    LET back == UNION {Range(unacked[k]) : k \in K}
    IN  /\ open' = open \ K
        /\ unacked' = [k \in Chans |-> IF k \in K THEN <<>> ELSE unacked[k]]
        /\ at' = [m \in Msgs |-> IF m \in back THEN "ready" ELSE at[m]]
        /\ requeued' = [m \in Msgs |->
                          IF m \in back THEN requeued[m] + 1 ELSE requeued[m]]
        /\ subscribed' = {q \in subscribed : chan[q] \notin K}
        /\ UNCHANGED <<limited, deaths, dlq>>

\* Only the deliveries the goroutines in B are working on survive.
LostInbox(K, B) ==
    [q \in Queues |->
       IF chan[q] \notin K THEN inbox[q]
       ELSE IF q \in B THEN <<Head(inbox[q])>> ELSE <<>>]

Place(k, m) == CHOOSE i \in DOMAIN unacked[k] : unacked[k][i] = m

\* What a settlement of m over channel k covers, with the flag "multiple" the
\* deliveries before it, too; and what it leaves unsettled.
Covered(k, m, multiple) ==
    IF multiple THEN {unacked[k][i] : i \in 1..Place(k, m)} ELSE {m}
Left(k, m, multiple) ==
    IF multiple THEN SubSeq(unacked[k], Place(k, m) + 1, Len(unacked[k]))
    ELSE RemoveAt(unacked[k], Place(k, m))

Settled(k, m, multiple, dead) ==
    LET S == Covered(k, m, multiple)
    IN  /\ unacked' = [unacked EXCEPT ![k] = Left(k, m, multiple)]
        /\ at' = [x \in Msgs |->
                    IF x \notin S THEN at[x]
                    ELSE IF dead /\ DeadLetter(QueueOf[x]) = "retry" THEN "retry"
                    ELSE "gone"]
        /\ dlq' = dlq \cup {x \in S : dead /\ DeadLetter(QueueOf[x]) = "dlq"}
        /\ UNCHANGED <<open, limited, deaths, subscribed, requeued>>

\* Whoever else holds a delivery of S over channel k holds a tag that is no
\* longer valid.
Stale(k, S) ==
    [q \in Queues |->
       [i \in DOMAIN inbox[q] |->
          IF chan[q] = k /\ inbox[q][i].msg \in S
          THEN [inbox[q][i] EXCEPT !.live = FALSE] ELSE inbox[q][i]]]

\* The goroutine of q acknowledges or rejects (dead) its current delivery, on
\* the channel it came from. The error of a closed channel is ignored; a tag
\* the broker does not know closes the channel.
Settle(q, multiple, dead, done) ==
    LET k == chan[q]
        m == Current(q)
        Rest(box) == [box EXCEPT ![q] = IF done THEN Tail(@) ELSE @]
    IN  \/ /\ k \notin open /\ inbox' = Rest(inbox)
           /\ UNCHANGED <<channels, stored, subscribed, requeued, unknownTag>>
        \/ /\ k \in open /\ Head(inbox[q]).live
           /\ Settled(k, m, multiple, dead)
           /\ inbox' = Rest(Stale(k, Covered(k, m, multiple)))
           /\ UNCHANGED unknownTag
        \/ /\ k \in open /\ ~Head(inbox[q]).live
           /\ CloseChannels({k}) /\ inbox' = Rest(LostInbox({k}, Busy \cup {q}))
           /\ unknownTag' = TRUE

Deliver(q) ==
    /\ q \in subscribed
    /\ chan[q] \in limited => Len(unacked[chan[q]]) < Prefetch
    /\ \E m \in Msgs :
         /\ QueueOf[m] = q /\ at[m] = "ready"
         /\ at' = [at EXCEPT ![m] = "unacked"]
         /\ unacked' = [unacked EXCEPT ![chan[q]] = Append(@, m)]
         /\ inbox' = [inbox EXCEPT ![q] = Append(@,
                      [msg |-> m, count |-> deaths[m], live |-> TRUE])]
    /\ UNCHANGED <<fixed, open, limited, deaths, dlq, links, consuming, pc,
                   chan, subscribed, history, faults>>

\* The TTL of the retry queue passes: back to the original queue.
Expire(m) ==
    /\ at[m] = "retry" /\ at' = [at EXCEPT ![m] = "ready"]
    /\ deaths' = [deaths EXCEPT ![m] = IF @ < MaxDeaths THEN @ + 1 ELSE @]
    /\ UNCHANGED <<fixed, channels, dlq, links, consuming, workers, history,
                   faults>>

\* A channel fails, or the connection and every channel with it.
ChannelsFail ==
    /\ Fault
    /\ \E K \in {open} \cup {{k} : k \in open} :
         /\ K # {} /\ CloseChannels(K) /\ inbox' = LostInbox(K, Busy)
    /\ UNCHANGED <<fixed, links, consuming, pc, chan, last, invoked,
                   unknownTag, unpublished>>

\* basic.cancel: the deliveries already made can still be settled.
CancelConsumer(q) ==
    /\ q \in subscribed /\ Fault
    /\ subscribed' = subscribed \ {q} /\ cancelSeen' = TRUE
    /\ UNCHANGED <<fixed, channels, stored, ch, consuming, pc, chan, inbox,
                   history>>

\* Channels nothing refers to. They are alike, so a new one is any of them.
Unused == Chans \ (open \cup {ch} \cup {chan[q] : q \in Queues})

\* The connection manager installs a new channel; the QoS setting is not
\* repeated, a channel that is still open is not closed.
ManagerReopens ==
    /\ ch \notin open \/ cancelSeen
    /\ Unused # {} /\ ch' = CHOOSE k \in Unused : TRUE
    /\ open' = open \cup {ch'} /\ limited' = limited \ {ch'}
    /\ cancelSeen' = FALSE
    /\ UNCHANGED <<fixed, unacked, stored, consuming, workers, history, faults>>

-----------------------------------------------------------------------------
(* The consumer goroutine of queue q: consume.                             *)

Goto(q, l) == pc' = [pc EXCEPT ![q] = l]

\* (mutant) The error of GetChannel is only logged.
CheckNoContinue(q) ==
    /\ pc[q] = "check"
    /\ \/ ~consuming /\ Goto(q, "stopped") /\ UNCHANGED chan
       \/ consuming /\ Goto(q, "consume")
             /\ chan' = [chan EXCEPT ![q] = IF ch \in open THEN ch ELSE NoChan]
    /\ UNCHANGED <<fixed, channels, stored, links, consuming, subscribed,
                   inbox, history, faults>>

\* A channel is asked for until there is one.
Check(q) ==
    /\ pc[q] = "check"
    /\ \/ ~consuming /\ Goto(q, "stopped") /\ UNCHANGED chan
       \/ consuming /\ ch \in open /\ Goto(q, "consume")
             /\ chan' = [chan EXCEPT ![q] = ch]
    /\ UNCHANGED <<fixed, channels, stored, links, consuming, subscribed,
                   inbox, history, faults>>

Consume(q) ==
    /\ pc[q] = "consume" /\ chan[q] \in open
    /\ subscribed' = subscribed \cup {q} /\ Goto(q, "receive")
    /\ UNCHANGED <<fixed, channels, stored, links, consuming, chan, inbox,
                   history, faults>>

\* The channel closed since GetChannel, or the broker refuses and closes it.
ConsumeFailed(q) ==
    /\ pc[q] = "consume" /\ Goto(q, "check")
    /\ \/ /\ chan[q] \notin open
          /\ UNCHANGED <<channels, stored, subscribed, inbox, requeued, faults>>
       \/ /\ chan[q] \in open /\ Fault
          /\ CloseChannels({chan[q]}) /\ inbox' = LostInbox({chan[q]}, Busy)
    /\ UNCHANGED <<fixed, links, consuming, chan, last, invoked, unknownTag,
                   unpublished>>

\* (mutant) The consumer goroutine ends with its deliveries.
ResubscribeNever(q) ==
    /\ pc[q] = "receive" /\ q \notin subscribed /\ inbox[q] = <<>>
    /\ Goto(q, "stopped")
    /\ UNCHANGED <<fixed, channels, stored, links, consuming, chan,
                   subscribed, inbox, history, faults>>

\* The range loop ends: the deliveries are closed and drained.
Resubscribe(q) ==
    /\ pc[q] = "receive" /\ q \notin subscribed /\ inbox[q] = <<>>
    /\ Goto(q, "check")
    /\ UNCHANGED <<fixed, channels, stored, links, consuming, chan,
                   subscribed, inbox, history, faults>>

(* processReceivedMessage.                                                 *)

\* The range loop takes the next delivery, and with it the duty to settle it.
Receive(q) ==
    /\ pc[q] = "receive" /\ inbox[q] # <<>> /\ Goto(q, "process")
    /\ UNCHANGED <<fixed, channels, stored, links, consuming, chan,
                   subscribed, inbox, history, faults>>

Received(q, k) == pc[q] = "process" /\ kind[Current(q)] = k

\* (mutant) One retry too many.
ExhaustedLate(q) == conf[q].retry /\ Head(inbox[q]).count > Retries

Exhausted(q) == conf[q].retry /\ Head(inbox[q]).count >= Retries

DiscardUnknown(q) ==
    /\ Received(q, "unknown") /\ Goto(q, "receive")
    /\ Settle(q, FALSE, FALSE, TRUE)
    /\ UNCHANGED <<fixed, links, consuming, chan, last, invoked, unpublished,
                   faults>>

RejectMalformed(q) ==
    /\ Received(q, "malformed") /\ Goto(q, "receive")
    /\ Settle(q, TRUE, TRUE, TRUE)
    /\ UNCHANGED <<fixed, links, consuming, chan, last, invoked, unpublished,
                   faults>>

GiveUpRetrying(q) ==
    /\ Received(q, "typed") /\ Exhausted(q)
    /\ Settle(q, FALSE, FALSE, FALSE) /\ Goto(q, "publish")
    /\ UNCHANGED <<fixed, links, consuming, chan, last, invoked, unpublished,
                   faults>>

\* (mutant) The delivery is acknowledged before the handler runs.
CallHandlerAutoAck(q) ==
    /\ Received(q, "typed") /\ ~Exhausted(q)
    /\ Settle(q, FALSE, FALSE, FALSE)
    /\ invoked' = [invoked EXCEPT ![Current(q)] = @ + 1] /\ Goto(q, "handle")
    /\ UNCHANGED <<fixed, links, consuming, chan, last, unpublished, faults>>

CallHandler(q) ==
    /\ Received(q, "typed") /\ ~Exhausted(q)
    /\ invoked' = [invoked EXCEPT ![Current(q)] = @ + 1] /\ Goto(q, "handle")
    /\ UNCHANGED <<fixed, channels, stored, links, consuming, chan,
                   subscribed, inbox, last, requeued, unknownTag, unpublished,
                   faults>>

\* (mutant) The success path rejects the delivery.
HandlerReturnsNack(q) ==
    /\ pc[q] = "handle"
    /\ last' = [last EXCEPT ![Current(q)] = "ok"]
    /\ Settle(q, FALSE, TRUE, TRUE) /\ Goto(q, "receive")
    /\ UNCHANGED <<fixed, links, consuming, chan, invoked, unpublished, faults>>

\* One disjunct per way out of the code that follows the call of the handler.
HandlerReturns(q) ==
    /\ pc[q] = "handle"
    /\ \E result \in {"ok", "retryable", "error"} :
         /\ last' = [last EXCEPT ![Current(q)] = result]
         /\ \/ result = "ok"
               /\ Settle(q, TRUE, FALSE, TRUE) /\ Goto(q, "receive")
            \/ result = "retryable" /\ conf[q].retry
               /\ Settle(q, FALSE, TRUE, TRUE) /\ Goto(q, "receive")
            \/ result # "ok" /\ ~(result = "retryable" /\ conf[q].retry)
               /\ Settle(q, FALSE, FALSE, FALSE)
               /\ Goto(q, IF conf[q].dlq THEN "publish" ELSE "ackAgain")
    /\ UNCHANGED <<fixed, links, consuming, chan, invoked, unpublished, faults>>

\* (mutant) No return after the publication: the code falls through.
PublishToDlqFallThrough(q) ==
    /\ pc[q] = "publish" /\ Goto(q, "ackAgain")
    /\ IF ch \in open
       THEN dlq' = dlq \cup {Current(q)} /\ UNCHANGED unpublished
       ELSE unpublished' = unpublished \cup {Current(q)} /\ UNCHANGED dlq
    /\ UNCHANGED <<fixed, channels, at, deaths, links, consuming, chan,
                   subscribed, inbox, last, invoked, requeued, unknownTag,
                   faults>>

\* publishToDlq: the error of an unavailable channel is only logged. The DLQ
\* has a name only in the definition of a queue with a DLQ.
PublishToDlq(q) ==
    /\ pc[q] = "publish" /\ Goto(q, "receive")
    /\ IF ch \in open
       THEN /\ dlq' = dlq \cup (IF conf[q].dlq THEN {Current(q)} ELSE {})
            /\ UNCHANGED unpublished
       ELSE unpublished' = unpublished \cup {Current(q)} /\ UNCHANGED dlq
    /\ inbox' = [inbox EXCEPT ![q] = Tail(@)]
    /\ UNCHANGED <<fixed, channels, at, deaths, links, consuming, chan,
                   subscribed, last, invoked, requeued, unknownTag, faults>>

\* A failed message without a DLQ is acknowledged, then the code falls
\* through to the acknowledgement of the success path.
AckAgain(q) ==
    /\ pc[q] = "ackAgain" /\ Goto(q, "receive")
    /\ Settle(q, TRUE, FALSE, TRUE)
    /\ UNCHANGED <<fixed, links, consuming, chan, last, invoked, unpublished,
                   faults>>

\* ConsumeBlocking is woken by a signal and returns.
Signal ==
    /\ consuming /\ consuming' = FALSE
    /\ UNCHANGED <<fixed, channels, stored, links, workers, history, faults>>

-----------------------------------------------------------------------------

Consumer(q) ==
    \/ Check(q) \/ Consume(q) \/ ConsumeFailed(q) \/ Resubscribe(q)
    \/ Receive(q) \/ DiscardUnknown(q) \/ RejectMalformed(q)
    \/ GiveUpRetrying(q) \/ CallHandler(q) \/ HandlerReturns(q)
    \/ PublishToDlq(q) \/ AckAgain(q)

Next ==
    \/ \E q \in Queues : Consumer(q) \/ Deliver(q) \/ CancelConsumer(q)
    \/ \E m \in Msgs : Expire(m)
    \/ ChannelsFail \/ ManagerReopens \/ Signal

Spec == Init /\ [][Next]_vars

\* The goroutines run, a handler returns, the broker delivers what it holds,
\* the TTL passes, the manager replaces a channel that is down. Faults and
\* signals need not happen.
Fairness ==
    /\ \A q \in Queues : WF_vars(Consumer(q)) /\ WF_vars(Deliver(q))
    /\ \A m \in Msgs : WF_vars(Expire(m))
    /\ WF_vars(ManagerReopens)

FairSpec == Spec /\ Fairness

-----------------------------------------------------------------------------
(* What the dispatcher guarantees.                                         *)

Holds(q, m) == q \in Busy /\ Current(q) = m

\* With retries of which none is allowed, every message is one too many.
NeverRuns(q) == conf[q].retry /\ Retries = 0

\* A message a handler understands leaves the queues only if the handler
\* took it, it is in the DLQ or on its way there, the publication to the DLQ
\* failed, or the queue has no DLQ and the handler failed or never runs.
NoSilentLoss ==
    \A m \in Msgs : kind[m] = "typed" /\ at[m] = "gone" =>
        \/ last[m] = "ok" \/ m \in dlq \/ m \in unpublished
        \/ pc[QueueOf[m]] = "publish" /\ Holds(QueueOf[m], m)
        \/ /\ ~conf[QueueOf[m]].dlq
           /\ last[m] \in {"error", "retryable"} \/ NeverRuns(QueueOf[m])

\* The handler of a queue with retries sees a message at most Retries times,
\* plus once for every time a channel closed under it.
RetryBound ==
    \A m \in Msgs : conf[QueueOf[m]].retry =>
        invoked[m] <= Retries + requeued[m]

\* No message is both taken by the handler and dead-lettered, unless it was
\* delivered again after a channel closed.
OneFate ==
    \A m \in Msgs : last[m] = "ok" /\ m \in dlq => requeued[m] > 0

\* With a DLQ, the dispatcher never settles a delivery twice.
TagsKnown == (\A q \in Queues : conf[q].dlq) => ~unknownTag

\* Every message that is not rejected for ever leaves the queues, while
\* nobody asked the dispatcher to stop.
Drains == \A m \in Msgs : <>(at[m] = "gone" \/ ~consuming)

\* A consumer comes back after its channel is lost or it is cancelled.
Resubscribes == \A q \in Queues : consuming ~> q \in subscribed \/ ~consuming

-----------------------------------------------------------------------------
(* The dispatcher as the publishers of messages see it.                    *)

Kept == {m \in Msgs : kind[m] = "typed" /\ conf[QueueOf[m]].dlq}

\* A message that was acknowledged and is about to be published to the DLQ is
\* in nobody's hands but the goroutine's.
InHand(m) == pc[QueueOf[m]] = "publish" /\ Holds(QueueOf[m], m)

Fate == INSTANCE MessageFate WITH
    kept <- Kept,
    waiting <- {m \in Kept : at[m] # "gone" \/ InHand(m)},
    handled <- {m \in Kept : last[m] = "ok"},
    dead <- dlq \cap Kept,
    lost <- unpublished \cap Kept

\* With one consumer on the channel, the dispatcher implements at-least-once
\* processing: a message leaves only handled, buried or with a publication
\* that failed, and a message that left is never processed again.
KeepsMessages == Fate!Spec

-----------------------------------------------------------------------------
(* What the documentation says, and the code does not do.                  *)

\* queue.go: "Failed messages will be moved to a retry queue": a message
\* whose handler asked for a retry is not gone.
RetryableIsKept ==
    \A m \in Msgs : last[m] = "retryable" /\ conf[QueueOf[m]].retry =>
        at[m] # "gone" \/ m \in dlq \/ Holds(QueueOf[m], m)

=============================================================================
