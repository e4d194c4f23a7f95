# bunmq in TLA+

Specifications of bunmq, a Go library on top of the AMQP client for RabbitMQ:
the connection manager that reconnects, the topology it declares again, the
dispatcher that hands messages to handlers, the publisher, and the retry and
dead-letter queues between them. The modules are written from the Go source; RabbitMQ and
the AMQP client (amqp091-go) are modelled as far as that source relies on them.

    tlc -config Manager.cfg MCConnectionManager.tla
    tlapm ConnectionManagerProofs.tla

`PROJECT.json` lists components, runs, mutants, findings, hazards and theorems,
and maps every definition to the lines it models.

## The system

| component | source | state | operations |
|---|---|---|---|
| connection manager | `connection_manager.go`, `channel.go` | `conn`, `ch`, `closed`, `ctx`, `topology`, notice channels, one `RWMutex` | `NewConnectionManager`, `monitor`, `handleChannelFailure`, `handleConnectionFailure`, `GetChannel`, `IsHealthy`, `SetTopology`, `SetReconnectCallback`, `Close` |
| topology | `topology.go`, `queue.go` | definitions of queues, exchanges, bindings | builders, `Apply`, `DeclareAndBindings` |
| dispatcher | `dispatcher.go` | `consuming`, registered handlers, one goroutine per queue | `Register...`, `QoS`, `ConsumeBlocking`, `consume`, `processReceivedMessage`, `publishToDlq` |
| publisher | `publisher.go`, `options.go` | none | `Publish`, `PublishQueue`, `PublishDeadline`, ... |
| builders | `exchange.go`, `binding.go` | the value built | one assignment each |
| tracing, errors, mocks, examples | | | |

`Apply` creates a manager, which starts the monitor goroutine, declares the
topology over the manager's channel and hands the topology to the manager,
which declares it again after a reconnection. The dispatcher and the publisher
ask the manager for its channel each time they need one; all consumer
goroutines share that one channel. Failures arrive as notices on Go channels
that the AMQP library fills.

What is hard here:

* `closed` means both "Close was called" and "reconnecting"; the lock is taken
  and released several times in a reconnection, and held over network calls.
* What the manager hands out is replaced while callers hold it.
* Settlements are tied to the channel a message came over, the multiple flag
  reaches deliveries of other goroutines, and a channel that closes puts
  unsettled messages back while a handler still works on them.
* The retry count and the origin of a message live in the `x-death` header,
  which the broker rewrites on every death.
* The dead-letter targets of the three queues form a cycle.
* Everybody uses one channel, and the broker closes a channel on which it
  refuses a call: the declarations of the monitor, the `Consume` of each
  goroutine and every publication can end those of the others. The manager
  serves its callers again before it has declared the topology.
* A broker may notice a dead connection long after its successor came, and
  remove what the dead one owned from under it.
* The publisher writes into a map of its caller.

## Modules

| module | models |
|---|---|
| `ConnectionManager` | the monitor goroutine, `Apply` and `Close`, the network |
| `ManagedConnection` | abstract: what a caller may rely on about connection and channel |
| `Recovery` | what failures leave of topology and consumers: a shorter monitor, `DeclareAndBindings` step by step, the subscriptions, the broker's queues |
| `Dispatcher` | consumer goroutines and the settlement of messages |
| `MessageFate` | abstract: what becomes of a message in a queue with a DLQ |
| `RetryCycle` | main queue, retry queue and DLQ as declared, and the `x-death` header |
| `Registration` | registration of handlers and the choice of one for a message |
| `Publisher` | concurrent calls of the publisher on top of `ManagedConnection` |
| `MC...` | definitions and symmetry for the TLC configurations |
| `...Proofs` | theorems about the module they are named after |
| `SequenceLemmas` | facts about sequences that several of these use |

### ConnectionManager

`conn`, `ch`, `closed`, `cancelled` (`ctx` is done), `mu` and `hasTopology` are
the fields of the manager. `connErr` and `chErr` say that an error waits in the
notify channel of the connection and channel in place. `monPc` and `appPc` are
the program counters of the monitor goroutine and of the goroutine that calls
`Apply` and then `Close`, as often as it likes. `up`, `home` and `tags` are the
network: open connections, the connection each channel is open on, and unread
cancellation notices.

One action stands for the code between two points at which another goroutine
can be observed: lock operations, broker calls, the select. A read-only call
of another goroutine is not an action: what it returns is `GetChannelOk` or
`Serving` in the state of the call.

Details of the library that matter:

* A closed notify channel delivers nil. For the two error channels the monitor
  then does nothing; `chCancelNotify` has no nil check, so a closed channel is
  taken for a cancellation (`MonitorCancel`, first disjunct).
* The library's reader goroutine delivers a cancellation by a blocking send on
  a channel with room for one. The second unread notice blocks it (`Stalled`):
  no call over that connection returns and its loss is not noticed.
* A connection and its channels go down in one step.

What `ManagedConnection` promises: a connection and its channel are replaced
only while callers are turned away; a channel alone may be renewed while the
manager is open; nothing changes after the close. `Implements` maps `closed`
and `cancelled` to its `phase`.

`limit` is `MaxReconnectAttempts` of the options, 0 for none; a run may have
both. `delay` is the wait before the next attempt, in whole units of time: 1.5 times
the last one, rounded down, up to `BackoffMax`. `callback` says that a reconnect
callback is set. It is called without the lock after a channel was reopened
(`Notify`), and with the lock, which it then cannot take, by `connect`
(`ConnectInstall`); `CallbackReads` tells whether it calls the manager.

The code has three ends from which nothing recovers, and the liveness
properties name them instead of assuming them away: the attempts are used up
(`GaveUp`), a callback that calls the manager waits for the lock that `connect`
holds (`CallbackWaits`), the reader of the connection is blocked for good on
the buffer of cancellation notices (`[]Stalled(conn)`). So `Recovers`,
`ShutdownCompletes` and `CloseReturns` do not say that these are avoided; they
say that whatever else happens, the manager comes back, ends, and lets `Close`
return. Without any one of the exceptions `Recovers` is violated.

### Recovery

Two queues that are bound to the second of two linked exchanges, and
one consumer for each. `exists` is what the broker has: exchanges, queues with
their retry queue and DLQ, bindings. `todo` is the set of what is left of a
`DeclareAndBindings` in progress, one declaration per step. `NextUp` says what
may come next: exchanges, then queues, then bindings, and of a queue the retry
queue and the DLQ before the main one; the queues come in any order, as they are
kept in a map. `Accepted` says when the broker refuses:
an exclusive queue that another connection holds, a binding of something
missing. A refusal closes the channel (`CloseChannel`) for whoever uses it.

A lost connection is noticed by the broker at once or late. Late means that its
exclusive queues stay locked and its subscriptions go on counting (`held`)
until `Notice`. Channels fail, the broker restarts and forgets what is not
durable, an operator deletes queues, consumers are cancelled.

The manager is reduced to `ch`, `closed` and its loop; locks, attempts and
`Close` are in `ConnectionManager`. A variable that refers to a closed channel
becomes `NoChan`, and an open channel nobody refers to is reused.

### Dispatcher

`at` says where a message is, `unacked` lists the unsettled deliveries of a
channel in order (the delivery tags), `inbox` is what a goroutine has been
delivered, its current delivery first. `pc[q]` is where the goroutine of queue
`q` is. The manager is reduced to the channel it hands out (`ch`) and its
replacement (`ManagerReopens`). `last`, `invoked`, `requeued`, `unknownTag` and
`unpublished` are history: no guard reads them. Every settlement goes through
`Settle`, with the code's multiple flag: `Covered` are the deliveries that it
reaches, `Left` is what stays. The range loop takes a delivery in a step of its
own (`Receive`), so the channel may close between that and any settlement: the
`Ack` or `Nack` then fails, its error is ignored, and the message is both ready
again and on its way to the DLQ.

`MessageFate` says what this is good for: a message of a queue with a DLQ that
a handler understands waits until it is handled, buried in the DLQ, or lost by
a publication that failed, possibly more than one of these, and never comes
back once it left. `Fate` maps `at`, `last`, `dlq` and `unpublished` to it; a
message that is acknowledged but not yet in the DLQ counts as waiting.

### RetryCycle

`FailTarget`, `Target` and `Limit` are what `DeclareQueues` declares for a
`QueueDefinition`, the reuse of its table of arguments included. `Died` and
`Cycle` are RabbitMQ's rules for the header and for dropping a message that
goes in a circle. `XCount` and `Origin` are `extractMetadata`. `Trusted`
tells brokers before 4.0, which take the `x-death` header of a publisher for
their own, from later ones. One consumer handles one message at a time.

### Registration

The four register methods with all their refusals, in any order, and
`Accepting`/`Chosen` for `evaluateDefByReceivedMsg`. `Name` and `String` are
the two names of a Go type.

### Publisher

Each caller runs the publish methods, one call after another: the checks,
`GetChannel`, `Inject` (which writes the trace of the context into the headers),
and the hand-over to the library. `trace` is what the header maps hold. A map
is one the callers share, or, without a headers option, one that the publisher
makes; `HeadersOf` picks it as `optionsLookup` does. The manager is
`ManagedConnection`, whose steps are taken as they are, so it may be replaced,
suspended and closed at any time, and its channel may die (`dead`). `crashed` is
the end of the process by a panic or by Go's check for concurrent use of maps.
`overlaps` is history.

## Runs

| run | shows | bounds |
|---|---|---|
| `Manager` | safety of the manager, recovery, shutdown, return of `Close`, refinement of `ManagedConnection` | with no limit on the attempts and with a limit of 1, waits that grow from 2 to 4, a callback that calls the manager, 2 failures, 3 cancelled consumers, 3 connections, 5 channels |
| `Recovery` | topology and consumers are restored, targets of failed messages exist first | 3 failures, a durable queue with retries and a DLQ beside a queue of each other definition |
| `DispatcherSafety` | fate of messages in a queue of any definition, refinement of `MessageFate` | 2 messages of any kind, 2 failures, 1 retry, prefetch 2 |
| `DispatcherShared` | two queues on one channel drain, consumers come back | 1 message each, 1 failure besides the channels the dispatcher closes itself |
| `RetryCycle` | header, count, bound, losses, rest, all definitions | 3 messages, 2 retries, limits of 1 |
| `Handlers` | registrations, in all orders | 3 handlers, 2 types, 2 exchanges, 1 key, an undefined queue |
| `Publisher` | traces, results of the calls that do not wait, crashes | 2 callers, 3 calls of 8 sorts, 1 shared map, 2 channels |

Why the bounds are enough. In the manager a second failure during the recovery
from the first reaches every error path, and a third connection is the one
leaked while two are being exchanged. Objects are reused once closed and
unreferenced, so runs are not cut short for lack of them; those that are free
are alike, and `OneOf` takes one of them, which stands in for the symmetry that
liveness checking does not allow. Three cancelled consumers are one more than
fill the buffer and block the reader behind it. In the dispatcher
two messages are what the multiple flag and a stale tag need, and three or four
channels allow one in use, one just closed, and one still held by a goroutine.
`MaxDeaths` ends the count of the x-death header where no comparison tells the
higher values apart (it is at least `Retries`), not the rounds of a message.
In `RetryCycle` three messages let one overflow another while a third is being
handled, and two retries make an entry of the header be counted up. Three
handlers allow one before and one after another. In `Recovery` the third
failure can hit the repetition of a declaration that the second interrupted,
and the four channels are one in place and one still used by each consumer,
with one to spare. A consumer whose `Consume` is refused waits for five seconds, which
is longer than the declarations take; hitting them is therefore counted as a
failure (`SubscribeFailed`), or two consumers could defeat every redeclaration
for ever. In `Publisher` two calls overlap, and the third finds what
they left in the map; nil messages and `PublishDeadline` occur in their
plainest form only, since they end the program whatever else was passed.
Deadlock checking is off
everywhere: an application that is closed, or has no message left, stops.

Each property of a passing run is violated when one definition is replaced by
the operator marked `(mutant)` next to it, as listed in `PROJECT.json`.

### What the code does against its documentation

Each of these runs ends with the violation of one property.

| run | the code |
|---|---|
| `CloseDuringReconnect` | `Close` during a reconnection returns without an effect |
| `LostQueue` | a channel error removes an auto-deleted queue for ever, and its consumer then closes the shared channel again and again |
| `SharedChannel` | `Ack(true)` settles messages of other goroutines |
| `TypeNames` | publisher and dispatcher name a type differently |
| `Deadline` | `PublishDeadline` hands its message over and then ends the program |

`Deadline` is about the documentation of `PublishDeadline` (publisher.go:41 and
48, 99-109, README.md:298) and its tests (publisher_test.go:456-458 and
603-632), which expect an error and a published message. No channel is in
confirm mode, so the confirmation of publisher.go:125 is nil; waiting for it
dereferences the nil pointer. One caller and one call are enough.

Other disagreements show as an exception that a property of `Manager` makes, or
with other constants in the configurations above.

* README.md:51 promises monitoring with NotifyCancel. Without `[]Stalled(conn)`
  `Recovers` is violated: notices of cancelled consumers
  block the library's reader while the monitor, with the lock held, waits for
  the answer to `conn.Channel()` (connection_manager.go:195 and 245).
* README.md:413 sends messages to the DLQ whose processing fails permanently.
  With `Kinds = {"malformed"}` and only queues with retries and a DLQ,
  `Drains` is violated: the `Nack` of dispatcher.go:412 comes before the look at
  the retry count, and the message goes round the retry queue for ever.
* README.md:403 keeps failed messages in the DLQ for manual inspection, and line
  94 limits it. With `Trusted = FALSE` in `RetryCycle`, `Rests` is violated: the
  DLQ has the dead-letter target of the main queue (topology.go:242), so what
  it pushes out is processed again and pushes out others, for ever.
* Without `CallbackWaits`, `CloseReturns` and `Recovers` are violated: `connect`
  calls the callback with the lock held.

More of the kind is in the models and shows as an exception that a property
makes, or in a guard:

* after the last attempt, and during the wait between two, `Close` finds
  `closed` set and cannot end the monitor (`CloseLock`); a connection without a channel is not closed (`DialFailed`); a
  connection lost before `SetTopology` is never declared over
  (`RedeclaredOnReturn` asks for `hasTopology`);
* a message is acknowledged before it is published to the DLQ, and may be lost
  (`unpublished` in `NoSilentLoss`); a failed message without a DLQ is
  acknowledged twice, which closes the channel (with one consumer the only way
  to an unknown tag: `TagsKnown`; with several, `Ack(true)` is another); retries without a
  DLQ drop the message (`DeadLetter`), and with zero retries it is acknowledged
  before a handler sees it (dispatcher.go:417, `NeverRuns` in `NoSilentLoss`); consumers go on after the signal
  (`Check` is the only place that reads `consuming`); the prefetch limit is not
  set again (`ManagerReopens`);
* overflow of a queue with retries and a DLQ is dropped, as a cycle
  (`LostOnlyByOverflow`); the limit of a DLQ that is not declared applies to
  the main queue (`MainLimit`); what a DLQ pushes out may find no handler and
  is discarded (`OriginKept` asks for a DLQ without a limit);
* `Apply` that fails returns no manager, whose monitor and connection go on
  (`ApplyRefused`); the map of handlers is written without a lock while
  consumers may read it (dispatcher.go:162), as is the map of queues that the
  monitor ranges over (topology.go:77), unless registering and building are
  over before; an empty `x-death` header, which a broker never sends, ends the
  process (dispatcher.go:503);
* an earlier, wider registration takes the messages of an exact one (`Chosen`);
* a nil message, a nil map for a trace, a map that two calls have at once, and
  `PublishDeadline` (whose channel was never put in confirm mode) end the
  process (`CrashFree`); a call without a trace sends the one an earlier call
  left in the map, and calls that overlap send either trace (`OwnTrace` leaves
  both out);
* `SimplePublish` (publisher.go:74) says it publishes to a queue over the
  default exchange and publishes to an exchange of that name; it is not part of
  the `Publisher` interface and in no module.

### Fairness

Manager: goroutines that can run do run (weak fairness of `Monitor` and of the
steps of `Apply` and `Close` once begun; nobody has to call `Close`). Go's
select picks at random among ready cases, so a context that stays done is
noticed although other cases are ready again and again: strong fairness of
`MonitorStop`. A dial that is repeated for ever succeeds at some time: strong
fairness of `ConnectOk`; this is an assumption on the network, and needed only
for `Recovers`. Failures are bounded and never fair. Dispatcher: weak fairness
of each goroutine (a handler returns), of deliveries, of the retry TTL, and of
the manager's replacement of a channel, which is what `Recovers` shows of it.
`RetryCycle`: the same for its broker and its consumer. `Recovery`: weak fairness
of the monitor, of each consumer's goroutine and of the broker's heartbeat
(`Notice`); reconnecting is one step there, which succeeds as `Recovers` shows.
`Registration` has safety properties only. `Publisher`: a call that has begun
goes on (`FairSpec`), for `DeadlineReturns` alone.

## Proofs

Every safety property of the passing runs, invariant, action property or
refinement, is a theorem. The theorems hold for all values of the constants:
any sets of queues, messages, connections, channels and callers, any limits,
and any number of failures. They use the assumptions on constants that the
modules state and nothing else; tlapm checks them to the last leaf.

The pattern is the same everywhere. The property is seldom inductive, so an
invariant that implies it is named; lemmas say that the initial states satisfy
it and that each action keeps it; the theorem follows in a line. Each of these
invariants was checked by TLC before it was proved.

### ConnectionManagerProofs

* `TypeCorrect`: `TypeOK` is inductive by itself. The lemmas about the network
  operators carry the part that several actions share.
* `CancelledStaysClosed`, `CloseReleases`: `CancelledIsClosed` is not inductive:
  `Reopen` clears `closed`. The strengthening `CloseInv` adds who holds the
  lock where (`LockDiscipline`) and that from the look at the context to
  `Reopen` the manager is closed and not cancelled (`ReconnectionIsPrivate`);
  since `Close` returns early when `closed` is set, the context cannot be
  cancelled in that stretch. Both parts are theorems of their own.
* `NothingOpensAfterCancel`: from `CloseInv`, action by action: the actions
  that open something are at places where the context is not cancelled.
* `ChannelMatchesConnection`: `HomeInv` adds where the channel that is not yet
  installed was opened, through `connect` and through `handleChannelFailure`.
* `ReturnsRedeclared`: the action property, from `HomeInv`: the topology is
  declared over `ch`, whose connection is `conn`.
* `BackoffIsMonotone`: with the invariant that the delay is within the limit,
  from the two actions that change it; a limit below the first delay is
  excluded by the property.
* `ManagerImplements`: the refinement of `ManagedConnection`. Each action that
  assigns `conn`, `ch`, `closed` or ends the context is a step of it, by
  `CloseInv`; every other one is a stutter.

### RecoveryProofs

`RecoveryInv` adds two parts to the types.

* `TargetInv`: a queue or DLQ has its target, separately among the queues that
  the living connection owns or shares and among those a dead one still owns.
  `TargetsFirst` alone is not inductive: when the broker notices the death it
  removes the second group, and the first has to be complete without it.
* `DoneInv`: while the monitor watches an open connection, or declares over an
  open channel (`Serving`), what should last and is not in `todo` is there, and
  no exclusive queue outside `todo` is still locked. A failure either ends this,
  and the next declaration starts with everything in `todo`, or it removes only
  what `Lasting` leaves out.

`TargetsComeFirst` and `DeclaredWhenWatching` follow: back in the loop, `todo`
is empty. The first rests on the order within the queues of a definition
(`Before`). Of the order of the stages, all that is used is that a queue comes
before its binding.

### DispatcherProofs

For any number of queues on the channel:

* `TypeCorrect` says, too, that a goroutine past `GetChannel` has a channel
  (`HasChannel`). It needs `DeliveryInv`: a goroutine that works has its delivery
  (`LoopInv`), and a tag that is alive has a place among the unsettled
  deliveries of its channel (`BoxInv`).
* `RetriesAreBounded`: `RunInv` is an account. The calls made, the deliveries
  in the client that may still lead to a call (`Pending`) and those the broker
  can still make (`Ahead`) are paid for by `Retries` and by the requeues. Each
  action moves an amount from one of these to another.

With one consumer on the channel (`OneConsumer`, the antecedent of the other
four): with several, the multiple flag settles what others work on, and the
properties are false, as `SharedChannel` shows.

* `MirrorInv`: the inbox of the consumer mirrors the unsettled deliveries of
  its channel, shifted by one while the current one is settled. So a settlement
  with the multiple flag reaches the current delivery and no other.
* `HandInv` and `CauseInv`: what the goroutine has in its hands in each place of
  the loop, and why; `FreshInv` says that without a DLQ no message comes back
  from a retry queue.
* `NothingIsLost`, `OneFateOnly`, `NoUnknownTags` are parts of `CauseInv`.
  `MessagesAreKept` proves the refinement of `MessageFate` step by step: a
  settlement that removes a message is its handling, its burial or the pause
  before the publication, and everything else is a stutter.

### RetryCycleProofs

`CycleInv` says where a message is and what its header looks like there.

* `PlacedInv`: a message is in one queue once, or with the consumer, and only
  while it lives.
* `HeaderInv`, when the DLQ keeps what it holds: in the main queue and in the
  consumer's hand a message has no header, or exactly two entries, an expiry
  counted up to the number of its returns and before it the rejection that
  names the first origin (`Back`); in the retry queue it has the same two the
  other way round, or the rejection only (`Rejected`), or it overflowed the main
  queue (`Pushed`), and then the broker drops it on the way back as a cycle.
  The handler has run as often as the message returned.

`OriginStays`, `CountIsReturns`, `HandlerIsBounded` and `OnlyOverflowLoses` are
consequences. `DiedNew` and `DiedInTurn` compute the header after a death;
that a rejection is always among the latest two entries is why `Cycle` never
applies to a message that a handler rejected (`RejectedHeader`,
`ExpiredHeader`).

### RegistrationProofs

`OnceInv`: a handler carries the full name of the type it expects, and two
handlers of a queue share one only if one of them goes by exchange and key.
`TypesLeadToHandlers` follows for queues with handlers by type only.
`FirstHandlerStays` needs no invariant but the types: a registration appends,
and the least index that accepts a message stays the least.

### PublisherProofs

`HeadersInv`, `PhaseInv`, `ShareInv` and `TraceInv`: which map a call uses, what
it has done where it is, that calls which use one map at the same time know of
each other (`overlaps`), and that a map nobody shares holds what its call wrote.
`TraceIsOwn` is the last read at `Send`; `ResultIsHonest`, about the calls that
do not wait for a confirmation, and `CrashHasCause` come from `PhaseInv` and `ShareInv`. The manager may take any step of
`ManagedConnection` in between.

### Only model-checked

The liveness properties (`Recovers`, `ShutdownCompletes`, `CloseReturns`,
`Drains`, `Resubscribes`, `Rests`, `Redeclared`, `Restored`), which rest on
fairness and ENABLED, and the five violations. The broker's own rules (`Died`,
`Cycle`, the client's tags) are what the theorems start from.

## Not modelled

* Exchange and binding builders: they assign fields the broker gets unchanged.
  `Recovery` has the durability of exchanges, not their auto-delete flag.
* A queue that exists with other arguments: the broker refuses it for ever, and
  `Apply` fails (`ApplyRefused`).
* `WithTTL`, because `DeclareQueues` never uses the TTL.
* Spans and the extraction of a trace: they decide nothing.
* Marshalling beyond success and failure, bodies, message identifiers, the
  delivery mode.
* A topology that is extended after `Apply`, while the monitor may range over
  its map; the definitions are fixed in `Recovery`.
* `errors.go` (values), `mocks.go` (test doubles), `examples`.

## Plan

Done: the modules, and the theorems for every safety property of the runs.
What is left to prove goes beyond the properties of the runs:

1. What carries `Rests` when the DLQ keeps what it holds: a measure on a
   message that every step lowers or leaves alone.
2. What carries `Restored`: a subscription is only lost together with its
   channel or its queue.
3. `Publisher` in the place of the abstract manager: `ManagerImplements` gives
   the steps of the manager that `Publisher` takes from `ManagedConnection`.
4. The dispatcher with several queues: which messages keep their fate, those
   that no other goroutine's settlement can reach.
