---------------------------- MODULE Registration ----------------------------
(***************************************************************************)
(* The handlers of the dispatcher (dispatcher.go): how they are registered *)
(* and which of them a received message goes to, with the type name that   *)
(* the publisher (publisher.go) puts on a message.                         *)
(*                                                                         *)
(* The application registers its handlers one after the other, before it   *)
(* starts to consume.                                                      *)
(***************************************************************************)
EXTENDS Naturals, Sequences

CONSTANTS
    Types,        \* Go types
    Named,        \* those that have a name: t.Name() is not empty
    Exchanges, Keys,
    Queues,
    Defined,      \* the queues the dispatcher has a definition of
    Nothing,      \* the nil message, the empty name of a queue, too
    MaxHandlers   \* bound: handlers registered for a queue

ASSUME NamedAssumption == Named \subseteq Types
ASSUME DefinedAssumption == Defined \subseteq Queues
ASSUME NothingAssumption ==
    Nothing \notin Types \cup Exchanges \cup Keys \cup Queues
ASSUME HandlersAssumption == MaxHandlers \in Nat

VARIABLES
    consumers,  \* d.consumersDefinition, per queue
    result      \* what the last registration returned

vars == <<consumers, result>>

\* t.Name() and t.String(), the latter with the name of the package.
Name(t) == <<"Name", t>>
String(t) == <<"String", t>>

Kinds == {"type", "exchange", "key", "exchangeKey"}

\* A ConsumerDefinition. of is the type its handler expects; only the
\* fields its kind is matched by are set.
Consumer ==
    {c \in [typ : Kinds, msgType : {String(t) : t \in Types}, of : Types,
            exchange : Exchanges \cup {Nothing}, key : Keys \cup {Nothing}] :
        /\ c.exchange # Nothing <=> c.typ \in {"exchange", "exchangeKey"}
        /\ c.key # Nothing <=> c.typ \in {"key", "exchangeKey"}}

Results == {"ok", "invalid", "registered", "unknownQueue"}

TypeOK == consumers \in [Queues -> Seq(Consumer)] /\ result \in Results

Init == consumers = [q \in Queues |-> <<>>] /\ result = "ok"

-----------------------------------------------------------------------------
(* Registration.                                                           *)

Refuse(why) == result' = why /\ UNCHANGED consumers

Registered(q, t) == \E i \in DOMAIN consumers[q] :
    consumers[q][i].msgType = String(t)

\* (mutant) The newest handler comes first.
AddInFront(q, typ, t, e, k) ==
    /\ Len(consumers[q]) < MaxHandlers /\ result' = "ok"
    /\ consumers' = [consumers EXCEPT ![q] =
           <<[typ |-> typ, msgType |-> String(t), of |-> t,
              exchange |-> e, key |-> k]>> \o @]

Add(q, typ, t, e, k) ==
    /\ Len(consumers[q]) < MaxHandlers /\ result' = "ok"
    /\ consumers' = [consumers EXCEPT ![q] = Append(@,
           [typ |-> typ, msgType |-> String(t), of |-> t,
            exchange |-> e, key |-> k])]

\* (mutant) A type can be registered again.
RegisterUnchecked(q, typ, t, e, k) ==
    \/ q \notin Defined /\ Refuse("unknownQueue")
    \/ q \in Defined /\ Add(q, typ, t, e, k)

\* RegisterByType, RegisterByExchange and RegisterByRoutingKey once their
\* parameters are found valid.
RegisterOnce(q, typ, t, e, k) ==
    \/ Registered(q, t) /\ Refuse("registered")
    \/ ~Registered(q, t) /\ q \notin Defined /\ Refuse("unknownQueue")
    \/ ~Registered(q, t) /\ q \in Defined /\ Add(q, typ, t, e, k)

RegisterByType(q, t) ==
    \/ Nothing \in {q, t} /\ Refuse("invalid")
    \/ Nothing \notin {q, t} /\ RegisterOnce(q, "type", t, Nothing, Nothing)

RegisterByExchange(q, t, e) ==
    \/ Nothing \in {q, t, e} /\ Refuse("invalid")
    \/ Nothing \notin {q, t, e} /\ RegisterOnce(q, "exchange", t, e, Nothing)

\* (mutant) The routing key is not required.
RegisterByRoutingKeyLax(q, t, k) ==
    \/ Nothing \in {q, t} /\ Refuse("invalid")
    \/ Nothing \notin {q, t} /\ RegisterOnce(q, "key", t, Nothing, k)

RegisterByRoutingKey(q, t, k) ==
    \/ Nothing \in {q, t, k} /\ Refuse("invalid")
    \/ Nothing \notin {q, t, k} /\ RegisterOnce(q, "key", t, Nothing, k)

\* Without the look for a handler of the same type.
RegisterByExchangeRoutingKey(q, t, e, k) ==
    \/ Nothing \in {q, t, e, k} /\ Refuse("invalid")
    \/ Nothing \notin {q, t, e, k} /\ q \notin Defined /\ Refuse("unknownQueue")
    \/ Nothing \notin {q, t, e, k} /\ q \in Defined
          /\ Add(q, "exchangeKey", t, e, k)

Next ==
    \E q \in Queues \cup {Nothing}, t \in Types \cup {Nothing},
       e \in Exchanges \cup {Nothing}, k \in Keys \cup {Nothing} :
        \/ RegisterByType(q, t) \/ RegisterByExchange(q, t, e)
        \/ RegisterByRoutingKey(q, t, k)
        \/ RegisterByExchangeRoutingKey(q, t, e, k)

Spec == Init /\ [][Next]_vars

-----------------------------------------------------------------------------
(* Publishing and receiving.                                               *)

\* The type of a message that publishing puts together.
PublishedType(t) == IF t \in Named THEN Name(t) ELSE String(t)

\* A received message, as evaluateDefByReceivedMsg sees it. Its type is the
\* publisher's, or one that another program chose; the default exchange has
\* the empty name.
Message ==
    [type : {Name(t) : t \in Types} \cup {String(t) : t \in Types},
     exchange : Exchanges \cup {Nothing}, key : Keys \cup {Nothing}]

Accepts(c, m) ==
    CASE c.typ = "type" -> c.msgType = m.type
      [] c.typ = "exchange" -> c.exchange = m.exchange
      [] c.typ = "key" -> c.key = m.key
      [] c.typ = "exchangeKey" -> c.exchange = m.exchange /\ c.key = m.key

\* The consumers of q that accept m; the first of them gets it. The message
\* is discarded when there is none.
Accepting(q, m) == {i \in DOMAIN consumers[q] : Accepts(consumers[q][i], m)}
Chosen(q, m) == CHOOSE i \in Accepting(q, m) : \A j \in Accepting(q, m) : i <= j

-----------------------------------------------------------------------------
(* What registration guarantees.                                           *)

\* In a queue whose handlers are all registered by type, a message that
\* carries the full name of a registered type goes to the handler of the
\* type, whatever the order of the registrations.
TypesAreAddressed ==
    \A q \in Queues :
        (\A i \in DOMAIN consumers[q] : consumers[q][i].typ = "type") =>
            \A i \in DOMAIN consumers[q], m \in Message :
                m.type = String(consumers[q][i].of) => Accepting(q, m) = {i}

\* Registering another handler never takes a message away from the handler
\* that has it.
LaterDoesNotSteal ==
    [][\A q \in Queues, m \in Message :
         Accepting(q, m) # {} =>
            /\ Accepting(q, m)' # {}
            /\ consumers'[q][Chosen(q, m)'] = consumers[q][Chosen(q, m)]]_vars

-----------------------------------------------------------------------------
(* What the documentation says, and the code does not do.                  *)

\* RegisterByType "ensures that messages from the specified queue are
\* processed by the handler": a message published with that type is not
\* discarded.
PublishedIsHandled ==
    \A q \in Queues : \A i \in DOMAIN consumers[q], m \in Message :
        consumers[q][i].typ = "type"
            /\ m.type = PublishedType(consumers[q][i].of)
                => Accepting(q, m) # {}

=============================================================================
