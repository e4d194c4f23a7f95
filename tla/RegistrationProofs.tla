------------------------- MODULE RegistrationProofs -------------------------
(* Theorems about Registration, for every value of its constants.          *)
EXTENDS Registration, SequenceLemmas

\* A registered handler carries the full name of the type that it expects,
\* and two handlers of a queue share one only when one of them was registered
\* by exchange and routing key, which does not look for the type.
OnceInv ==
    \A q \in Queues :
        /\ \A i \in DOMAIN consumers[q] :
              consumers[q][i].msgType = String(consumers[q][i].of)
        /\ \A i, j \in DOMAIN consumers[q] :
              consumers[q][i].msgType = consumers[q][j].msgType =>
                  \/ i = j
                  \/ consumers[q][i].typ = "exchangeKey"
                  \/ consumers[q][j].typ = "exchangeKey"

RegistrationInv == TypeOK /\ OnceInv

\* What every way to register does: it refuses, or appends one handler.
Registers ==
    \/ consumers' = consumers /\ result' \in Results
    \/ \E q \in Queues, c \in Consumer :
         /\ c.msgType = String(c.of)
         /\ c.typ = "exchangeKey" \/ ~Registered(q, c.of)
         /\ result' \in Results
         /\ consumers' = [consumers EXCEPT ![q] = Append(@, c)]

\* The handler that Add appends is the one of its parameters.
LEMMA AddRegisters ==
    ASSUME NEW q \in Queues, NEW typ \in Kinds, NEW t \in Types,
           NEW e \in Exchanges \cup {Nothing}, NEW k \in Keys \cup {Nothing},
           e # Nothing <=> typ \in {"exchange", "exchangeKey"},
           k # Nothing <=> typ \in {"key", "exchangeKey"},
           typ = "exchangeKey" \/ ~Registered(q, t), Add(q, typ, t, e, k)
    PROVE  Registers
<1> DEFINE c == [typ |-> typ, msgType |-> String(t), of |-> t,
                 exchange |-> e, key |-> k]
<1>1. c \in Consumer /\ c.msgType = String(c.of) /\ c.of = t /\ c.typ = typ
  BY DEF Consumer
<1>2. /\ consumers' = [consumers EXCEPT ![q] = Append(@, c)]
      /\ result' \in Results
  BY DEF Add, Results
<1> HIDE DEF c
<1> QED BY <1>1, <1>2 DEF Registers

\* Every step of the application refuses or appends.
LEMMA NextRegisters == Next => Registers
<1> SUFFICES ASSUME Next PROVE Registers
  OBVIOUS
<1>1. PICK q \in Queues \cup {Nothing}, t \in Types \cup {Nothing},
           e \in Exchanges \cup {Nothing}, k \in Keys \cup {Nothing} :
        \/ RegisterByType(q, t) \/ RegisterByExchange(q, t, e)
        \/ RegisterByRoutingKey(q, t, k)
        \/ RegisterByExchangeRoutingKey(q, t, e, k)
  BY DEF Next
<1>2. ASSUME NEW why \in Results, Refuse(why) PROVE Registers
  BY <1>2 DEF Refuse, Registers
<1>3. {"ok", "invalid", "registered", "unknownQueue"} \subseteq Results
  BY DEF Results
<1>4. ASSUME NEW typ \in Kinds, typ # "exchangeKey",
             q # Nothing, t # Nothing, NEW x \in Exchanges \cup {Nothing},
             NEW y \in Keys \cup {Nothing},
             x # Nothing <=> typ \in {"exchange", "exchangeKey"},
             y # Nothing <=> typ \in {"key", "exchangeKey"},
             RegisterOnce(q, typ, t, x, y)
      PROVE  Registers
  BY <1>2, <1>3, <1>4, AddRegisters DEF RegisterOnce
<1>5. CASE RegisterByType(q, t)
  BY <1>2, <1>3, <1>4, <1>5 DEF RegisterByType, Kinds
<1>6. CASE RegisterByExchange(q, t, e)
  BY <1>2, <1>3, <1>4, <1>6 DEF RegisterByExchange, Kinds
<1>7. CASE RegisterByRoutingKey(q, t, k)
  BY <1>2, <1>3, <1>4, <1>7 DEF RegisterByRoutingKey, Kinds
<1>8. CASE RegisterByExchangeRoutingKey(q, t, e, k)
  BY <1>2, <1>3, <1>8, AddRegisters DEF RegisterByExchangeRoutingKey, Kinds
<1> QED BY <1>1, <1>5, <1>6, <1>7, <1>8

\* What a queue's list is after a handler was appended to it.
LEMMA AppendedFacts ==
    ASSUME TypeOK, NEW q \in Queues, NEW c \in Consumer,
           consumers' = [consumers EXCEPT ![q] = Append(@, c)]
    PROVE  /\ consumers' \in [Queues -> Seq(Consumer)]
           /\ \A r \in Queues \ {q} : consumers'[r] = consumers[r]
           /\ Len(consumers[q]) \in Nat
           /\ DOMAIN consumers[q] = 1..Len(consumers[q])
           /\ DOMAIN consumers'[q] = 1..Len(consumers[q]) + 1
           /\ \A i \in DOMAIN consumers[q] : consumers'[q][i] = consumers[q][i]
           /\ consumers'[q][Len(consumers[q]) + 1] = c
<1> DEFINE s == consumers[q]
<1>1. s \in Seq(Consumer) /\ consumers'[q] = Append(s, c)
  BY DEF TypeOK
<1>2. consumers' \in [Queues -> Seq(Consumer)]
  BY DEF TypeOK
<1>3. \A r \in Queues \ {q} : consumers'[r] = consumers[r]
  BY DEF TypeOK
<1> HIDE DEF s
<1>4. /\ Append(s, c) \in Seq(Consumer)
      /\ Len(Append(s, c)) = Len(s) + 1
      /\ \A i \in 1..Len(s) : Append(s, c)[i] = s[i]
      /\ Append(s, c)[Len(s) + 1] = c
  BY <1>1, AppendProperties
<1>5. Len(s) \in Nat /\ DOMAIN s = 1..Len(s)
  BY <1>1
<1>6. DOMAIN Append(s, c) = 1..Len(s) + 1
  BY <1>4
<1> QED BY <1>1, <1>2, <1>3, <1>4, <1>5, <1>6, Zenon DEF s

\* No handler is registered at the start.
LEMMA RegistrationInit == Init => RegistrationInv
<1> SUFFICES ASSUME Init PROVE RegistrationInv
  OBVIOUS
<1>1. TypeOK
  BY DEF Init, TypeOK, Results
<1>2. OnceInv
  BY DEF Init, OnceInv
<1> QED BY <1>1, <1>2 DEF RegistrationInv

\* Every registration keeps the invariant.
LEMMA RegistrationStep ==
    RegistrationInv /\ [Next]_vars => RegistrationInv'
<1> SUFFICES ASSUME RegistrationInv, [Next]_vars PROVE RegistrationInv'
  OBVIOUS
<1> USE DEF RegistrationInv
<1>1. CASE consumers' = consumers /\ result' \in Results
  BY <1>1 DEF TypeOK, OnceInv
<1>2. ASSUME NEW q \in Queues, NEW c \in Consumer, c.msgType = String(c.of),
             c.typ = "exchangeKey" \/ ~Registered(q, c.of),
             result' \in Results,
             consumers' = [consumers EXCEPT ![q] = Append(@, c)]
      PROVE  RegistrationInv'
  <2> DEFINE n == Len(consumers[q]) + 1
  <2>1. /\ consumers' \in [Queues -> Seq(Consumer)]
        /\ \A r \in Queues \ {q} : consumers'[r] = consumers[r]
        /\ \A i \in DOMAIN consumers'[q] : i = n \/ i \in DOMAIN consumers[q]
        /\ \A i \in DOMAIN consumers[q] : consumers'[q][i] = consumers[q][i]
        /\ consumers'[q][n] = c
    <3>1. /\ consumers' \in [Queues -> Seq(Consumer)]
          /\ \A r \in Queues \ {q} : consumers'[r] = consumers[r]
          /\ Len(consumers[q]) \in Nat
          /\ DOMAIN consumers[q] = 1..Len(consumers[q])
          /\ DOMAIN consumers'[q] = 1..Len(consumers[q]) + 1
          /\ \A i \in DOMAIN consumers[q] :
                consumers'[q][i] = consumers[q][i]
          /\ consumers'[q][n] = c
      BY <1>2, AppendedFacts, Zenon
    <3>2. \A i \in DOMAIN consumers'[q] : i = n \/ i \in DOMAIN consumers[q]
      BY <3>1
    <3> QED BY <3>1, <3>2
  <2> HIDE DEF n
  <2>2. TypeOK'
    BY <1>2, <2>1 DEF TypeOK
  <2>3. \A i \in DOMAIN consumers[q] :
           consumers[q][i].msgType = c.msgType => c.typ = "exchangeKey"
    BY <1>2 DEF Registered
  <2>4. \A i \in DOMAIN consumers'[q] :
           consumers'[q][i].msgType = String(consumers'[q][i].of)
    BY <1>2, <2>1 DEF OnceInv
  <2>5. ASSUME NEW i \in DOMAIN consumers'[q], NEW j \in DOMAIN consumers'[q],
               consumers'[q][i].msgType = consumers'[q][j].msgType, i # j
        PROVE  \/ consumers'[q][i].typ = "exchangeKey"
               \/ consumers'[q][j].typ = "exchangeKey"
    BY <2>1, <2>3, <2>5 DEF OnceInv
  <2>6. OnceInv'
    BY <2>1, <2>4, <2>5 DEF OnceInv
  <2> QED BY <2>2, <2>6
<1>3. CASE UNCHANGED vars
  BY <1>1, <1>3 DEF vars, TypeOK
<1> QED BY <1>1, <1>2, <1>3, NextRegisters DEF Registers

\* The invariant holds in every reachable state.
LEMMA RegistrationInvariant == Spec => []RegistrationInv
BY RegistrationInit, RegistrationStep, PTL DEF Spec

\* The lists of handlers hold handlers.
THEOREM TypeCorrect == Spec => []TypeOK
BY RegistrationInvariant, PTL DEF RegistrationInv

\* In a queue whose handlers are registered by type, the full name of a type
\* leads to the handler of that type and to no other: for any number of
\* types, queues and handlers, in any order of the registrations.
THEOREM TypesLeadToHandlers == Spec => []TypesAreAddressed
<1>1. RegistrationInv => TypesAreAddressed
  <2> SUFFICES ASSUME RegistrationInv, NEW q \in Queues,
                      \A i \in DOMAIN consumers[q] :
                          consumers[q][i].typ = "type",
                      NEW i \in DOMAIN consumers[q], NEW m \in Message,
                      m.type = String(consumers[q][i].of)
               PROVE  Accepting(q, m) = {i}
    BY DEF TypesAreAddressed
  <2>1. \A j \in DOMAIN consumers[q] :
           Accepts(consumers[q][j], m) <=> consumers[q][j].msgType = m.type
    BY DEF Accepts
  <2>2. consumers[q][i].msgType = m.type
    BY DEF RegistrationInv, OnceInv
  <2>3. \A j \in DOMAIN consumers[q] :
           consumers[q][j].msgType = m.type => j = i
    BY <2>2 DEF RegistrationInv, OnceInv
  <2> QED BY <2>1, <2>2, <2>3 DEF Accepting
<1> QED BY <1>1, RegistrationInvariant, PTL

\* The handler that gets a message keeps it when another one is registered.
LEMMA AppendKeepsFirst ==
    ASSUME TypeOK, NEW q \in Queues, NEW c \in Consumer,
           consumers' = [consumers EXCEPT ![q] = Append(@, c)],
           NEW r \in Queues, NEW m \in Message, Accepting(r, m) # {}
    PROVE  /\ Accepting(r, m)' # {}
           /\ consumers'[r][Chosen(r, m)'] = consumers[r][Chosen(r, m)]
<1>1. CASE r # q
  <2>1. consumers'[r] = consumers[r]
    BY <1>1, AppendedFacts
  <2>2. Accepting(r, m)' = Accepting(r, m)
    BY <2>1 DEF Accepting
  <2>3. Chosen(r, m)' = Chosen(r, m)
    BY <2>2 DEF Chosen
  <2> QED BY <2>1, <2>2, <2>3
<1>2. CASE r = q
  <2> DEFINE n == Len(consumers[q])
             A == Accepting(q, m)
             B == Accepting(q, m)'
             first == Chosen(q, m)
             now == Chosen(q, m)'
  <2>1. /\ n \in Nat /\ DOMAIN consumers[q] = 1..n
        /\ DOMAIN consumers'[q] = 1..n + 1
        /\ \A i \in 1..n : consumers'[q][i] = consumers[q][i]
    BY AppendedFacts
  <2>2. A \subseteq 1..n
    BY <2>1 DEF Accepting
  <2>3. B \subseteq 1..n + 1 /\ \A i \in 1..n : i \in B <=> i \in A
    BY <2>1 DEF Accepting
  <2>4. first \in A /\ \A j \in A : first <= j
    <3>1. A \in SUBSET Nat /\ A # {}
      BY <1>2, <2>1, <2>2
    <3>2. first = CHOOSE i \in A : \A j \in A : i <= j
      BY DEF Chosen
    <3> HIDE DEF A, first
    <3> QED BY <3>1, <3>2, LeastChosen
  <2>5. now \in B /\ \A j \in B : now <= j
    <3>1. B \in SUBSET Nat /\ B # {}
      BY <1>2, <2>1, <2>2, <2>3
    <3>2. now = CHOOSE i \in B : \A j \in B : i <= j
      BY DEF Chosen
    <3> HIDE DEF B, now
    <3> QED BY <3>1, <3>2, LeastChosen
  <2> HIDE DEF n, A, B, first, now
  <2>6. first = now /\ first \in 1..n /\ B # {}
    BY <2>1, <2>2, <2>3, <2>4, <2>5
  <2>7. consumers'[q][now] = consumers[q][first]
    BY <2>1, <2>6
  <2> QED BY <1>2, <2>6, <2>7 DEF B, first, now
<1> QED BY <1>1, <1>2

\* Registering a handler never takes a message away from the handler that
\* has it, whatever the kinds of the two.
THEOREM FirstHandlerStays == Spec => LaterDoesNotSteal
<1> DEFINE Kept == \A q \in Queues, m \in Message :
              Accepting(q, m) # {} =>
                 /\ Accepting(q, m)' # {}
                 /\ consumers'[q][Chosen(q, m)'] = consumers[q][Chosen(q, m)]
<1>1. RegistrationInv /\ [Next]_vars => [Kept]_vars
  <2> SUFFICES ASSUME RegistrationInv, Next PROVE Kept
    OBVIOUS
  <2>1. CASE consumers' = consumers
    BY <2>1 DEF Accepting, Chosen
  <2>2. CASE \E q \in Queues, c \in Consumer :
                consumers' = [consumers EXCEPT ![q] = Append(@, c)]
    BY <2>2, AppendKeepsFirst DEF RegistrationInv
  <2> QED BY <2>1, <2>2, NextRegisters DEF Registers
<1> HIDE DEF Kept
<1>2. Spec => [][Kept]_vars
  BY <1>1, RegistrationInvariant, PTL DEF Spec
<1> QED BY <1>2 DEF LaterDoesNotSteal, Kept

=============================================================================
