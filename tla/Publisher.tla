------------------------------ MODULE Publisher ------------------------------
(***************************************************************************)
(* The publisher (publisher.go), called by several goroutines at once, on  *)
(* top of a connection manager that may replace or lose its channel at any *)
(* time. What the manager does is ManagedConnection, which                 *)
(* ConnectionManager implements.                                           *)
(*                                                                         *)
(* The headers option hands a map of the caller to the publisher, which    *)
(* writes the trace of the context into it (tracing.go) and lets the AMQP  *)
(* library read it: callers that share options share the map. Bodies,      *)
(* identifiers and the delivery mode are left out.                         *)
(***************************************************************************)
EXTENDS Naturals, Sequences, FiniteSetsExt

CONSTANTS
    Callers,   \* the goroutines; a caller also names its trace
    Maps,      \* header maps the callers share
    Options,   \* the option lists they pass
    Calls,     \* the arguments of calls
    Chans, None,
    MaxCalls   \* bound: calls altogether

\* What an option may hold: a shared map, a nil map, or something that is no
\* headers option (nil, another key, a value of another type).
OptionValues == Maps \cup {"nil", "other"}

\* The arguments of a call: whether it is PublishDeadline, which waits for a
\* confirmation (Publish, PublishQueue and PublishQueueDeadline do the same),
\* whether its context has a trace, whether the message is nil.
CallType ==
    [waits : BOOLEAN, traced : BOOLEAN, nil : BOOLEAN, options : Options]

ASSUME NamesAssumption ==
    /\ None \notin Callers \cup Chans /\ Chans # {}
    /\ (Maps \cup {"nil", "other"}) \cap Callers = {}
    /\ {"nil", "other"} \cap Maps = {}
ASSUME OptionsAssumption == Options \subseteq Seq(OptionValues)
ASSUME CallsAssumption == Calls \subseteq CallType /\ MaxCalls \in Nat

VARIABLES
    phase, conn, ch, \* the manager, see ManagedConnection
    dead,      \* channels that are closed
    pc, call, chan,
    trace,     \* the trace in each map: the shared ones, and the map that
               \* the publisher makes for a call
    wire,      \* the traces of the messages a call handed to the library
    result,
    overlaps,  \* history: another call had the same map at the same time
    calls,
    crashed    \* the process is gone

manager == <<phase, conn, ch, dead>>
history == <<overlaps, calls>>
vars == <<manager, pc, call, chan, trace, wire, result, history, crashed>>

Labels == {"start", "inject", "write", "send", "confirm", "returned"}

NoCall == [waits |-> FALSE, traced |-> FALSE, nil |-> FALSE, options |-> <<>>]

TypeOK ==
    /\ phase \in {"open", "suspended", "closed"} /\ conn \in {None}
    /\ ch \in Chans /\ dead \subseteq Chans
    /\ pc \in [Callers -> Labels]
    /\ call \in [Callers -> CallType \cup {NoCall}]
    /\ chan \in [Callers -> Chans \cup {None}]
    /\ trace \in [Maps \cup Callers -> Callers \cup {None}]
    /\ wire \in [Callers -> {w \in Seq(Callers \cup {None}) : Len(w) <= 1}]
    /\ result \in [Callers -> {"ok", "error"}]
    /\ overlaps \in [Callers -> BOOLEAN] /\ calls \in 0..MaxCalls
    /\ crashed \in BOOLEAN

Init ==
    /\ phase = "open" /\ conn = None /\ ch = (CHOOSE k \in Chans : TRUE)
    /\ dead = {}
    /\ pc = [p \in Callers |-> "returned"] /\ call = [p \in Callers |-> NoCall]
    /\ chan = [p \in Callers |-> None] /\ result = [p \in Callers |-> "error"]
    /\ trace = [m \in Maps \cup Callers |-> None]
    /\ wire = [p \in Callers |-> <<>>]
    /\ overlaps = [p \in Callers |-> FALSE]
    /\ calls = 0 /\ crashed = FALSE

-----------------------------------------------------------------------------
(* The manager and its channels.                                           *)

Managed == INSTANCE ManagedConnection WITH Conns <- {None}

\* A channel that is put in place was just opened.
ManagerStep ==
    /\ Managed!Next /\ (ch' = ch \/ ch' \notin dead)
    /\ UNCHANGED <<dead, pc, call, chan, trace, wire, result, history, crashed>>

ChannelDies ==
    /\ \E k \in ({ch} \cup {chan[p] : p \in Callers}) \ (dead \cup {None}) :
           dead' = dead \cup {k}
    /\ UNCHANGED <<phase, conn, ch, pc, call, chan, trace, wire, result,
                   history, crashed>>

-----------------------------------------------------------------------------
(* A call.                                                                 *)

\* optionsLookup: the map of the last headers option, or a new one.
Given(options) == {i \in DOMAIN options : options[i] # "other"}
HeadersOf(p) ==
    LET given == Given(call[p].options)
    IN  IF given = {} THEN p ELSE call[p].options[Max(given)]

Goto(p, label) == pc' = [pc EXCEPT ![p] = label]

Return(p, r) == /\ Goto(p, "returned") /\ result' = [result EXCEPT ![p] = r]
                /\ chan' = [chan EXCEPT ![p] = None]

\* A panic of one goroutine ends the program.
Panic == crashed' = TRUE /\ UNCHANGED <<pc, chan, result>>

Begin(p, c) ==
    /\ pc[p] = "returned" /\ calls < MaxCalls /\ calls' = calls + 1
    /\ call' = [call EXCEPT ![p] = c] /\ wire' = [wire EXCEPT ![p] = <<>>]
    /\ Goto(p, "start") /\ trace' = [trace EXCEPT ![p] = None]
    /\ LET with == {r \in Callers \ {p} : pc[r] # "returned" /\ HeadersOf(r) \in Maps
                                          /\ HeadersOf(r) = HeadersOf(p)'}
       IN  overlaps' = [r \in Callers |->
               CASE r = p -> with # {} [] r \in with -> TRUE
                 [] OTHER -> overlaps[r]]
    /\ UNCHANGED <<manager, chan, result, crashed>>

\* GetChannel. Before it the name of the exchange or queue may be found to be
\* empty, after it json.Marshal may fail; it accepts nil.
Start(p) ==
    /\ pc[p] = "start"
    /\ \/ Return(p, "error")
       \/ /\ phase = "open" /\ ch \notin dead /\ Goto(p, "inject")
          /\ chan' = [chan EXCEPT ![p] = ch] /\ UNCHANGED result
    /\ UNCHANGED <<manager, call, trace, wire, history, crashed>>

\* (mutant) A context without a trace is written, too.
InjectAlways(p) ==
    /\ pc[p] = "inject" /\ HeadersOf(p) # "nil" /\ Goto(p, "write")
    /\ UNCHANGED <<manager, call, chan, trace, wire, result, history, crashed>>

\* Inject calls Set only when the context has a trace. A map that was given
\* as nil cannot be written.
Inject(p) ==
    /\ pc[p] = "inject"
    /\ \/ ~call[p].traced /\ Goto(p, "send") /\ UNCHANGED <<chan, result, crashed>>
       \/ /\ call[p].traced /\ HeadersOf(p) # "nil"
          /\ Goto(p, "write") /\ UNCHANGED <<chan, result, crashed>>
       \/ call[p].traced /\ HeadersOf(p) = "nil" /\ Panic
    /\ UNCHANGED <<manager, call, trace, wire, history>>

\* (mutant) A trace that is there already is kept.
SetOnce(p) ==
    /\ pc[p] = "write" /\ Goto(p, "send")
    /\ trace' = [trace EXCEPT ![HeadersOf(p)] = IF @ = None THEN p ELSE @]
    /\ UNCHANGED <<manager, call, chan, wire, result, history, crashed>>

Set(p) ==
    /\ pc[p] = "write" /\ Goto(p, "send")
    /\ trace' = [trace EXCEPT ![HeadersOf(p)] = p]
    /\ UNCHANGED <<manager, call, chan, wire, result, history, crashed>>

\* One goroutine writes a map that another one writes, or reads: Go may
\* notice it, and stops the program.
MapRace ==
    /\ \E p, r \in Callers :
           /\ p # r /\ HeadersOf(p) = HeadersOf(r)
           /\ pc[p] = "write" /\ pc[r] \in {"write", "send"}
    /\ Panic
    /\ UNCHANGED <<manager, call, trace, wire, history>>

Carried(p) == IF HeadersOf(p) = "nil" THEN None ELSE trace[HeadersOf(p)]

\* (mutant) An error of the channel is tried again, and not returned.
SendAgain(p) ==
    /\ pc[p] = "send" /\ ~call[p].nil /\ chan[p] \notin dead
    /\ wire' = [wire EXCEPT ![p] = Append(@, Carried(p))]
    /\ \/ Return(p, "ok") \/ UNCHANGED <<pc, chan, result>>
    /\ UNCHANGED <<manager, call, trace, history, crashed>>

\* reflect.TypeOf(nil) has no kind; otherwise the library sends the message,
\* or returns an error when the channel is closed.
Send(p) ==
    /\ pc[p] = "send"
    /\ \/ call[p].nil /\ Panic /\ UNCHANGED wire
       \/ /\ ~call[p].nil /\ chan[p] \in dead
          /\ Return(p, "error") /\ UNCHANGED <<wire, crashed>>
       \/ /\ ~call[p].nil /\ chan[p] \notin dead
          /\ wire' = [wire EXCEPT ![p] = Append(@, Carried(p))]
          /\ IF call[p].waits THEN Goto(p, "confirm") /\ UNCHANGED <<chan, result>>
             ELSE Return(p, "ok")
          /\ UNCHANGED crashed
    /\ UNCHANGED <<manager, call, trace, history>>

\* The rest of PublishDeadline. No channel was put in confirm mode: the
\* confirmation is nil, and WaitContext dereferences it.
WaitContext(p) ==
    /\ pc[p] = "confirm" /\ Panic
    /\ UNCHANGED <<manager, call, trace, wire, history>>

Step(p) ==
    Start(p) \/ Inject(p) \/ Set(p) \/ Send(p) \/ WaitContext(p)

Next ==
    /\ ~crashed
    /\ \/ ManagerStep \/ ChannelDies \/ MapRace
       \/ \E p \in Callers : Step(p) \/ \E c \in Calls : Begin(p, c)

Spec == Init /\ [][Next]_vars

\* A call that has begun goes on.
FairSpec == Spec /\ \A p \in Callers : WF_vars(~crashed /\ Step(p))

-----------------------------------------------------------------------------
(* What a caller can rely on.                                              *)

\* A message carries the trace of its own call, whatever the map held
\* before and whoever publishes at the same time, as long as no other call
\* has the same map; with a map of its own a call without a trace carries
\* none (publisher.go, optionsLookup and publishing).
OwnTrace ==
    \A p \in Callers : wire[p] # <<>> /\ ~overlaps[p] =>
        /\ call[p].traced /\ HeadersOf(p) # "nil" => wire[p] = <<p>>
        /\ ~call[p].traced /\ HeadersOf(p) \notin Maps => wire[p] = <<None>>

\* The result of a call that does not wait for a confirmation tells whether
\* the message was handed over: never twice, and not at all when an error is
\* returned (publisher.go, publish).
HonestResult ==
    \A p \in Callers : pc[p] = "returned" /\ ~call[p].waits =>
        Len(wire[p]) = (IF result[p] = "ok" THEN 1 ELSE 0)

\* Goroutines may publish at the same time, also with one map as long as
\* no context has a trace. What ends the program is a nil message, a nil map
\* for a trace, a map that two calls have at once and one writes, and
\* PublishDeadline.
CrashFree ==
    crashed => \E p \in Callers :
        /\ chan[p] # None
        /\ \/ call[p].nil \/ call[p].waits
           \/ call[p].traced /\ (HeadersOf(p) = "nil" \/ overlaps[p])

-----------------------------------------------------------------------------
(* What the documentation says, and the code does not do.                  *)

\* PublishDeadline sends "within the context's deadline" and returns "an
\* error if the message could not be sent within the deadline"
\* (publisher.go): a call that handed its message over and waits for the
\* confirmation comes back to its caller.
DeadlineReturns ==
    \A p \in Callers : pc[p] = "confirm" ~> pc[p] = "returned"

=============================================================================
