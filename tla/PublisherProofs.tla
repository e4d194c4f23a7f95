--------------------------- MODULE PublisherProofs ---------------------------
(* Theorems about Publisher, for every value of its constants: any number  *)
(* of callers, of maps, of calls and of replacements of the channel.       *)
EXTENDS Publisher, SequenceLemmas

\* A call uses a map of the callers, its own new one, or a nil map.
HeadersInv ==
    \A p \in Callers : HeadersOf(p) \in Maps \cup {p, "nil"}

\* Where a call is tells what it has done.
PhaseInv ==
    \A p \in Callers :
        /\ pc[p] \in {"inject", "write", "send", "confirm"} => chan[p] # None
        /\ pc[p] \in {"start", "inject", "write", "send"} => wire[p] = <<>>
        /\ pc[p] = "write" => call[p].traced /\ HeadersOf(p) # "nil"
        /\ pc[p] = "confirm" => call[p].waits

Running(p) == pc[p] # "returned"

\* Calls that run at the same time with one map know of each other.
ShareInv ==
    \A p, r \in Callers :
        /\ p # r /\ Running(p) /\ Running(r)
        /\ HeadersOf(p) = HeadersOf(r) /\ HeadersOf(p) \in Maps
        => overlaps[p] /\ overlaps[r]

\* A call that nobody shares a map with finds there what it wrote; in a new
\* map there is nothing else.
TraceInv ==
    \A p \in Callers :
        /\ pc[p] = "send" /\ call[p].traced /\ HeadersOf(p) # "nil"
              /\ ~overlaps[p] => trace[HeadersOf(p)] = p
        /\ pc[p] \in {"start", "inject", "send"} /\ HeadersOf(p) = p
              /\ ~call[p].traced => trace[p] = None

PublisherInv ==
    /\ TypeOK /\ HeadersInv /\ PhaseInv /\ ShareInv /\ TraceInv
    /\ OwnTrace /\ HonestResult /\ CrashFree

\* The last headers option is a map, or nil.
LEMMA LastGiven ==
    ASSUME NEW s \in Seq(OptionValues), Given(s) # {}
    PROVE  s[Max(Given(s))] \in Maps \cup {"nil"}
<1>1. Len(s) \in Nat /\ DOMAIN s = 1..Len(s)
      /\ \A i \in DOMAIN s : s[i] \in OptionValues
  OBVIOUS
<1>2. Given(s) \in SUBSET (1..Len(s))
  BY <1>1 DEF Given
<1>3. Max(Given(s)) \in Given(s)
  BY <1>1, <1>2, Greatest
<1> QED BY <1>1, <1>3 DEF Given, OptionValues

\* The arguments of a call.
LEMMA CallFacts ==
    /\ \A c \in CallType \cup {NoCall} : c.options \in Seq(OptionValues)
    /\ Calls \subseteq CallType
<1>1. \A c \in CallType : c.options \in Seq(OptionValues)
  BY OptionsAssumption DEF CallType
<1>2. NoCall.options \in Seq(OptionValues)
  BY EmptySeq DEF NoCall
<1> QED BY <1>1, <1>2, CallsAssumption DEF CallType, NoCall

\* Calls that run at the same time and are not told of each other have
\* different maps, or none.
LEMMA OwnMap ==
    ASSUME HeadersInv, ShareInv, NEW p \in Callers, NEW r \in Callers, p # r,
           Running(p), Running(r), HeadersOf(p) = HeadersOf(r)
    PROVE  \/ HeadersOf(p) = "nil"
           \/ overlaps[p] /\ overlaps[r]
BY NamesAssumption DEF HeadersInv, ShareInv

\* Nobody has called yet.
LEMMA PublisherInit == Init => PublisherInv
<1> SUFFICES ASSUME Init PROVE PublisherInv
  OBVIOUS
<1>1. \A p \in Callers : pc[p] = "returned" /\ wire[p] = <<>>
                         /\ call[p] = NoCall /\ result[p] = "error"
  BY DEF Init
<1>2. TypeOK
  <2>1. ch \in Chans
    BY NamesAssumption DEF Init
  <2>2. <<>> \in {w \in Seq(Callers \cup {None}) : Len(w) <= 1}
    BY EmptySeq
  <2>3. calls \in 0..MaxCalls
    BY CallsAssumption DEF Init
  <2> QED BY <2>1, <2>2, <2>3 DEF Init, TypeOK, Labels
<1>3. HeadersInv
  BY <1>1 DEF HeadersInv, HeadersOf, NoCall, Given
<1>4. PhaseInv /\ ShareInv /\ TraceInv /\ OwnTrace
  BY <1>1 DEF PhaseInv, ShareInv, TraceInv, OwnTrace, Running
<1>5. HonestResult /\ CrashFree
  BY <1>1 DEF HonestResult, CrashFree, Init
<1> QED BY <1>2, <1>3, <1>4, <1>5 DEF PublisherInv

\* What the steps outside the calls leave alone.
LEMMA OutsideStep ==
    ASSUME PublisherInv,
           UNCHANGED <<pc, call, chan, trace, wire, result, history, crashed>>,
           phase' \in {"open", "suspended", "closed"}, conn' \in {None},
           ch' \in Chans, dead' \subseteq Chans
    PROVE  PublisherInv'
<1>1. \A p \in Callers : HeadersOf(p)' = HeadersOf(p)
  BY DEF HeadersOf
<1>2. TypeOK'
  BY DEF PublisherInv, TypeOK, history
<1>3. HeadersInv' /\ PhaseInv' /\ ShareInv' /\ TraceInv'
  BY <1>1 DEF PublisherInv, HeadersInv, PhaseInv, ShareInv, TraceInv, Running,
     history
<1>4. OwnTrace' /\ HonestResult' /\ CrashFree'
  BY <1>1 DEF PublisherInv, OwnTrace, HonestResult, CrashFree, history
<1> QED BY <1>2, <1>3, <1>4 DEF PublisherInv

\* A new call.
LEMMA BeginStep ==
    ASSUME PublisherInv, NEW p \in Callers, NEW c \in Calls, Begin(p, c),
           ~crashed
    PROVE  PublisherInv'
<1> DEFINE with == {r \in Callers \ {p} : pc[r] # "returned"
                        /\ HeadersOf(r) \in Maps
                        /\ HeadersOf(r) = HeadersOf(p)'}
<1> USE DEF PublisherInv
<1>1. /\ pc[p] = "returned" /\ calls < MaxCalls /\ calls' = calls + 1
      /\ call' = [call EXCEPT ![p] = c] /\ wire' = [wire EXCEPT ![p] = <<>>]
      /\ pc' = [pc EXCEPT ![p] = "start"]
      /\ trace' = [trace EXCEPT ![p] = None]
      /\ overlaps' = [r \in Callers |->
               CASE r = p -> with # {} [] r \in with -> TRUE
                 [] OTHER -> overlaps[r]]
      /\ UNCHANGED <<manager, chan, result, crashed>>
  BY DEF Begin, Goto
<1>2. /\ call'[p] = c /\ wire'[p] = <<>> /\ pc'[p] = "start"
      /\ trace'[p] = None /\ c \in CallType
      /\ \A r \in Callers \ {p} :
            call'[r] = call[r] /\ wire'[r] = wire[r] /\ pc'[r] = pc[r]
      /\ \A m \in Maps \cup Callers : m # p => trace'[m] = trace[m]
  BY <1>1, CallFacts DEF TypeOK
<1>3. /\ \A r \in Callers \ {p} : HeadersOf(r)' = HeadersOf(r)
      /\ HeadersOf(p)' \in Maps \cup {p, "nil"}
  <2>1. \A r \in Callers \ {p} : HeadersOf(r)' = HeadersOf(r)
    BY <1>2 DEF HeadersOf
  <2>2. c.options \in Seq(OptionValues)
    BY <1>2, CallFacts
  <2>3. HeadersOf(p)' = IF Given(c.options) = {} THEN p
                        ELSE c.options[Max(Given(c.options))]
    BY <1>2 DEF HeadersOf
  <2> QED BY <2>1, <2>2, <2>3, LastGiven
<1>4. /\ \A r \in Callers \ {p} : r \in with => overlaps'[r]
      /\ \A r \in Callers \ {p} : overlaps[r] => overlaps'[r]
      /\ with # {} => overlaps'[p]
      /\ overlaps' \in [Callers -> BOOLEAN]
  <2> HIDE DEF with
  <2>1. \A r \in Callers : overlaps'[r] =
           (CASE r = p -> with # {} [] r \in with -> TRUE
              [] OTHER -> overlaps[r])
    BY <1>1
  <2>2. \A r \in Callers : overlaps[r] \in BOOLEAN
    BY DEF TypeOK
  <2>3. \A r \in Callers : overlaps'[r] \in BOOLEAN
    BY <2>1, <2>2
  <2>4. DOMAIN overlaps' = Callers /\
        overlaps' = [r \in Callers |-> overlaps'[r]]
    BY <1>1
  <2> QED BY <2>1, <2>3, <2>4
<1>5. TypeOK'
  <2>1. <<>> \in {w \in Seq(Callers \cup {None}) : Len(w) <= 1}
    BY EmptySeq
  <2>2. wire' \in [Callers -> {w \in Seq(Callers \cup {None}) : Len(w) <= 1}]
    BY <1>1, <2>1 DEF TypeOK
  <2>3. calls' \in 0..MaxCalls
    BY <1>1, CallsAssumption DEF TypeOK
  <2>4. crashed' \in BOOLEAN
    BY <1>1 DEF TypeOK
  <2>5. /\ pc' \in [Callers -> Labels]
        /\ call' \in [Callers -> CallType \cup {NoCall}]
        /\ trace' \in [Maps \cup Callers -> Callers \cup {None}]
    BY <1>1, <1>2 DEF TypeOK, Labels
  <2> HIDE DEF with
  <2> QED BY <1>1, <1>4, <2>2, <2>3, <2>4, <2>5 DEF TypeOK, manager
<1>6. HeadersInv'
  BY <1>3 DEF HeadersInv
<1>7. PhaseInv'
  BY <1>1, <1>2, <1>3 DEF PhaseInv
<1>8. ShareInv'
  <2> SUFFICES ASSUME NEW a \in Callers, NEW b \in Callers, a # b,
                      Running(a)', Running(b)',
                      HeadersOf(a)' = HeadersOf(b)', HeadersOf(a)' \in Maps
               PROVE  (overlaps'[a] /\ overlaps'[b])
    BY DEF ShareInv
  <2>1. CASE a # p /\ b # p
    BY <1>2, <1>3, <1>4, <2>1 DEF ShareInv, Running
  <2>2. CASE a = p
    <3>1. b \in with
      BY <1>2, <1>3, <2>2 DEF Running
    <3> QED BY <1>4, <2>2, <3>1
  <2>3. CASE b = p
    <3>1. a \in with
      BY <1>2, <1>3, <2>3 DEF Running
    <3> QED BY <1>4, <2>3, <3>1
  <2> QED BY <2>1, <2>2, <2>3
<1>9. TraceInv'
  <2> SUFFICES ASSUME NEW r \in Callers
               PROVE  /\ pc'[r] = "send" /\ call'[r].traced
                            /\ HeadersOf(r)' # "nil" /\ ~overlaps'[r]
                            => trace'[HeadersOf(r)'] = r
                      /\ pc'[r] \in {"start", "inject", "send"}
                            /\ HeadersOf(r)' = r
                            /\ ~call'[r].traced => trace'[r] = None
    BY DEF TraceInv
  <2>1. CASE r = p
    BY <1>2, <2>1
  <2>2. CASE r # p
    <3>1. HeadersOf(r) # p /\ HeadersOf(r) \in Maps \cup {r, "nil"}
      BY <2>2, NamesAssumption DEF HeadersInv
    <3>2. HeadersOf(r) # "nil" =>
              trace'[HeadersOf(r)] = trace[HeadersOf(r)]
      BY <1>2, <3>1
    <3>3. trace'[r] = trace[r]
      BY <1>2, <2>2
    <3> QED BY <1>2, <1>3, <1>4, <2>2, <3>2, <3>3 DEF TraceInv
  <2> QED BY <2>1, <2>2
<1>10. OwnTrace'
  BY <1>2, <1>3, <1>4 DEF OwnTrace
<1>11. HonestResult'
  BY <1>1, <1>2 DEF HonestResult
<1>12. CrashFree'
  BY <1>1 DEF CrashFree
<1> QED BY <1>5, <1>6, <1>7, <1>8, <1>9, <1>10, <1>11, <1>12

\* A step of a running call changes nothing that belongs to another call,
\* except that it writes the map they share.
LEMMA CallStep ==
    ASSUME PublisherInv, NEW p \in Callers, Running(p),
           UNCHANGED <<manager, call, history>>,
           pc' \in [Callers -> Labels],
           chan' \in [Callers -> Chans \cup {None}],
           trace' \in [Maps \cup Callers -> Callers \cup {None}],
           wire' \in [Callers ->
                        {w \in Seq(Callers \cup {None}) : Len(w) <= 1}],
           result' \in [Callers -> {"ok", "error"}], crashed' \in BOOLEAN,
           \A r \in Callers \ {p} : /\ pc'[r] = pc[r] /\ chan'[r] = chan[r]
                                    /\ wire'[r] = wire[r]
                                    /\ result'[r] = result[r],
           \A m \in Maps \cup Callers :
              \/ trace'[m] = trace[m]
              \/ m = HeadersOf(p) /\ pc[p] = "write",
           pc'[p] \in {"inject", "write", "send", "confirm"} =>
              chan'[p] # None,
           pc'[p] \in {"start", "inject", "write", "send"} => wire'[p] = <<>>,
           pc'[p] = "write" => call[p].traced /\ HeadersOf(p) # "nil",
           pc'[p] = "confirm" => call[p].waits,
           pc'[p] = "send" /\ call[p].traced /\ HeadersOf(p) # "nil"
              /\ ~overlaps[p] => trace'[HeadersOf(p)] = p,
           pc'[p] \in {"start", "inject", "send"} /\ HeadersOf(p) = p
              /\ ~call[p].traced => trace'[p] = None,
           \/ wire'[p] = wire[p]
           \/ pc[p] = "send" /\ wire'[p] = <<Carried(p)>>,
           pc'[p] = "returned" /\ ~call[p].waits =>
              Len(wire'[p]) = (IF result'[p] = "ok" THEN 1 ELSE 0),
           CrashFree'
    PROVE  PublisherInv'
<1> USE DEF PublisherInv
<1>1. \A r \in Callers : HeadersOf(r)' = HeadersOf(r)
  BY DEF HeadersOf
<1>2. TypeOK' /\ HeadersInv'
  BY <1>1 DEF TypeOK, HeadersInv, manager, history
<1>3. PhaseInv'
  <2>1. ASSUME NEW r \in Callers \ {p}
        PROVE  /\ pc'[r] \in {"inject", "write", "send", "confirm"} =>
                      chan'[r] # None
               /\ pc'[r] \in {"start", "inject", "write", "send"} =>
                      wire'[r] = <<>>
               /\ pc'[r] = "write" => call[r].traced /\ HeadersOf(r) # "nil"
               /\ pc'[r] = "confirm" => call[r].waits
    <3>1. pc'[r] = pc[r] /\ chan'[r] = chan[r] /\ wire'[r] = wire[r]
      OBVIOUS
    <3>2. /\ pc[r] \in {"inject", "write", "send", "confirm"} => chan[r] # None
          /\ pc[r] \in {"start", "inject", "write", "send"} => wire[r] = <<>>
          /\ pc[r] = "write" => call[r].traced /\ HeadersOf(r) # "nil"
          /\ pc[r] = "confirm" => call[r].waits
      BY DEF PhaseInv
    <3> QED BY <3>1, <3>2
  <2> QED BY <1>1, <2>1 DEF PhaseInv
<1>4. ShareInv'
  <2>1. \A r \in Callers : Running(r)' => Running(r)
    BY DEF Running
  <2> QED BY <1>1, <2>1 DEF ShareInv, history
<1>5. TraceInv'
  <2> SUFFICES ASSUME NEW r \in Callers
               PROVE  /\ pc'[r] = "send" /\ call'[r].traced
                            /\ HeadersOf(r)' # "nil" /\ ~overlaps'[r]
                            => trace'[HeadersOf(r)'] = r
                      /\ pc'[r] \in {"start", "inject", "send"}
                            /\ HeadersOf(r)' = r
                            /\ ~call'[r].traced => trace'[r] = None
    BY DEF TraceInv
  <2>1. HeadersOf(r)' = HeadersOf(r) /\ call' = call /\ overlaps' = overlaps
    BY <1>1 DEF history
  <2>2. CASE r = p
    BY <2>1, <2>2
  <2>3. CASE r # p
    <3>1. pc'[r] = pc[r]
      BY <2>3
    <3>2. ASSUME pc[r] = "send", HeadersOf(r) # "nil", ~overlaps[r]
          PROVE  trace'[HeadersOf(r)] = trace[HeadersOf(r)]
      <4>1. HeadersOf(r) \in Maps \cup Callers
        BY <3>2 DEF HeadersInv
      <4>2. HeadersOf(p) # HeadersOf(r)
        BY <2>3, <3>2, OwnMap DEF Running
      <4> QED BY <4>1, <4>2
    <3>3. ASSUME HeadersOf(r) = r PROVE trace'[r] = trace[r]
      <4>1. HeadersOf(p) # r
        BY <2>3, NamesAssumption DEF HeadersInv
      <4> QED BY <4>1
    <3>4. /\ pc[r] = "send" /\ call[r].traced /\ HeadersOf(r) # "nil"
                /\ ~overlaps[r] => trace[HeadersOf(r)] = r
          /\ pc[r] \in {"start", "inject", "send"} /\ HeadersOf(r) = r
                /\ ~call[r].traced => trace[r] = None
      BY DEF TraceInv
    <3> QED BY <2>1, <3>1, <3>2, <3>3, <3>4
  <2> QED BY <2>2, <2>3
<1>6. OwnTrace'
  <2> SUFFICES ASSUME NEW r \in Callers, wire'[r] # <<>>, ~overlaps[r]
               PROVE  /\ call[r].traced /\ HeadersOf(r) # "nil" =>
                            wire'[r] = <<r>>
                      /\ ~call[r].traced /\ HeadersOf(r) \notin Maps =>
                            wire'[r] = <<None>>
    <3>1. call' = call /\ overlaps' = overlaps
      BY DEF history
    <3> QED BY <1>1, <3>1 DEF OwnTrace
  <2>1. CASE wire'[r] = wire[r]
    BY <2>1 DEF OwnTrace
  <2>2. CASE r = p /\ pc[p] = "send" /\ wire'[p] = <<Carried(p)>>
    BY <2>2 DEF Carried, TraceInv, HeadersInv
  <2> QED BY <2>1, <2>2
<1>7. HonestResult'
  <2> SUFFICES ASSUME NEW r \in Callers, pc'[r] = "returned", ~call'[r].waits
               PROVE  Len(wire'[r]) = (IF result'[r] = "ok" THEN 1 ELSE 0)
    BY DEF HonestResult
  <2>1. CASE r = p
    BY <2>1
  <2>2. CASE r # p
    <3>1. /\ pc'[r] = pc[r] /\ wire'[r] = wire[r]
          /\ result'[r] = result[r] /\ call' = call
      BY <2>2
    <3>2. pc[r] = "returned" /\ ~call[r].waits =>
             Len(wire[r]) = (IF result[r] = "ok" THEN 1 ELSE 0)
      BY DEF HonestResult
    <3> QED BY <3>1, <3>2
  <2> QED BY <2>1, <2>2
<1> QED BY <1>2, <1>3, <1>4, <1>5, <1>6, <1>7

\* A panic ends the program, and leaves everything else as it is.
LEMMA PanicStep ==
    ASSUME PublisherInv, Panic,
           UNCHANGED <<manager, call, trace, wire, history>>,
           \E p \in Callers :
              /\ chan[p] # None
              /\ \/ call[p].nil \/ call[p].waits
                 \/ call[p].traced /\ (HeadersOf(p) = "nil" \/ overlaps[p])
    PROVE  PublisherInv'
<1> USE DEF PublisherInv
<1>1. /\ UNCHANGED <<pc, chan, result>> /\ crashed' = TRUE
  BY DEF Panic
<1>2. \A p \in Callers : HeadersOf(p)' = HeadersOf(p)
  BY DEF HeadersOf
<1>3. TypeOK'
  BY <1>1 DEF TypeOK, manager, history
<1>4. HeadersInv' /\ PhaseInv' /\ ShareInv' /\ TraceInv'
  BY <1>1, <1>2 DEF HeadersInv, PhaseInv, ShareInv, TraceInv, Running, history
<1>5. OwnTrace' /\ HonestResult'
  BY <1>1, <1>2 DEF OwnTrace, HonestResult, history
<1>6. CrashFree'
  BY <1>1, <1>2 DEF CrashFree, history
<1> QED BY <1>3, <1>4, <1>5, <1>6

\* The steps of a call.
LEMMA StepStep ==
    ASSUME PublisherInv, ~crashed, NEW p \in Callers, Step(p)
    PROVE  PublisherInv'
<1> USE DEF PublisherInv
<1> DEFINE Wires == {w \in Seq(Callers \cup {None}) : Len(w) <= 1}
<1>0. /\ wire \in [Callers -> Wires] /\ result \in [Callers -> {"ok", "error"}]
      /\ pc \in [Callers -> Labels]
      /\ chan \in [Callers -> Chans \cup {None}]
      /\ trace \in [Maps \cup Callers -> Callers \cup {None}]
      /\ crashed \in BOOLEAN
  BY DEF TypeOK
<1>1. CASE Start(p)
  <2>1. /\ pc[p] = "start" /\ wire[p] = <<>>
        /\ UNCHANGED <<manager, call, trace, wire, history, crashed>>
    BY <1>1 DEF Start, PhaseInv
  <2>2. /\ pc' \in [Callers -> Labels]
        /\ result' \in [Callers -> {"ok", "error"}]
        /\ chan' \in [Callers -> Chans \cup {None}]
        /\ \A r \in Callers \ {p} : /\ pc'[r] = pc[r] /\ chan'[r] = chan[r]
                                    /\ result'[r] = result[r]
        /\ \/ pc'[p] = "returned" /\ result'[p] = "error"
           \/ pc'[p] = "inject" /\ chan'[p] # None
    <3>1. ch \in Chans /\ ch # None
      BY NamesAssumption DEF TypeOK
    <3> QED BY <1>0, <1>1, <3>1 DEF Start, Return, Goto, Labels
  <2>3. CrashFree'
    BY <2>1 DEF CrashFree
  <2>4. HeadersOf(p) = p /\ ~call[p].traced => trace[p] = None
    BY <2>1 DEF TraceInv
  <2> QED BY <1>0, <2>1, <2>2, <2>3, <2>4, CallStep DEF Running
<1>2. CASE Inject(p)
  <2>1. /\ pc[p] = "inject" /\ wire[p] = <<>> /\ chan[p] # None
        /\ UNCHANGED <<manager, call, trace, wire, history>>
    BY <1>2 DEF Inject, PhaseInv
  <2>2. CASE call[p].traced /\ HeadersOf(p) = "nil" /\ Panic
    BY <2>1, <2>2, PanicStep
  <2>3. CASE /\ UNCHANGED <<chan, result, crashed>>
             /\ \/ ~call[p].traced /\ pc' = [pc EXCEPT ![p] = "send"]
                \/ /\ call[p].traced /\ HeadersOf(p) # "nil"
                   /\ pc' = [pc EXCEPT ![p] = "write"]
    <3>1. /\ pc' \in [Callers -> Labels]
          /\ \A r \in Callers \ {p} : pc'[r] = pc[r]
          /\ \/ pc'[p] = "send" /\ ~call[p].traced
             \/ pc'[p] = "write" /\ call[p].traced /\ HeadersOf(p) # "nil"
      BY <1>0, <2>3 DEF Labels
    <3>2. CrashFree'
      BY <2>3 DEF CrashFree
    <3>3. HeadersOf(p) = p /\ ~call[p].traced => trace[p] = None
      BY <2>1 DEF TraceInv
    <3> QED BY <1>0, <2>1, <2>3, <3>1, <3>2, <3>3, CallStep DEF Running
  <2> QED BY <1>2, <2>2, <2>3 DEF Inject, Goto
<1>3. CASE Set(p)
  <2>1. /\ pc[p] = "write" /\ wire[p] = <<>> /\ chan[p] # None
        /\ pc' = [pc EXCEPT ![p] = "send"]
        /\ trace' = [trace EXCEPT ![HeadersOf(p)] = p]
        /\ UNCHANGED <<manager, call, chan, wire, result, history, crashed>>
        /\ call[p].traced /\ HeadersOf(p) # "nil"
    BY <1>3 DEF Set, Goto, PhaseInv
  <2>2. HeadersOf(p) \in Maps \cup Callers
    BY <2>1 DEF HeadersInv
  <2>3. /\ pc' \in [Callers -> Labels] /\ pc'[p] = "send"
        /\ \A r \in Callers \ {p} : pc'[r] = pc[r]
        /\ trace' \in [Maps \cup Callers -> Callers \cup {None}]
        /\ trace'[HeadersOf(p)] = p
        /\ \A m \in Maps \cup Callers :
              m # HeadersOf(p) => trace'[m] = trace[m]
    BY <1>0, <2>1, <2>2 DEF Labels
  <2>4. CrashFree'
    BY <2>1 DEF CrashFree
  <2> QED BY <1>0, <2>1, <2>3, <2>4, CallStep DEF Running
<1>4. CASE Send(p)
  <2>1. /\ pc[p] = "send" /\ wire[p] = <<>> /\ chan[p] # None
        /\ UNCHANGED <<manager, call, trace, history>>
    BY <1>4 DEF Send, PhaseInv
  <2>2. CASE call[p].nil /\ Panic /\ UNCHANGED wire
    BY <2>1, <2>2, PanicStep
  <2>3. ASSUME UNCHANGED crashed PROVE CrashFree'
    BY <2>3 DEF CrashFree
  <2>4. CASE /\ Return(p, "error") /\ UNCHANGED <<wire, crashed>>
    <3>1. /\ pc' \in [Callers -> Labels] /\ pc'[p] = "returned"
          /\ result' \in [Callers -> {"ok", "error"}] /\ result'[p] = "error"
          /\ chan' \in [Callers -> Chans \cup {None}]
          /\ \A r \in Callers \ {p} : /\ pc'[r] = pc[r] /\ chan'[r] = chan[r]
                                      /\ result'[r] = result[r]
      BY <1>0, <2>4 DEF Return, Goto, Labels
    <3> QED BY <1>0, <2>1, <2>3, <2>4, <3>1, CallStep DEF Running
  <2>5. CASE /\ wire' = [wire EXCEPT ![p] = Append(@, Carried(p))]
             /\ IF call[p].waits
                THEN Goto(p, "confirm") /\ UNCHANGED <<chan, result>>
                ELSE Return(p, "ok")
             /\ UNCHANGED crashed
    <3>1. Carried(p) \in Callers \cup {None}
      BY <1>0 DEF Carried, HeadersInv
    <3>2. /\ Append(<<>>, Carried(p)) = <<Carried(p)>>
          /\ <<Carried(p)>> \in Wires /\ Len(<<Carried(p)>>) = 1
      BY <3>1
    <3>3. /\ wire' \in [Callers -> Wires] /\ wire'[p] = <<Carried(p)>>
          /\ \A r \in Callers \ {p} : wire'[r] = wire[r]
      BY <1>0, <2>1, <2>5, <3>2
    <3>4. /\ pc' \in [Callers -> Labels]
          /\ result' \in [Callers -> {"ok", "error"}]
          /\ chan' \in [Callers -> Chans \cup {None}]
          /\ \A r \in Callers \ {p} : /\ pc'[r] = pc[r] /\ chan'[r] = chan[r]
                                      /\ result'[r] = result[r]
          /\ \/ pc'[p] = "confirm" /\ call[p].waits /\ chan'[p] = chan[p]
             \/ pc'[p] = "returned" /\ result'[p] = "ok" /\ ~call[p].waits
      BY <1>0, <2>5 DEF Return, Goto, Labels
    <3> QED BY <1>0, <2>1, <2>3, <2>5, <3>2, <3>3, <3>4, CallStep DEF Running
  <2> QED BY <1>4, <2>2, <2>4, <2>5 DEF Send
<1>5. CASE WaitContext(p)
  BY <1>5, PanicStep DEF WaitContext, PhaseInv
<1> QED BY <1>1, <1>2, <1>3, <1>4, <1>5 DEF Step

\* Every step of the callers, the manager and the broker.
LEMMA PublisherStep == PublisherInv /\ [Next]_vars => PublisherInv'
<1> SUFFICES ASSUME PublisherInv, [Next]_vars PROVE PublisherInv'
  OBVIOUS
<1>0. TypeOK /\ PhaseInv /\ HeadersInv /\ ShareInv
  BY DEF PublisherInv
<1>1. CASE ManagerStep
  <2>1. /\ UNCHANGED <<dead, pc, call, chan, trace, wire, result, history,
                       crashed>>
        /\ Managed!Next
    BY <1>1 DEF ManagerStep
  <2>2. /\ phase' \in {"open", "suspended", "closed"} /\ conn' \in {None}
        /\ ch' \in Chans
    BY <1>0, <2>1 DEF Managed!Next, Managed!Connect, Managed!Suspend,
       Managed!Replace, Managed!Resume, Managed!Renew, Managed!Close, TypeOK
  <2> QED BY <1>0, <2>1, <2>2, OutsideStep DEF TypeOK
<1>2. CASE ChannelDies
  <2>1. dead' \subseteq Chans
    BY <1>0, <1>2 DEF ChannelDies, TypeOK
  <2> QED BY <1>0, <1>2, <2>1, OutsideStep DEF ChannelDies, TypeOK
<1>3. CASE MapRace
  <2>1. PICK p \in Callers, r \in Callers :
           /\ p # r /\ HeadersOf(p) = HeadersOf(r)
           /\ pc[p] = "write" /\ pc[r] \in {"write", "send"}
    BY <1>3 DEF MapRace
  <2>2. call[p].traced /\ HeadersOf(p) # "nil" /\ chan[p] # None
    BY <1>0, <2>1 DEF PhaseInv
  <2>3. overlaps[p]
    BY <1>0, <2>1, <2>2, OwnMap DEF Running
  <2> QED BY <1>3, <2>2, <2>3, PanicStep DEF MapRace
<1>4. CASE UNCHANGED vars
  BY <1>0, <1>4, OutsideStep DEF vars, manager, TypeOK
<1> QED BY <1>1, <1>2, <1>3, <1>4, BeginStep, StepStep DEF Next

\* What a caller can rely on, and why.
LEMMA PublisherInvariant == Spec => []PublisherInv
BY PublisherInit, PublisherStep, PTL DEF Spec

\* The calls keep to their sets; no call hands over more than one message.
THEOREM TypeCorrect == Spec => []TypeOK
BY PublisherInvariant, PTL DEF PublisherInv

\* A message carries the trace of its own call, as long as no other call has
\* its headers map at the same time.
THEOREM TraceIsOwn == Spec => []OwnTrace
BY PublisherInvariant, PTL DEF PublisherInv

\* The result of a call that does not wait for a confirmation tells whether
\* its message was handed over.
THEOREM ResultIsHonest == Spec => []HonestResult
BY PublisherInvariant, PTL DEF PublisherInv

\* Only a nil message, a nil map for a trace, a map that two calls have at
\* once and one writes, or PublishDeadline ends the program.
THEOREM CrashHasCause == Spec => []CrashFree
BY PublisherInvariant, PTL DEF PublisherInv

=============================================================================
