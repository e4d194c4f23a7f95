------------------------- MODULE ConnectionManager -------------------------
(***************************************************************************)
(* The resilient connection manager of bunmq (connection_manager.go): the  *)
(* monitor goroutine that reconnects, the application goroutine that       *)
(* applies a topology and later closes the manager, and the network that   *)
(* loses connections, fails channels and cancels consumers.                *)
(*                                                                         *)
(* One action stands for the code between two points at which another      *)
(* goroutine can be observed: a lock operation, a call to the broker, or   *)
(* the select of the monitor loop.                                         *)
(***************************************************************************)
EXTENDS Naturals, FiniteSets

CONSTANTS
    Conns,        \* connection objects; a closed, unreferenced one is reused
    Chans,        \* channel objects, reused in the same way
    NoConn,       \* the nil connection
    NoChan,       \* the nil channel
    Limits,       \* values of cfg.MaxAttempts, 0 for "no limit"
    InitialDelay, \* cm.reconnectDelay, in any unit of time
    BackoffMax,   \* cm.reconnectBackoffMax
    CallbackReads,\* the reconnect callback of the application calls GetChannel
    MaxFaults,    \* bound: failures the network and the broker inject
    MaxCancels    \* bound: consumers the broker cancels

ASSUME NilAssumption == NoConn \notin Conns /\ NoChan \notin Chans
ASSUME LimitsAssumption == Limits \subseteq Nat
ASSUME DelaysAssumption == InitialDelay \in Nat /\ BackoffMax \in Nat
ASSUME CallbackAssumption == CallbackReads \in BOOLEAN
ASSUME BoundsAssumption == MaxFaults \in Nat /\ MaxCancels \in Nat

VARIABLES
    conn, ch,     \* cm.conn, cm.ch
    closed,       \* cm.closed: set by Close and during every reconnection
    cancelled,    \* cm.ctx is done
    mu,           \* holder of the write lock cm.mu
    hasTopology,  \* cm.topology # nil
    callback,     \* cm.reconnectCallback # nil
    limit,        \* cm.maxReconnectAttempts, set once
    connErr,      \* an error waits in cm.connCloseNotify
    chErr,        \* an error waits in cm.chCloseNotify
    monPc,        \* where the monitor goroutine is
    attempt,      \* the attempt counter of handleConnectionFailure
    delay,        \* its delay before the next attempt
    newConn,      \* conn and ch returned by NewConnection (or conn.Channel)
    newCh,        \*   and not yet installed in the manager
    appPc, appCh, \* the goroutine of Apply and Close, and Apply's local ch
    up,           \* the open connections
    home,         \* the connection a channel is open on, NoConn once closed
    tags,         \* basic.cancel notices unread: 1 fills the buffer, 2 blocks
    declared,     \* open connections the topology was declared over
    faults, cancels

manager == <<conn, ch, closed, cancelled, hasTopology, callback, limit>>
notices == <<connErr, chErr>>
monitor == <<monPc, attempt, delay>>
fresh   == <<newConn, newCh>>
app     == <<appPc, appCh>>
network == <<up, home, tags, declared>>
budget  == <<faults, cancels>>
vars    == <<manager, mu, notices, monitor, fresh, app, network, budget>>

MonitorPcs == {"absent", "select", "chFail", "chOpen", "chInstall",
               "notify", "reconnect", "attempt", "wait", "connect", "dial",
               "install", "reopen", "topology", "closeConn", "reclose",
               "stopped"}
AppPcs == {"new", "install", "getChannel", "declare", "setTopology",
           "running", "close", "closeChannel", "closeConn", "done", "failed"}

ManagerType ==
    /\ conn \in Conns \cup {NoConn} /\ ch \in Chans \cup {NoChan}
    /\ closed \in BOOLEAN /\ cancelled \in BOOLEAN /\ hasTopology \in BOOLEAN
    /\ callback \in BOOLEAN /\ limit \in Limits
    /\ mu \in {"free", "monitor", "app"}
GoroutineType ==
    /\ monPc \in MonitorPcs /\ attempt \in Nat /\ delay \in Nat
    /\ newConn \in Conns \cup {NoConn} /\ newCh \in Chans \cup {NoChan}
    /\ appPc \in AppPcs /\ appCh \in Chans \cup {NoChan}
NetworkType ==
    /\ up \subseteq Conns /\ declared \subseteq Conns
    /\ home \in [Chans -> Conns \cup {NoConn}] /\ tags \in [Chans -> 0..2]
    /\ connErr \in BOOLEAN /\ chErr \in BOOLEAN

TypeOK == /\ ManagerType /\ GoroutineType /\ NetworkType
          /\ faults \in Nat /\ cancels \in Nat

Init ==
    /\ conn = NoConn /\ ch = NoChan
    /\ closed = FALSE /\ cancelled = FALSE /\ hasTopology = FALSE
    /\ callback = FALSE /\ limit \in Limits /\ delay = InitialDelay
    /\ mu = "free" /\ connErr = FALSE /\ chErr = FALSE
    /\ monPc = "absent" /\ attempt = 0 /\ newConn = NoConn /\ newCh = NoChan
    /\ appPc = "new" /\ appCh = NoChan
    /\ up = {} /\ declared = {}
    /\ home = [k \in Chans |-> NoConn] /\ tags = [k \in Chans |-> 0]
    /\ faults = 0 /\ cancels = 0

-----------------------------------------------------------------------------
(* The AMQP library, as the manager uses it.                               *)

IsOpen(k) == k \in Chans /\ home[k] # NoConn

\* The reader goroutine of c is blocked on a full NotifyCancel channel: no
\* answer of the broker is read, so no call over c returns.
Stalled(c) == \E k \in Chans : home[k] = c /\ tags[k] = 2

\* A call over channel k that the broker answers.
Answers(k) == IsOpen(k) /\ ~Stalled(home[k])

Fault == faults < MaxFaults /\ faults' = faults + 1 /\ UNCHANGED cancels

\* Any one member of S: which of the unreferenced objects is used again
\* makes no difference.
OneOf(S) == {x \in S : x = CHOOSE y \in S : TRUE}

FreeConns == OneOf(Conns \ (up \cup {conn, newConn}))
FreeChans == OneOf({k \in Chans : home[k] = NoConn} \ {ch, newCh, appCh})

\* Connection c and all its channels are down; err tells whether the
\* library reports an error to the NotifyClose receivers.
ConnectionDown(c, err) ==
    /\ up' = up \ {c}
    /\ home' = [k \in Chans |-> IF home[k] = c THEN NoConn ELSE home[k]]
    /\ tags' = [k \in Chans |-> IF home[k] = c THEN 0 ELSE tags[k]]
    /\ declared' = declared \ {c}
    /\ connErr' = (connErr \/ (err /\ c = conn))
    /\ chErr' = (chErr \/ (err /\ IsOpen(ch) /\ home[ch] = c))

\* Channel k alone is down.
ChannelDown(k, err) ==
    /\ home' = [home EXCEPT ![k] = NoConn]
    /\ tags' = [tags EXCEPT ![k] = 0]
    /\ chErr' = (chErr \/ (err /\ k = ch))
    /\ UNCHANGED <<up, declared, connErr>>

OpenChannel(k, c) ==
    /\ k \in FreeChans
    /\ home' = [home EXCEPT ![k] = c]
    /\ tags' = [tags EXCEPT ![k] = 0]
    /\ newCh' = k

-----------------------------------------------------------------------------
(* NewConnection and connect, run by NewConnectionManager and the monitor. *)

\* dial and conn.Channel both succeed.
DialOk ==
    \E c \in FreeConns, k \in FreeChans :
        /\ up' = up \cup {c} /\ newConn' = c
        /\ OpenChannel(k, c)
        /\ UNCHANGED <<declared, budget>>

\* dial fails, or conn.Channel fails on a connection that is then dropped
\* without being closed.
DialFailed ==
    /\ UNCHANGED <<home, tags, declared, fresh>>
    /\ \/ UNCHANGED <<up, budget>>
       \/ Fault /\ \E c \in FreeConns : up' = up \cup {c}

\* The end of connect: register for notices, assign the fields. A connection
\* that went down since the dial leaves no error in the new notify channels.
Install ==
    /\ conn' = newConn /\ ch' = newCh
    /\ connErr' = FALSE /\ chErr' = FALSE
    /\ newConn' = NoConn /\ newCh' = NoChan

-----------------------------------------------------------------------------
(* What callers of the manager see.                                        *)

GetChannelOk == ~closed /\ IsOpen(ch)
GetConnectionOk == ~closed /\ conn \in up
IsHealthy == GetConnectionOk /\ GetChannelOk

\* A call of IsHealthy, which takes the read lock, returns true.
Serving == mu = "free" /\ IsHealthy

(* The application: topology.Apply, then Close, possibly more than once.   *)

NewManager ==
    /\ appPc = "new"
    /\ \/ DialOk /\ appPc' = "install"
       \/ DialFailed /\ appPc' = "failed"
    /\ UNCHANGED <<manager, mu, notices, monitor, appCh>>

StartMonitor ==
    /\ appPc = "install"
    /\ Install
    /\ monPc' = "select" /\ appPc' = "getChannel"
    /\ UNCHANGED <<closed, cancelled, hasTopology, callback, limit, mu,
                   attempt, delay, appCh, network, budget>>

ApplyGetChannel ==
    /\ appPc = "getChannel" /\ mu = "free"
    /\ IF GetChannelOk
       THEN appPc' = "declare" /\ appCh' = ch
       ELSE appPc' = "failed" /\ appCh' = appCh
    /\ UNCHANGED <<manager, mu, notices, monitor, fresh, network, budget>>

ApplyDeclared ==
    /\ appPc = "declare" /\ Answers(appCh)
    /\ declared' = declared \cup {home[appCh]}
    /\ appPc' = "setTopology" /\ appCh' = NoChan
    /\ UNCHANGED <<manager, mu, notices, monitor, fresh, up, home, tags,
                   budget>>

\* The channel is closed, or the broker refuses a declaration and closes it.
ApplyRefused ==
    /\ appPc = "declare" /\ appPc' = "failed" /\ appCh' = NoChan
    /\ \/ ~IsOpen(appCh) /\ UNCHANGED <<network, notices, budget>>
       \/ Answers(appCh) /\ Fault /\ ChannelDown(appCh, TRUE)
    /\ UNCHANGED <<manager, mu, monitor, fresh>>

SetTopology ==
    /\ appPc = "setTopology" /\ mu = "free"
    /\ hasTopology' = TRUE /\ appPc' = "running"
    /\ UNCHANGED <<conn, ch, closed, cancelled, callback, limit, mu, notices,
                   monitor, fresh, appCh, network, budget>>

SetReconnectCallback ==
    /\ appPc = "running" /\ mu = "free" /\ callback' = TRUE
    /\ UNCHANGED <<conn, ch, closed, cancelled, hasTopology, limit, mu, notices,
                   monitor, fresh, app, network, budget>>

CallClose ==
    /\ appPc \in {"running", "done"} /\ appPc' = "close"
    /\ UNCHANGED <<manager, mu, notices, monitor, fresh, appCh, network,
                   budget>>

\* (mutant) Close without its early return.
CloseLockAlways ==
    /\ appPc = "close" /\ mu = "free"
    /\ appPc' = "closeChannel" /\ mu' = "app"
    /\ closed' = TRUE /\ cancelled' = TRUE
    /\ UNCHANGED <<conn, ch, hasTopology, callback, limit, notices, monitor,
                   fresh, appCh, network, budget>>

\* Close returns at once, without cancelling the context, when closed is
\* already set: by an earlier Close or by a reconnection in progress.
CloseLock ==
    /\ appPc = "close" /\ mu = "free"
    /\ IF closed
       THEN appPc' = "done" /\ UNCHANGED <<closed, cancelled, mu>>
       ELSE /\ appPc' = "closeChannel" /\ mu' = "app"
            /\ closed' = TRUE /\ cancelled' = TRUE
    /\ UNCHANGED <<conn, ch, hasTopology, callback, limit, notices, monitor,
                   fresh, appCh, network, budget>>

CloseChannel ==
    /\ appPc = "closeChannel" /\ appPc' = "closeConn"
    /\ \/ ~IsOpen(ch) /\ UNCHANGED <<network, notices>>
       \/ Answers(ch) /\ ChannelDown(ch, FALSE)
    /\ UNCHANGED <<manager, mu, monitor, fresh, appCh, budget>>

\* (mutant) The lock is not released.
CloseConnectionLocked ==
    /\ appPc = "closeConn" /\ appPc' = "done" /\ mu' = mu
    /\ \/ conn \notin up /\ UNCHANGED <<network, notices>>
       \/ conn \in up /\ ~Stalled(conn) /\ ConnectionDown(conn, FALSE)
    /\ UNCHANGED <<manager, monitor, fresh, appCh, budget>>

CloseConnection ==
    /\ appPc = "closeConn" /\ appPc' = "done" /\ mu' = "free"
    /\ \/ conn \notin up /\ UNCHANGED <<network, notices>>
       \/ conn \in up /\ ~Stalled(conn) /\ ConnectionDown(conn, FALSE)
    /\ UNCHANGED <<manager, monitor, fresh, appCh, budget>>

-----------------------------------------------------------------------------
(* The monitor goroutine: monitor.                                         *)

MonitorStop ==
    /\ monPc = "select" /\ cancelled /\ monPc' = "stopped"
    /\ UNCHANGED <<manager, mu, notices, attempt, delay, fresh, app, network,
                   budget>>

MonitorConnClose ==
    /\ monPc = "select" /\ connErr
    /\ connErr' = FALSE /\ monPc' = "reconnect"
    /\ UNCHANGED <<manager, mu, chErr, attempt, delay, fresh, app, network,
                   budget>>

MonitorChClose ==
    /\ monPc = "select" /\ chErr
    /\ chErr' = FALSE /\ monPc' = "chFail"
    /\ UNCHANGED <<manager, mu, connErr, attempt, delay, fresh, app, network,
                   budget>>

\* (mutant) A closed chCancelNotify is taken for no news.
MonitorCancelTagOnly ==
    /\ monPc = "select" /\ monPc' = "chFail"
    /\ IsOpen(ch) /\ tags[ch] > 0 /\ tags' = [tags EXCEPT ![ch] = @ - 1]
    /\ UNCHANGED <<manager, mu, notices, attempt, delay, fresh, app, up, home,
                   declared, budget>>

\* A notice is read, which frees the reader blocked on the next one; or the
\* channel is closed, and with it chCancelNotify: a receive never blocks.
MonitorCancel ==
    /\ monPc = "select" /\ monPc' = "chFail"
    /\ \/ ~IsOpen(ch) /\ UNCHANGED tags
       \/ IsOpen(ch) /\ tags[ch] > 0 /\ tags' = [tags EXCEPT ![ch] = @ - 1]
    /\ UNCHANGED <<manager, mu, notices, attempt, delay, fresh, app, up, home,
                   declared, budget>>

(* handleChannelFailure.                                                   *)

HandleChannelFailure ==
    /\ monPc = "chFail" /\ mu = "free"
    /\ \/ closed /\ monPc' = "select" /\ mu' = mu
       \/ ~closed /\ conn \in up /\ monPc' = "chOpen" /\ mu' = "monitor"
       \/ ~closed /\ conn \notin up /\ monPc' = "reconnect" /\ mu' = mu
    /\ UNCHANGED <<manager, notices, attempt, delay, fresh, app, network,
                   budget>>

ReopenChannel ==
    /\ monPc = "chOpen" /\ conn \in up /\ ~Stalled(conn)
    /\ \E k \in FreeChans : OpenChannel(k, conn)
    /\ monPc' = "chInstall"
    /\ UNCHANGED <<manager, mu, notices, attempt, delay, newConn, app, up,
                   declared, budget>>

\* (mutant) The error path keeps the lock.
ReopenChannelFailedLocked ==
    /\ monPc = "chOpen" /\ mu' = mu /\ monPc' = "reconnect"
    /\ \/ conn \notin up /\ UNCHANGED budget
       \/ conn \in up /\ ~Stalled(conn) /\ Fault
    /\ UNCHANGED <<manager, notices, attempt, delay, fresh, app, network>>

\* conn.Channel fails: the connection is down, or it refuses a channel.
ReopenChannelFailed ==
    /\ monPc = "chOpen" /\ mu' = "free" /\ monPc' = "reconnect"
    /\ \/ conn \notin up /\ UNCHANGED budget
       \/ conn \in up /\ ~Stalled(conn) /\ Fault
    /\ UNCHANGED <<manager, notices, attempt, delay, fresh, app, network>>

\* setupChannelNotifications and the assignment. The old channel, when only
\* its consumer was cancelled, stays open.
InstallChannel ==
    /\ monPc = "chInstall" /\ mu' = "free" /\ monPc' = "notify"
    /\ ch' = newCh /\ newCh' = NoChan /\ chErr' = FALSE
    /\ UNCHANGED <<conn, closed, cancelled, hasTopology, callback, limit,
                   connErr, attempt, delay, newConn, app, network, budget>>

\* The callback, read and called without the lock. It may want the read lock.
Notify ==
    /\ monPc = "notify" /\ (callback /\ CallbackReads => mu = "free")
    /\ monPc' = "select"
    /\ UNCHANGED <<manager, mu, notices, attempt, delay, fresh, app, network,
                   budget>>

(* handleConnectionFailure.                                                *)

\* (mutant) The manager stays open to its callers while it reconnects.
ReconnectServing ==
    /\ monPc = "reconnect" /\ mu = "free"
    /\ attempt' = 0 /\ delay' = InitialDelay /\ monPc' = "attempt"
    /\ UNCHANGED <<manager, mu, notices, fresh, app, network, budget>>

Reconnect ==
    /\ monPc = "reconnect" /\ mu = "free"
    /\ closed' = TRUE /\ monPc' = "attempt"
    /\ attempt' = 0 /\ delay' = InitialDelay
    /\ UNCHANGED <<conn, ch, cancelled, hasTopology, callback, limit, mu,
                   notices, fresh, app, network, budget>>

\* (mutant) No look at the context before the first attempt.
AttemptUnchecked ==
    /\ monPc = "attempt"
    /\ attempt' = IF limit = 0 THEN 0 ELSE attempt + 1
    /\ monPc' = IF attempt' > limit THEN "select" ELSE "wait"
    /\ UNCHANGED <<manager, mu, notices, delay, fresh, app, network, budget>>

\* The counter is kept at 0 when nothing bounds it: it is then only logged.
Attempt ==
    /\ monPc = "attempt"
    /\ IF cancelled
       THEN monPc' = "select" /\ attempt' = attempt
       ELSE /\ attempt' = IF limit = 0 THEN 0 ELSE attempt + 1
            /\ monPc' = IF attempt' > limit THEN "select" ELSE "wait"
    /\ UNCHANGED <<manager, mu, notices, delay, fresh, app, network, budget>>

\* The select between ctx.Done() and the timer.
Wait ==
    /\ monPc = "wait"
    /\ monPc' \in {"connect"} \cup (IF cancelled THEN {"select"} ELSE {})
    /\ UNCHANGED <<manager, mu, notices, attempt, delay, fresh, app, network,
                   budget>>

ConnectLock ==
    /\ monPc = "connect" /\ mu = "free"
    /\ mu' = "monitor" /\ monPc' = "dial"
    /\ UNCHANGED <<manager, notices, attempt, delay, fresh, app, network,
                   budget>>

\* The factor 1.5 is a literal: ReconnectionConfig.BackoffFactor is not used.
Longer == (3 * delay) \div 2

ConnectOk ==
    /\ monPc = "dial" /\ DialOk /\ monPc' = "install"
    /\ UNCHANGED <<manager, mu, notices, attempt, delay, app>>

\* (mutant) The limit is the least delay.
ConnectFailedAtLeast ==
    /\ monPc = "dial" /\ DialFailed /\ monPc' = "attempt" /\ mu' = "free"
    /\ delay' = IF Longer < BackoffMax THEN BackoffMax ELSE InitialDelay
    /\ UNCHANGED <<manager, notices, attempt, app>>

ConnectFailed ==
    /\ monPc = "dial" /\ DialFailed /\ monPc' = "attempt" /\ mu' = "free"
    /\ delay' = IF Longer < BackoffMax THEN Longer ELSE BackoffMax
    /\ UNCHANGED <<manager, notices, attempt, app>>

\* (mutant) The new channel is not stored.
ConnectInstallOldChannel ==
    /\ monPc = "install" /\ monPc' = "reopen" /\ mu' = "free"
    /\ conn' = newConn /\ connErr' = FALSE /\ chErr' = FALSE
    /\ newConn' = NoConn /\ newCh' = NoChan
    /\ UNCHANGED <<ch, closed, cancelled, hasTopology, callback, limit, attempt,
                   delay, app, network, budget>>

\* connect calls the callback before it unlocks: one that reads the manager
\* waits for ever, and connect with it.
ConnectInstall ==
    /\ callback => ~CallbackReads
    /\ monPc = "install" /\ Install /\ monPc' = "reopen" /\ mu' = "free"
    /\ UNCHANGED <<closed, cancelled, hasTopology, callback, limit, attempt,
                   delay, app, network, budget>>

Reopen ==
    /\ monPc = "reopen" /\ mu = "free"
    /\ closed' = FALSE /\ monPc' = "topology"
    /\ UNCHANGED <<conn, ch, cancelled, hasTopology, callback, limit, mu,
                   notices, attempt, delay, fresh, app, network, budget>>

Redeclare ==
    /\ monPc = "topology" /\ monPc' = "select"
    /\ \/ ~hasTopology /\ UNCHANGED declared
       \/ hasTopology /\ Answers(ch) /\ declared' = declared \cup {home[ch]}
    /\ UNCHANGED <<manager, mu, notices, attempt, delay, fresh, app, up, home,
                   tags, budget>>

\* (mutant) A failed redeclaration is only logged.
RedeclareFailedLogged ==
    /\ monPc = "topology" /\ hasTopology /\ monPc' = "select"
    /\ \/ ~IsOpen(ch) /\ UNCHANGED <<network, notices, budget>>
       \/ Answers(ch) /\ Fault /\ ChannelDown(ch, TRUE)
    /\ UNCHANGED <<manager, mu, attempt, delay, fresh, app>>

RedeclareFailed ==
    /\ monPc = "topology" /\ hasTopology /\ monPc' = "closeConn"
    /\ \/ ~IsOpen(ch) /\ UNCHANGED <<network, notices, budget>>
       \/ Answers(ch) /\ Fault /\ ChannelDown(ch, TRUE)
    /\ UNCHANGED <<manager, mu, attempt, delay, fresh, app>>

\* conn.Close() returns an error when the connection is closed already, or
\* when writing fails; the connection is down afterwards in every case.
DropConnection ==
    /\ monPc = "closeConn"
    /\ \/ conn \notin up /\ monPc' = "select"
          /\ UNCHANGED <<network, notices, budget>>
       \/ conn \in up /\ ~Stalled(conn) /\ monPc' = "reclose"
          /\ ConnectionDown(conn, FALSE) /\ UNCHANGED budget
       \/ conn \in up /\ monPc' = "select" /\ Fault
          /\ \E err \in BOOLEAN : ConnectionDown(conn, err)
    /\ UNCHANGED <<manager, mu, attempt, delay, fresh, app>>

Reclose ==
    /\ monPc = "reclose" /\ mu = "free"
    /\ closed' = TRUE /\ monPc' = "attempt"
    /\ UNCHANGED <<conn, ch, cancelled, hasTopology, callback, limit, mu,
                   notices, attempt, delay, fresh, app, network, budget>>

-----------------------------------------------------------------------------
(* The network and the broker.                                             *)

ConnectionLost ==
    \E c \in up :
        /\ ~Stalled(c) /\ Fault /\ ConnectionDown(c, TRUE)
        /\ UNCHANGED <<manager, mu, monitor, fresh, app>>

ChannelError ==
    \E k \in Chans :
        /\ Answers(k) /\ Fault /\ ChannelDown(k, TRUE)
        /\ UNCHANGED <<manager, mu, monitor, fresh, app>>

\* Apply has returned: a dispatcher may have subscribed consumers.
Consuming ==
    appPc \in {"running", "close", "closeChannel", "closeConn", "done"}

\* (mutant) The reader of the connection goes on with a full buffer.
CancelConsumerUnblocked ==
    \E k \in Chans \ {newCh} :
        /\ Consuming /\ IsOpen(k) /\ cancels < MaxCancels
        /\ tags' = [tags EXCEPT ![k] = @ + 1]
        /\ cancels' = cancels + 1
        /\ UNCHANGED <<manager, mu, notices, monitor, fresh, app, up, home,
                       declared, faults>>

\* basic.cancel for a consumer of a channel that was handed out.
CancelConsumer ==
    \E k \in Chans \ {newCh} :
        /\ Consuming /\ Answers(k) /\ cancels < MaxCancels
        /\ tags' = [tags EXCEPT ![k] = @ + 1]
        /\ cancels' = cancels + 1
        /\ UNCHANGED <<manager, mu, notices, monitor, fresh, app, up, home,
                       declared, faults>>

-----------------------------------------------------------------------------

Application ==
    \/ NewManager \/ StartMonitor \/ ApplyGetChannel \/ ApplyDeclared
    \/ ApplyRefused \/ SetTopology \/ SetReconnectCallback \/ CallClose
    \/ CloseLock \/ CloseChannel \/ CloseConnection

Monitor ==
    \/ MonitorStop \/ MonitorConnClose \/ MonitorChClose \/ MonitorCancel
    \/ HandleChannelFailure \/ ReopenChannel \/ ReopenChannelFailed
    \/ InstallChannel \/ Notify \/ Reconnect \/ Attempt \/ Wait \/ ConnectLock
    \/ ConnectOk \/ ConnectFailed \/ ConnectInstall \/ Reopen
    \/ Redeclare \/ RedeclareFailed \/ DropConnection \/ Reclose

Network == ConnectionLost \/ ChannelError \/ CancelConsumer

Next == Application \/ Monitor \/ Network

Spec == Init /\ [][Next]_vars

\* Goroutines that can run do run. The select of the monitor picks at random
\* among its ready cases, so a context that stays done is noticed; a dial
\* that is retried for ever succeeds at some time. Nobody has to call Close.
Fairness ==
    /\ WF_vars(Monitor)
    /\ WF_vars(Application /\ appPc \notin {"new", "running", "done"})
    /\ SF_vars(MonitorStop)
    /\ SF_vars(ConnectOk)

FairSpec == Spec /\ Fairness

-----------------------------------------------------------------------------
(* What the manager guarantees.                                            *)

\* Once Close has cancelled the context the manager never serves again: the
\* monitor, which reopens a manager after reconnecting, cannot be past its
\* look at the context when Close takes effect.
CancelledIsClosed == cancelled => closed

\* After the Close that took effect has returned, the connection of the
\* manager is down, whatever the monitor was doing at the time.
CloseReleasesConnection == appPc = "done" /\ cancelled => conn \notin up

\* The channel handed to callers never belongs to a connection that was
\* replaced, also between the steps of a reconnection.
ChannelOfConnection == IsOpen(ch) => home[ch] = conn

\* The lock protocol of the two goroutines, and where in a reconnection the
\* manager is known to be closed and not cancelled. With it the invariants
\* above become inductive.
LockDiscipline ==
    /\ mu = "monitor" <=> monPc \in {"chOpen", "chInstall", "dial", "install"}
    /\ mu = "app" <=> appPc \in {"closeChannel", "closeConn"}
    /\ appPc \in {"new", "install"} => monPc = "absent"

ReconnectionIsPrivate ==
    /\ monPc \in {"attempt", "wait", "connect", "dial", "install", "reopen"}
         => closed
    /\ monPc \in {"wait", "connect", "dial", "install", "reopen"} => ~cancelled
    /\ monPc \in {"chOpen", "chInstall"} => ~closed
    /\ cancelled => appPc \in {"close", "closeChannel", "closeConn", "done"}
    /\ appPc \in {"close", "done"} /\ cancelled => conn \notin up

\* No connection and no channel is opened once the context is cancelled.
NoDialAfterCancel ==
    [][cancelled => /\ up' \subseteq up
                    /\ \A k \in Chans : home[k]' \in {home[k], NoConn}]_vars

\* The monitor leaves handleConnectionFailure with a live connection and a
\* manager that serves only after it declared the topology over it.
RedeclaredOnReturn ==
    [][(monPc \in {"topology", "closeConn"} /\ monPc' = "select" /\ hasTopology)
         => (closed \/ conn \notin up' \/ conn \in declared')]_vars

\* During an outage the waits between attempts never get shorter, refused
\* topologies included, and they stay within the limit (connection_manager.go,
\* handleConnectionFailure).
BackoffGrows ==
    [][InitialDelay <= BackoffMax =>
          /\ delay' >= delay \/ monPc = "reconnect"
          /\ delay' <= BackoffMax]_vars

\* The attempts allowed are used up: the manager stays closed.
GaveUp == monPc = "select" /\ limit # 0 /\ attempt > limit

\* connect calls, with the lock, a callback that waits for the lock.
CallbackWaits == monPc = "install" /\ callback /\ CallbackReads

\* The manager serves a healthy channel again after every failure, unless
\* Close took effect. Nothing but three ends prevents it: the attempts are
\* used up, the callback wants the lock of connect, or the reader of the
\* connection is blocked for ever on a full NotifyCancel buffer
\* (connection_manager.go, monitor).
Recovers ==
    monPc # "absent" ~> \/ Serving \/ cancelled
                        \/ GaveUp \/ CallbackWaits \/ []Stalled(conn)

\* A Close that took effect ends the monitor goroutine, unless a call over a
\* connection whose reader is blocked keeps it from ending.
ShutdownCompletes == cancelled ~> monPc = "stopped" \/ []Stalled(conn)

\* A call of Close returns. No lock is held for ever but by a connect whose
\* callback wants it, or for a call over a connection whose reader is blocked.
CloseReturns ==
    appPc = "close" ~> \/ appPc = "done"
                       \/ CallbackWaits \/ [](mu # "free" /\ Stalled(conn))

-----------------------------------------------------------------------------
(* The manager as its callers see it.                                      *)

Managed == INSTANCE ManagedConnection WITH
    Conns <- Conns \cup {NoConn},
    Chans <- Chans \cup {NoChan},
    phase <- IF monPc = "absent" THEN "absent"
             ELSE IF cancelled THEN "closed"
             ELSE IF closed THEN "suspended" ELSE "open"

\* The manager implements a connection that is replaced only while its
\* callers are turned away, and that nothing changes once it is closed.
Implements == Managed!Spec

-----------------------------------------------------------------------------
(* What the documentation says, and the code does not do.                  *)

\* connection_manager.go: "Close gracefully closes the connection manager":
\* no healthy manager after Close has returned.
CloseIsFinal == appPc = "done" => ~IsHealthy

=============================================================================
