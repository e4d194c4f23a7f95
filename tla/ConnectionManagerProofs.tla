---------------------- MODULE ConnectionManagerProofs ----------------------
(* Theorems about ConnectionManager, for every value of its constants.     *)
EXTENDS ConnectionManager, TLAPS

(***************************************************************************)
(* Type correctness. The operators on the network come first.              *)
(***************************************************************************)
LEMMA NetworkSame ==
    ASSUME NetworkType, UNCHANGED <<network, notices>>
    PROVE  NetworkType'
BY DEF NetworkType, network, notices

\* A connection that goes down, with or without an error for NotifyClose.
LEMMA ConnectionDownType ==
    ASSUME NetworkType, NEW c, NEW err \in BOOLEAN, ConnectionDown(c, err)
    PROVE  NetworkType'
<1>1. up' \subseteq Conns /\ declared' \subseteq Conns
  BY DEF NetworkType, ConnectionDown
<1>2. home' \in [Chans -> Conns \cup {NoConn}] /\ tags' \in [Chans -> 0..2]
  BY DEF NetworkType, ConnectionDown
<1>3. connErr' \in BOOLEAN /\ chErr' \in BOOLEAN
  BY Zenon DEF NetworkType, ConnectionDown
<1> QED BY <1>1, <1>2, <1>3 DEF NetworkType

\* A channel that goes down alone.
LEMMA ChannelDownType ==
    ASSUME NetworkType, NEW k \in Chans, NEW err \in BOOLEAN, ChannelDown(k, err)
    PROVE  NetworkType'
<1>1. up' \subseteq Conns /\ declared' \subseteq Conns
  BY DEF NetworkType, ChannelDown
<1>2. home' \in [Chans -> Conns \cup {NoConn}] /\ tags' \in [Chans -> 0..2]
  BY DEF NetworkType, ChannelDown
<1>3. connErr' \in BOOLEAN /\ chErr' \in BOOLEAN
  BY Zenon DEF NetworkType, ChannelDown
<1> QED BY <1>1, <1>2, <1>3 DEF NetworkType

\* NewConnection returns a connection and a channel of the right type.
LEMMA DialOkType ==
    ASSUME TypeOK, DialOk
    PROVE  /\ up' \subseteq Conns /\ declared' \subseteq Conns
           /\ home' \in [Chans -> Conns \cup {NoConn}]
           /\ tags' \in [Chans -> 0..2]
           /\ newConn' \in Conns /\ newCh' \in Chans
           /\ faults' \in Nat /\ cancels' \in Nat
BY DEF TypeOK, NetworkType, DialOk, OpenChannel, FreeConns, FreeChans, OneOf, budget

\* NewConnection fails: nothing is returned, at most a connection leaks.
LEMMA DialFailedType ==
    ASSUME TypeOK, DialFailed
    PROVE  /\ up' \subseteq Conns /\ declared' \subseteq Conns
           /\ home' \in [Chans -> Conns \cup {NoConn}]
           /\ tags' \in [Chans -> 0..2]
           /\ newConn' = newConn /\ newCh' = newCh
           /\ faults' \in Nat /\ cancels' \in Nat
BY DEF TypeOK, NetworkType, DialFailed, Fault, FreeConns, OneOf, fresh, budget

\* The initial state is type-correct.
LEMMA TypeInit == Init => TypeOK
<1> SUFFICES ASSUME Init PROVE TypeOK
  OBVIOUS
<1>1. ManagerType
  BY DEF Init, ManagerType
<1>2. GoroutineType
  BY DelaysAssumption DEF Init, GoroutineType, MonitorPcs, AppPcs
<1>3. home \in [Chans -> Conns \cup {NoConn}]
  BY DEF Init
<1>4. tags \in [Chans -> 0..2]
  BY DEF Init
<1> QED BY <1>1, <1>2, <1>3, <1>4 DEF Init, TypeOK, NetworkType

\* Every step of the manager, its callers and the network keeps the types.
LEMMA TypeStep == TypeOK /\ [Next]_vars => TypeOK'
<1> SUFFICES ASSUME TypeOK, [Next]_vars PROVE TypeOK'
 OBVIOUS
<1> USE DEF TypeOK, ManagerType, GoroutineType
<1>1. CASE NewManager
  BY <1>1, DialOkType, DialFailedType DEF NewManager, manager, notices,
     monitor, NetworkType, AppPcs
<1>2. CASE StartMonitor
  BY <1>2 DEF StartMonitor, Install, network, budget, NetworkType,
     MonitorPcs, AppPcs
<1>3. CASE ApplyGetChannel
  BY <1>3 DEF ApplyGetChannel, manager, notices, monitor, fresh, network,
     budget, NetworkType, AppPcs
<1>4. CASE ApplyDeclared
  BY <1>4 DEF ApplyDeclared, Answers, IsOpen, manager, notices, monitor,
     fresh, budget, NetworkType, AppPcs
<1>5. CASE ApplyRefused
  <2>1. NetworkType'
    BY <1>5, TRUE \in BOOLEAN, FALSE \in BOOLEAN, ChannelDownType,
       NetworkSame DEF ApplyRefused, Answers, IsOpen
  <2>2. faults' \in Nat /\ cancels' \in Nat
    <3>1. Fault \/ UNCHANGED budget
      BY <1>5, Zenon DEF ApplyRefused
    <3> QED BY <3>1 DEF Fault, budget
  <2>3. ManagerType' /\ GoroutineType'
    BY <1>5 DEF ApplyRefused, manager, monitor, fresh, budget, AppPcs
  <2> QED BY <2>1, <2>2, <2>3
<1>6. CASE SetTopology
  BY <1>6 DEF SetTopology, notices, monitor, fresh, network, budget,
     NetworkType, AppPcs
<1>7. CASE CallClose
  BY <1>7 DEF CallClose, manager, notices, monitor, fresh, network, budget,
     NetworkType, AppPcs
<1>8. CASE CloseLock
  <2>1. /\ UNCHANGED <<conn, ch, hasTopology, callback, limit>>
        /\ UNCHANGED <<monitor, fresh, appCh, notices, network, budget>>
    BY <1>8 DEF CloseLock
  <2>2. NetworkType'
    BY <2>1 DEF notices, network, NetworkType
  <2>3. faults' \in Nat /\ cancels' \in Nat
    BY <2>1 DEF budget
  <2>4. closed' \in BOOLEAN /\ cancelled' \in BOOLEAN
    BY <1>8, TRUE \in BOOLEAN DEF CloseLock
  <2>5. mu' \in {"free", "monitor", "app"} /\ appPc' \in AppPcs
    BY <1>8 DEF CloseLock, AppPcs
  <2>6. ManagerType'
    BY <2>1, <2>4, <2>5
  <2>7. GoroutineType'
    BY <2>1, <2>5 DEF monitor, fresh
  <2> QED BY <2>2, <2>3, <2>6, <2>7
<1>9. CASE CloseChannel
  <2>1. NetworkType'
    BY <1>9, TRUE \in BOOLEAN, FALSE \in BOOLEAN, ChannelDownType,
       NetworkSame DEF CloseChannel, Answers, IsOpen
  <2>2. faults' \in Nat /\ cancels' \in Nat
    BY <1>9 DEF CloseChannel, budget
  <2>3. ManagerType' /\ GoroutineType'
    BY <1>9 DEF CloseChannel, manager, monitor, fresh, budget, AppPcs
  <2> QED BY <2>1, <2>2, <2>3
<1>10. CASE CloseConnection
  <2>1. NetworkType'
    BY <1>10, TRUE \in BOOLEAN, FALSE \in BOOLEAN, ConnectionDownType,
       NetworkSame DEF CloseConnection
  <2>2. faults' \in Nat /\ cancels' \in Nat
    BY <1>10 DEF CloseConnection, budget
  <2>3. ManagerType' /\ GoroutineType'
    BY <1>10 DEF CloseConnection, manager, monitor, fresh, budget, AppPcs
  <2> QED BY <2>1, <2>2, <2>3
<1>11. CASE MonitorStop
  BY <1>11 DEF MonitorStop, manager, notices, fresh, app, network, budget,
     NetworkType, MonitorPcs
<1>12. CASE MonitorConnClose
  <2>1. ManagerType' /\ GoroutineType'
    BY <1>12 DEF MonitorConnClose, manager, fresh, app, MonitorPcs
  <2>2. up' = up /\ home' = home /\ tags' = tags /\ declared' = declared
    BY <1>12 DEF MonitorConnClose, network
  <2>3. connErr' \in BOOLEAN /\ chErr' \in BOOLEAN
    BY <1>12, Zenon DEF MonitorConnClose, NetworkType
  <2>4. faults' \in Nat /\ cancels' \in Nat
    BY <1>12 DEF MonitorConnClose, budget
  <2> QED BY <2>1, <2>2, <2>3, <2>4 DEF NetworkType
<1>13. CASE MonitorChClose
  <2>1. ManagerType' /\ GoroutineType'
    BY <1>13 DEF MonitorChClose, manager, fresh, app, MonitorPcs
  <2>2. up' = up /\ home' = home /\ tags' = tags /\ declared' = declared
    BY <1>13 DEF MonitorChClose, network
  <2>3. connErr' \in BOOLEAN /\ chErr' \in BOOLEAN
    BY <1>13, Zenon DEF MonitorChClose, NetworkType
  <2>4. faults' \in Nat /\ cancels' \in Nat
    BY <1>13 DEF MonitorChClose, budget
  <2> QED BY <2>1, <2>2, <2>3, <2>4 DEF NetworkType
<1>14. CASE MonitorCancel
  BY <1>14 DEF MonitorCancel, IsOpen, manager, notices, fresh, app, budget,
     NetworkType, MonitorPcs
<1>15. CASE HandleChannelFailure
  BY <1>15 DEF HandleChannelFailure, manager, notices, monitor, fresh, app,
     network, budget, NetworkType, MonitorPcs
<1>16. CASE ReopenChannel
  BY <1>16 DEF ReopenChannel, OpenChannel, FreeChans, OneOf, manager, notices, app,
     budget, NetworkType, MonitorPcs
<1>17. CASE ReopenChannelFailed
  BY <1>17 DEF ReopenChannelFailed, Fault, manager, notices, fresh, app,
     network, budget, NetworkType, MonitorPcs
<1>18. CASE InstallChannel
  BY <1>18 DEF InstallChannel, app, network, budget, NetworkType, MonitorPcs
<1>19. CASE Reconnect
  BY <1>19, DelaysAssumption DEF Reconnect, notices, fresh, app, network, budget,
     NetworkType, MonitorPcs
<1>20. CASE Attempt
  BY <1>20, LimitsAssumption DEF Attempt, manager, notices, fresh, app,
     network, budget, NetworkType, MonitorPcs
<1>21. CASE Wait
  BY <1>21 DEF Wait, manager, notices, fresh, app, network, budget,
     NetworkType, MonitorPcs
<1>22. CASE ConnectLock
  BY <1>22 DEF ConnectLock, manager, notices, monitor, fresh, app, network,
     budget, NetworkType, MonitorPcs
<1>23. CASE ConnectOk
  BY <1>23, DialOkType DEF ConnectOk, manager, notices, app, NetworkType,
     MonitorPcs
<1>24. CASE ConnectFailed
  BY <1>24, DialFailedType, DelaysAssumption DEF ConnectFailed, Longer,
     manager, notices, app, NetworkType, MonitorPcs
<1>25. CASE ConnectInstall
  BY <1>25 DEF ConnectInstall, Install, app, network, budget, NetworkType,
     MonitorPcs
<1>26. CASE Reopen
  <2>1. /\ UNCHANGED <<conn, ch, cancelled, hasTopology, callback, limit>>
        /\ UNCHANGED <<mu, notices, attempt, delay, fresh, app, network, budget>>
        /\ closed' = FALSE /\ monPc' = "topology"
    BY <1>26 DEF Reopen
  <2>2. NetworkType' /\ faults' \in Nat /\ cancels' \in Nat
    BY <2>1 DEF notices, network, budget, NetworkType
  <2>3. ManagerType'
    BY <2>1, FALSE \in BOOLEAN
  <2>4. GoroutineType'
    BY <2>1 DEF fresh, app, MonitorPcs
  <2> QED BY <2>2, <2>3, <2>4
<1>27. CASE Redeclare
  BY <1>27 DEF Redeclare, Answers, IsOpen, manager, notices, fresh, app,
     budget, NetworkType, MonitorPcs
<1>28. CASE RedeclareFailed
  <2>1. NetworkType'
    BY <1>28, TRUE \in BOOLEAN, FALSE \in BOOLEAN, ChannelDownType,
       NetworkSame DEF RedeclareFailed, Answers, IsOpen
  <2>2. faults' \in Nat /\ cancels' \in Nat
    <3>1. Fault \/ UNCHANGED budget
      BY <1>28, Zenon DEF RedeclareFailed
    <3> QED BY <3>1 DEF Fault, budget
  <2>3. ManagerType' /\ GoroutineType'
    BY <1>28 DEF RedeclareFailed, manager, fresh, app, budget, MonitorPcs
  <2> QED BY <2>1, <2>2, <2>3
<1>29. CASE DropConnection
  <2>1. NetworkType'
    BY <1>29, TRUE \in BOOLEAN, FALSE \in BOOLEAN, ConnectionDownType,
       NetworkSame DEF DropConnection
  <2>2. faults' \in Nat /\ cancels' \in Nat
    <3>1. Fault \/ UNCHANGED budget
      BY <1>29, Zenon DEF DropConnection
    <3> QED BY <3>1 DEF Fault, budget
  <2>3. ManagerType' /\ GoroutineType'
    <3>1. UNCHANGED <<manager, mu, attempt, delay, fresh, app>>
      BY <1>29, Zenon DEF DropConnection
    <3>2. monPc' \in {"select", "reclose"}
      BY <1>29, Zenon DEF DropConnection
    <3> QED BY <3>1, <3>2 DEF manager, fresh, app, MonitorPcs
  <2> QED BY <2>1, <2>2, <2>3
<1>30. CASE Reclose
  BY <1>30 DEF Reclose, notices, fresh, app, network, budget, NetworkType,
     MonitorPcs
<1>31. CASE ConnectionLost
  <2>1. NetworkType'
    BY <1>31, TRUE \in BOOLEAN, FALSE \in BOOLEAN, ConnectionDownType DEF
       ConnectionLost
  <2>2. faults' \in Nat /\ cancels' \in Nat
    BY <1>31 DEF ConnectionLost, Fault, budget
  <2>3. ManagerType' /\ GoroutineType'
    BY <1>31 DEF ConnectionLost, manager, monitor, fresh, app
  <2> QED BY <2>1, <2>2, <2>3
<1>32. CASE ChannelError
  <2>1. NetworkType'
    BY <1>32, TRUE \in BOOLEAN, FALSE \in BOOLEAN, ChannelDownType DEF
       ChannelError, Answers, IsOpen
  <2>2. faults' \in Nat /\ cancels' \in Nat
    BY <1>32 DEF ChannelError, Fault, budget
  <2>3. ManagerType' /\ GoroutineType'
    BY <1>32 DEF ChannelError, manager, monitor, fresh, app
  <2> QED BY <2>1, <2>2, <2>3
<1>33. CASE CancelConsumer
  BY <1>33 DEF CancelConsumer, Answers, Stalled, IsOpen, manager, notices,
     monitor, fresh, app, NetworkType
<1>34. CASE SetReconnectCallback
  BY <1>34 DEF SetReconnectCallback, notices, monitor, fresh, app,
     network, budget, NetworkType, AppPcs
<1>35. CASE Notify
  BY <1>35 DEF Notify, manager, notices, fresh, app, network, budget,
     NetworkType, MonitorPcs
<1>36. CASE UNCHANGED vars
  BY <1>36 DEF vars, NetworkType, manager, notices, monitor, fresh, app,
     network, budget
<1> QED BY <1>1, <1>2, <1>3, <1>4, <1>5, <1>6, <1>7, <1>8, <1>9, <1>10,
     <1>11, <1>12, <1>13, <1>14, <1>15, <1>16, <1>17, <1>18, <1>19, <1>20,
     <1>21, <1>22, <1>23, <1>24, <1>25, <1>26, <1>27, <1>28, <1>29, <1>30,
     <1>31, <1>32, <1>33, <1>34, <1>35, <1>36 DEF Next, Application, Monitor, Network

\* The fields, the network and the program counters keep to their sets.
THEOREM TypeCorrect == Spec => []TypeOK
BY TypeInit, TypeStep, PTL DEF Spec

(***************************************************************************)
(* Closing. CancelledIsClosed is not inductive: Reopen clears closed. It   *)
(* holds because the whole reconnection, from the look at the context to   *)
(* Reopen, runs with closed set, which makes Close return early.           *)
(***************************************************************************)
CloseInv == CancelledIsClosed /\ LockDiscipline /\ ReconnectionIsPrivate

\* The strengthened invariant about Close holds before NewConnectionManager.
LEMMA CloseInit == Init => CloseInv
BY DEF Init, CloseInv, CancelledIsClosed, LockDiscipline,
       ReconnectionIsPrivate

\* Every step keeps it: the lock separates Close from a reconnection.
LEMMA CloseStep == TypeOK /\ CloseInv /\ [Next]_vars => CloseInv'
<1> SUFFICES ASSUME TypeOK, CloseInv, [Next]_vars PROVE CloseInv'
  OBVIOUS
<1> USE DEF CloseInv, CancelledIsClosed, LockDiscipline, ReconnectionIsPrivate,
            TypeOK, ManagerType, GoroutineType
<1>1. CASE NewManager
  BY <1>1 DEF NewManager, DialOk, DialFailed, OpenChannel, FreeConns, OneOf, Fault,
     manager, notices, monitor
<1>2. CASE StartMonitor
  BY <1>2 DEF StartMonitor, Install, network, budget
<1>3. CASE ApplyGetChannel
  BY <1>3 DEF ApplyGetChannel, manager, notices, monitor, fresh, network,
     budget
<1>4. CASE ApplyDeclared
  BY <1>4 DEF ApplyDeclared, manager, notices, monitor, fresh, budget
<1>5. CASE ApplyRefused
  BY <1>5 DEF ApplyRefused, ChannelDown, manager, notices, monitor, fresh,
     network, budget
<1>6. CASE SetTopology
  BY <1>6 DEF SetTopology, notices, monitor, fresh, network, budget
<1>7. CASE CallClose
  BY <1>7 DEF CallClose, manager, notices, monitor, fresh, network, budget
<1>8. CASE CloseLock
  BY <1>8 DEF CloseLock, notices, monitor, fresh, app, network, budget
<1>9. CASE CloseChannel
  BY <1>9 DEF CloseChannel, ChannelDown, manager, notices, monitor, fresh,
     network, budget
<1>10. CASE CloseConnection
  BY <1>10 DEF CloseConnection, ConnectionDown, manager, notices, monitor,
     fresh, network, budget
<1>11. CASE MonitorStop
  BY <1>11 DEF MonitorStop, manager, notices, fresh, app, network, budget
<1>12. CASE MonitorConnClose
  BY <1>12 DEF MonitorConnClose, manager, fresh, app, network, budget
<1>13. CASE MonitorChClose
  BY <1>13 DEF MonitorChClose, manager, fresh, app, network, budget
<1>14. CASE MonitorCancel
  BY <1>14 DEF MonitorCancel, manager, notices, fresh, app, budget
<1>15. CASE HandleChannelFailure
  BY <1>15 DEF HandleChannelFailure, manager, notices, monitor, fresh, app,
     network, budget
<1>16. CASE ReopenChannel
  BY <1>16 DEF ReopenChannel, OpenChannel, manager, notices, app, budget
<1>17. CASE ReopenChannelFailed
  BY <1>17 DEF ReopenChannelFailed, manager, notices, fresh, app, network,
     budget
<1>18. CASE InstallChannel
  BY <1>18 DEF InstallChannel, app, network, budget
<1>19. CASE Reconnect
  BY <1>19 DEF Reconnect, notices, fresh, app, network, budget
<1>20. CASE Attempt
  BY <1>20 DEF Attempt, manager, notices, fresh, app, network, budget
<1>21. CASE Wait
  BY <1>21 DEF Wait, manager, notices, fresh, app, network, budget
<1>22. CASE ConnectLock
  BY <1>22 DEF ConnectLock, manager, notices, monitor, fresh, app, network,
     budget
<1>23. CASE ConnectOk
  BY <1>23 DEF ConnectOk, DialOk, OpenChannel, FreeConns, OneOf, manager, notices,
     app
<1>24. CASE ConnectFailed
  BY <1>24 DEF ConnectFailed, DialFailed, FreeConns, OneOf, Fault, manager,
     notices, app
<1>25. CASE ConnectInstall
  BY <1>25 DEF ConnectInstall, Install, app, network, budget
<1>26. CASE Reopen
  BY <1>26 DEF Reopen, notices, fresh, app, network, budget
<1>27. CASE Redeclare
  BY <1>27 DEF Redeclare, manager, notices, fresh, app, budget
<1>28. CASE RedeclareFailed
  BY <1>28 DEF RedeclareFailed, ChannelDown, manager, notices, fresh, app,
     network, budget
<1>29. CASE DropConnection
  BY <1>29 DEF DropConnection, ConnectionDown, manager, notices, fresh, app,
     network, budget
<1>30. CASE Reclose
  BY <1>30 DEF Reclose, notices, fresh, app, network, budget
<1>31. CASE ConnectionLost
  BY <1>31 DEF ConnectionLost, ConnectionDown, manager, monitor, fresh, app
<1>32. CASE ChannelError
  BY <1>32 DEF ChannelError, ChannelDown, manager, monitor, fresh, app
<1>33. CASE CancelConsumer
  BY <1>33 DEF CancelConsumer, manager, notices, monitor, fresh, app
<1>34. CASE SetReconnectCallback
  BY <1>34 DEF SetReconnectCallback, notices, monitor, fresh, app,
     network, budget
<1>35. CASE Notify
  BY <1>35 DEF Notify, manager, notices, fresh, app, network, budget
<1>36. CASE UNCHANGED vars
  BY <1>36 DEF vars, manager, notices, monitor, fresh, app, network, budget
<1> QED BY <1>1, <1>2, <1>3, <1>4, <1>5, <1>6, <1>7, <1>8, <1>9, <1>10,
     <1>11, <1>12, <1>13, <1>14, <1>15, <1>16, <1>17, <1>18, <1>19, <1>20,
     <1>21, <1>22, <1>23, <1>24, <1>25, <1>26, <1>27, <1>28, <1>29, <1>30,
     <1>31, <1>32, <1>33, <1>34, <1>35, <1>36 DEF Next, Application, Monitor, Network

\* Both invariants hold for ever.
LEMMA CloseInvariant == Spec => [](TypeOK /\ CloseInv)
BY TypeInit, TypeStep, CloseInit, CloseStep, PTL DEF Spec

\* A manager whose context is cancelled stays closed, whatever reconnection
\* was under way when Close was called.
THEOREM CancelledStaysClosed == Spec => []CancelledIsClosed
BY CloseInvariant, PTL DEF CloseInv

\* When the Close that took effect has returned, the connection is down.
THEOREM CloseReleases == Spec => []CloseReleasesConnection
<1>1. CloseInv => CloseReleasesConnection
  BY DEF CloseInv, ReconnectionIsPrivate, CloseReleasesConnection
<1> QED BY <1>1, CloseInvariant, PTL

\* Dialling after Close: what the network may still do to the open objects.
OnlyCloses == cancelled => /\ up' \subseteq up
                           /\ \A k \in Chans : home[k]' \in {home[k], NoConn}

\* Past a Close that took effect a step can only take connections and
\* channels down.
LEMMA OnlyClosesStep == TypeOK /\ CloseInv /\ [Next]_vars => OnlyCloses
<1> SUFFICES ASSUME TypeOK, CloseInv, [Next]_vars PROVE OnlyCloses
  OBVIOUS
<1> USE DEF CloseInv, CancelledIsClosed, LockDiscipline, ReconnectionIsPrivate,
            TypeOK, ManagerType, NetworkType, OnlyCloses
<1>1. CASE NewManager
  BY <1>1 DEF NewManager, DialOk, DialFailed, OpenChannel, FreeConns, OneOf,
     FreeChans, Fault, manager, notices, monitor
<1>2. CASE StartMonitor
  BY <1>2 DEF StartMonitor, Install, network, budget
<1>3. CASE ApplyGetChannel
  BY <1>3 DEF ApplyGetChannel, manager, notices, monitor, fresh, network,
     budget
<1>4. CASE ApplyDeclared
  BY <1>4 DEF ApplyDeclared, manager, notices, monitor, fresh, budget
<1>5. CASE ApplyRefused
  BY <1>5 DEF ApplyRefused, ChannelDown, Answers, IsOpen, manager, notices,
     monitor, fresh, network, budget
<1>6. CASE SetTopology
  BY <1>6 DEF SetTopology, notices, monitor, fresh, network, budget
<1>7. CASE CallClose
  BY <1>7 DEF CallClose, manager, notices, monitor, fresh, network, budget
<1>8. CASE CloseLock
  BY <1>8 DEF CloseLock, notices, monitor, fresh, app, network, budget
<1>9. CASE CloseChannel
  BY <1>9 DEF CloseChannel, ChannelDown, Answers, IsOpen, manager, notices,
     monitor, fresh, network, budget
<1>10. CASE CloseConnection
  BY <1>10 DEF CloseConnection, ConnectionDown, manager, notices, monitor,
     fresh, network, budget
<1>11. CASE MonitorStop
  BY <1>11 DEF MonitorStop, manager, notices, fresh, app, network, budget
<1>12. CASE MonitorConnClose
  BY <1>12 DEF MonitorConnClose, manager, fresh, app, network, budget
<1>13. CASE MonitorChClose
  BY <1>13 DEF MonitorChClose, manager, fresh, app, network, budget
<1>14. CASE MonitorCancel
  BY <1>14 DEF MonitorCancel, manager, notices, fresh, app, budget
<1>15. CASE HandleChannelFailure
  BY <1>15 DEF HandleChannelFailure, manager, notices, monitor, fresh, app,
     network, budget
<1>16. CASE ReopenChannel
  BY <1>16 DEF ReopenChannel, OpenChannel, FreeChans, OneOf, manager, notices, app,
     budget
<1>17. CASE ReopenChannelFailed
  BY <1>17 DEF ReopenChannelFailed, manager, notices, fresh, app, network,
     budget
<1>18. CASE InstallChannel
  BY <1>18 DEF InstallChannel, app, network, budget
<1>19. CASE Reconnect
  BY <1>19 DEF Reconnect, notices, fresh, app, network, budget
<1>20. CASE Attempt
  BY <1>20 DEF Attempt, manager, notices, fresh, app, network, budget
<1>21. CASE Wait
  BY <1>21 DEF Wait, manager, notices, fresh, app, network, budget
<1>22. CASE ConnectLock
  BY <1>22 DEF ConnectLock, manager, notices, monitor, fresh, app, network,
     budget
<1>23. CASE ConnectOk
  BY <1>23 DEF ConnectOk, DialOk, OpenChannel, FreeConns, FreeChans, OneOf,
     manager, notices, app
<1>24. CASE ConnectFailed
  BY <1>24 DEF ConnectFailed, DialFailed, FreeConns, OneOf, Fault, manager,
     notices, app
<1>25. CASE ConnectInstall
  BY <1>25 DEF ConnectInstall, Install, app, network, budget
<1>26. CASE Reopen
  BY <1>26 DEF Reopen, notices, fresh, app, network, budget
<1>27. CASE Redeclare
  BY <1>27 DEF Redeclare, manager, notices, fresh, app, budget
<1>28. CASE RedeclareFailed
  BY <1>28 DEF RedeclareFailed, ChannelDown, Answers, IsOpen, manager,
     notices, fresh, app, network, budget
<1>29. CASE DropConnection
  BY <1>29 DEF DropConnection, ConnectionDown, manager, notices, fresh, app,
     network, budget
<1>30. CASE Reclose
  BY <1>30 DEF Reclose, notices, fresh, app, network, budget
<1>31. CASE ConnectionLost
  BY <1>31 DEF ConnectionLost, ConnectionDown, manager, monitor, fresh, app
<1>32. CASE ChannelError
  BY <1>32 DEF ChannelError, ChannelDown, Answers, IsOpen, manager, monitor,
     fresh, app
<1>33. CASE CancelConsumer
  BY <1>33 DEF CancelConsumer, manager, notices, monitor, fresh, app
<1>34. CASE SetReconnectCallback
  BY <1>34 DEF SetReconnectCallback, notices, monitor, fresh, app,
     network, budget
<1>35. CASE Notify
  BY <1>35 DEF Notify, manager, notices, fresh, app, network, budget
<1>36. CASE UNCHANGED vars
  BY <1>36 DEF vars, manager, notices, monitor, fresh, app, network, budget
<1> QED BY <1>1, <1>2, <1>3, <1>4, <1>5, <1>6, <1>7, <1>8, <1>9, <1>10,
     <1>11, <1>12, <1>13, <1>14, <1>15, <1>16, <1>17, <1>18, <1>19, <1>20,
     <1>21, <1>22, <1>23, <1>24, <1>25, <1>26, <1>27, <1>28, <1>29, <1>30,
     <1>31, <1>32, <1>33, <1>34, <1>35, <1>36 DEF Next, Application, Monitor, Network

\* Once Close has cancelled the context nothing is opened any more: neither
\* the reconnection nor the reopening of a channel outlives it.
THEOREM NothingOpensAfterCancel == Spec => NoDialAfterCancel
<1>1. TypeOK /\ CloseInv /\ [Next]_vars => [OnlyCloses]_vars
  BY OnlyClosesStep
<1>2. Spec => [][OnlyCloses]_vars
  BY <1>1, CloseInvariant, PTL DEF Spec
<1> QED BY <1>2 DEF NoDialAfterCancel, OnlyCloses

(***************************************************************************)
(* The channel and its connection. The two fields are assigned in separate *)
(* places (connect, handleChannelFailure), from a channel opened earlier.  *)
(***************************************************************************)
HomeInv ==
    /\ ChannelOfConnection
    /\ monPc = "install" \/ appPc = "install" =>
         /\ newConn \in Conns /\ newConn # conn
         /\ newCh \in Chans /\ home[newCh] \in {newConn, NoConn}
    /\ monPc = "chInstall" => newCh \in Chans /\ home[newCh] \in {conn, NoConn}

\* Initially no channel is open.
LEMMA HomeInit == Init => HomeInv
BY NilAssumption DEF Init, HomeInv, ChannelOfConnection, IsOpen

\* Every step keeps the channels on the connections they were made for.
LEMMA HomeStep == TypeOK /\ CloseInv /\ HomeInv /\ [Next]_vars => HomeInv'
<1> SUFFICES ASSUME TypeOK, CloseInv, HomeInv, [Next]_vars PROVE HomeInv'
  OBVIOUS
<1> USE NilAssumption DEF HomeInv, ChannelOfConnection, IsOpen, CloseInv,
     LockDiscipline, TypeOK, ManagerType, GoroutineType, NetworkType
<1>1. CASE NewManager
  BY <1>1 DEF NewManager, DialOk, DialFailed, OpenChannel, FreeConns, OneOf,
     FreeChans, Fault, manager, notices, monitor
<1>2. CASE StartMonitor
  BY <1>2 DEF StartMonitor, Install, network, budget
<1>3. CASE ApplyGetChannel
  BY <1>3 DEF ApplyGetChannel, manager, notices, monitor, fresh, network,
     budget
<1>4. CASE ApplyDeclared
  BY <1>4 DEF ApplyDeclared, manager, notices, monitor, fresh, budget
<1>5. CASE ApplyRefused
  BY <1>5 DEF ApplyRefused, ChannelDown, Answers, IsOpen, manager, notices,
     monitor, fresh, network, budget
<1>6. CASE SetTopology
  BY <1>6 DEF SetTopology, notices, monitor, fresh, network, budget
<1>7. CASE CallClose
  BY <1>7 DEF CallClose, manager, notices, monitor, fresh, network, budget
<1>8. CASE CloseLock
  BY <1>8 DEF CloseLock, notices, monitor, fresh, app, network, budget
<1>9. CASE CloseChannel
  BY <1>9 DEF CloseChannel, ChannelDown, Answers, IsOpen, manager, notices,
     monitor, fresh, network, budget
<1>10. CASE CloseConnection
  BY <1>10 DEF CloseConnection, ConnectionDown, manager, notices, monitor,
     fresh, network, budget
<1>11. CASE MonitorStop
  BY <1>11 DEF MonitorStop, manager, notices, fresh, app, network, budget
<1>12. CASE MonitorConnClose
  BY <1>12 DEF MonitorConnClose, manager, fresh, app, network, budget
<1>13. CASE MonitorChClose
  BY <1>13 DEF MonitorChClose, manager, fresh, app, network, budget
<1>14. CASE MonitorCancel
  BY <1>14 DEF MonitorCancel, manager, notices, fresh, app, budget
<1>15. CASE HandleChannelFailure
  BY <1>15 DEF HandleChannelFailure, manager, notices, monitor, fresh, app,
     network, budget
<1>16. CASE ReopenChannel
  BY <1>16 DEF ReopenChannel, OpenChannel, FreeChans, OneOf, manager, notices, app,
     budget
<1>17. CASE ReopenChannelFailed
  BY <1>17 DEF ReopenChannelFailed, manager, notices, fresh, app, network,
     budget
<1>18. CASE InstallChannel
  BY <1>18 DEF InstallChannel, app, network, budget
<1>19. CASE Reconnect
  BY <1>19 DEF Reconnect, notices, fresh, app, network, budget
<1>20. CASE Attempt
  BY <1>20 DEF Attempt, manager, notices, fresh, app, network, budget
<1>21. CASE Wait
  BY <1>21 DEF Wait, manager, notices, fresh, app, network, budget
<1>22. CASE ConnectLock
  BY <1>22 DEF ConnectLock, manager, notices, monitor, fresh, app, network,
     budget
<1>23. CASE ConnectOk
  BY <1>23 DEF ConnectOk, DialOk, OpenChannel, FreeConns, FreeChans, OneOf,
     manager, notices, app
<1>24. CASE ConnectFailed
  BY <1>24 DEF ConnectFailed, DialFailed, FreeConns, OneOf, Fault, manager,
     notices, app
<1>25. CASE ConnectInstall
  BY <1>25 DEF ConnectInstall, Install, app, network, budget
<1>26. CASE Reopen
  BY <1>26 DEF Reopen, notices, fresh, app, network, budget
<1>27. CASE Redeclare
  BY <1>27 DEF Redeclare, manager, notices, fresh, app, budget
<1>28. CASE RedeclareFailed
  BY <1>28 DEF RedeclareFailed, ChannelDown, Answers, IsOpen, manager,
     notices, fresh, app, network, budget
<1>29. CASE DropConnection
  BY <1>29 DEF DropConnection, ConnectionDown, manager, notices, fresh, app,
     network, budget
<1>30. CASE Reclose
  BY <1>30 DEF Reclose, notices, fresh, app, network, budget
<1>31. CASE ConnectionLost
  BY <1>31 DEF ConnectionLost, ConnectionDown, manager, monitor, fresh, app
<1>32. CASE ChannelError
  BY <1>32 DEF ChannelError, ChannelDown, Answers, IsOpen, manager, monitor,
     fresh, app
<1>33. CASE CancelConsumer
  BY <1>33 DEF CancelConsumer, manager, notices, monitor, fresh, app
<1>34. CASE SetReconnectCallback
  BY <1>34 DEF SetReconnectCallback, notices, monitor, fresh, app,
     network, budget
<1>35. CASE Notify
  BY <1>35 DEF Notify, manager, notices, fresh, app, network, budget
<1>36. CASE UNCHANGED vars
  BY <1>36 DEF vars, manager, notices, monitor, fresh, app, network, budget
<1> QED BY <1>1, <1>2, <1>3, <1>4, <1>5, <1>6, <1>7, <1>8, <1>9, <1>10,
     <1>11, <1>12, <1>13, <1>14, <1>15, <1>16, <1>17, <1>18, <1>19, <1>20,
     <1>21, <1>22, <1>23, <1>24, <1>25, <1>26, <1>27, <1>28, <1>29, <1>30,
     <1>31, <1>32, <1>33, <1>34, <1>35, <1>36 DEF Next, Application, Monitor, Network

\* The relation of channels to connections holds for ever.
LEMMA HomeInvariant == Spec => []HomeInv
BY HomeInit, HomeStep, CloseInvariant, PTL DEF Spec

\* The open channel of the manager always belongs to its connection, also
\* when a channel was reopened or everything replaced in between.
THEOREM ChannelMatchesConnection == Spec => []ChannelOfConnection
BY HomeInvariant, PTL DEF HomeInv

(***************************************************************************)
(* The lock protocol, and the way back from a reconnection.                *)
(***************************************************************************)

\* The lock is held by a goroutine exactly between its Lock and its Unlock:
\* every path through the code, the failing ones included, releases it.
THEOREM LocksAreReleased == Spec => []LockDiscipline
BY CloseInvariant, PTL DEF CloseInv

\* During a reconnection the manager is closed to its callers and not
\* cancelled.
THEOREM ReconnectionStaysPrivate == Spec => []ReconnectionIsPrivate
BY CloseInvariant, PTL DEF CloseInv

\* What RedeclaredOnReturn says of one step.
Redeclares ==
    (monPc \in {"topology", "closeConn"} /\ monPc' = "select" /\ hasTopology)
        => (closed \/ conn \notin up' \/ conn \in declared')

\* Only Redeclare and DropConnection end a reconnection that has connected.
LEMMA RedeclaresStep ==
    TypeOK /\ CloseInv /\ HomeInv /\ [Next]_vars => Redeclares
<1> SUFFICES ASSUME TypeOK, CloseInv, HomeInv, [Next]_vars,
                    monPc \in {"topology", "closeConn"}, monPc' = "select",
                    hasTopology
             PROVE  closed \/ conn \notin up' \/ conn \in declared'
  BY DEF Redeclares
<1>1. CASE Redeclare
  <2>1. IsOpen(ch) /\ declared' = declared \cup {home[ch]}
    BY <1>1 DEF Redeclare, Answers
  <2> QED BY <2>1 DEF HomeInv, ChannelOfConnection
<1>2. CASE DropConnection
  BY <1>2 DEF DropConnection, ConnectionDown, network
<1>3. CASE Application
  <2>1. monPc' = monPc \/ monPc = "absent"
    BY <1>3, Zenon DEF Application, NewManager, StartMonitor,
       ApplyGetChannel, ApplyDeclared, ApplyRefused, SetTopology,
       SetReconnectCallback, CallClose, CloseLock, CloseChannel,
       CloseConnection, monitor, CloseInv, LockDiscipline
  <2> QED BY <2>1
<1>4. CASE Network \/ UNCHANGED vars
  BY <1>4 DEF Network, ConnectionLost, ChannelError, CancelConsumer, vars,
     monitor
<1>5. CASE Monitor /\ ~Redeclare /\ ~DropConnection
  BY <1>5 DEF Monitor, MonitorStop, MonitorConnClose, MonitorChClose,
     MonitorCancel, HandleChannelFailure, ReopenChannel, ReopenChannelFailed,
     InstallChannel, Notify, Reconnect, Attempt, Wait, ConnectLock, ConnectOk,
     ConnectFailed, ConnectInstall, Reopen, RedeclareFailed, Reclose
<1> QED BY <1>1, <1>2, <1>3, <1>4, <1>5 DEF Next

\* The monitor goes back to its select with the topology declared over the
\* connection, or with that connection down.
THEOREM ReturnsRedeclared == Spec => RedeclaredOnReturn
<1>1. TypeOK /\ CloseInv /\ HomeInv /\ [Next]_vars => [Redeclares]_vars
  BY RedeclaresStep
<1>2. Spec => [][Redeclares]_vars
  BY <1>1, CloseInvariant, HomeInvariant, PTL DEF Spec
<1> QED BY <1>2 DEF RedeclaredOnReturn, Redeclares

(***************************************************************************)
(* The waits between the attempts of a reconnection.                       *)
(***************************************************************************)

\* What BackoffGrows says of one step, and the bound it rests on.
Paced == InitialDelay <= BackoffMax =>
            /\ delay' >= delay \/ monPc = "reconnect"
            /\ delay' <= BackoffMax
DelayInv == InitialDelay <= BackoffMax => delay <= BackoffMax

\* Only ConnectFailed changes the delay during an outage, and multiplying by
\* 1.5 and cutting at the limit never makes it shorter.
LEMMA PacedStep == TypeOK /\ DelayInv /\ [Next]_vars => Paced
<1> SUFFICES ASSUME TypeOK, DelayInv, [Next]_vars PROVE Paced
  OBVIOUS
<1> USE DelaysAssumption DEF TypeOK, GoroutineType, DelayInv, Paced
<1>1. CASE ConnectFailed
  BY <1>1 DEF ConnectFailed, Longer
<1>2. CASE Reconnect
  BY <1>2 DEF Reconnect
<1>3. CASE Application
  <2>1. delay' = delay
    BY <1>3, Zenon DEF Application, NewManager, StartMonitor,
       ApplyGetChannel, ApplyDeclared, ApplyRefused, SetTopology,
       SetReconnectCallback, CallClose, CloseLock, CloseChannel,
       CloseConnection, monitor
  <2> QED BY <2>1
<1>4. CASE Network \/ UNCHANGED vars
  <2>1. delay' = delay
    BY <1>4, Zenon DEF Network, ConnectionLost, ChannelError,
       CancelConsumer, vars, monitor
  <2> QED BY <2>1
<1>5. CASE Monitor /\ ~ConnectFailed /\ ~Reconnect
  <2>1. delay' = delay
    BY <1>5, Zenon DEF Monitor, MonitorStop, MonitorConnClose,
       MonitorChClose, MonitorCancel, HandleChannelFailure, ReopenChannel,
       ReopenChannelFailed, InstallChannel, Notify, Attempt, Wait,
       ConnectLock, ConnectOk, ConnectInstall, Reopen, Redeclare,
       RedeclareFailed, DropConnection, Reclose, monitor
  <2> QED BY <2>1
<1> QED BY <1>1, <1>2, <1>3, <1>4, <1>5 DEF Next

\* During an outage the waits never get shorter and stay within the limit,
\* for every configuration whose first delay is within it.
THEOREM BackoffIsMonotone == Spec => BackoffGrows
<1>1. Init => DelayInv
  BY DEF Init, DelayInv
<1>2. TypeOK /\ DelayInv /\ [Next]_vars => DelayInv'
  BY PacedStep DEF DelayInv, Paced
<1>3. TypeOK /\ DelayInv /\ [Next]_vars => [Paced]_vars
  BY PacedStep
<1>4. Spec => [][Paced]_vars
  BY <1>1, <1>2, <1>3, CloseInvariant, PTL DEF Spec
<1> QED BY <1>4 DEF BackoffGrows, Paced

(***************************************************************************)
(* The refinement: callers see a connection that is replaced only while    *)
(* they are turned away.                                                   *)
(***************************************************************************)

\* Until the monitor runs nobody can have closed the manager.
AbsentInv ==
    monPc = "absent" => appPc \in {"new", "install", "failed"} /\ ~closed

\* It holds before NewConnectionManager, and every step keeps it.
LEMMA AbsentStep ==
    /\ Init => AbsentInv
    /\ TypeOK /\ CloseInv /\ AbsentInv /\ [Next]_vars => AbsentInv'
<1>1. Init => AbsentInv
  BY DEF Init, AbsentInv
<1> SUFFICES ASSUME TypeOK, CloseInv, AbsentInv, [Next]_vars PROVE AbsentInv'
  BY <1>1
<1> USE DEF AbsentInv
<1>2. CASE Application
  BY <1>2 DEF Application, NewManager, StartMonitor, ApplyGetChannel,
     ApplyDeclared, ApplyRefused, SetTopology, SetReconnectCallback,
     CallClose, CloseLock, CloseChannel, CloseConnection, manager, monitor
<1>3. CASE Monitor
  BY <1>3 DEF Monitor, MonitorStop, MonitorConnClose, MonitorChClose,
     MonitorCancel, HandleChannelFailure, ReopenChannel, ReopenChannelFailed,
     InstallChannel, Notify, Reconnect, Attempt, Wait, ConnectLock, ConnectOk,
     ConnectFailed, ConnectInstall, Reopen, Redeclare, RedeclareFailed,
     DropConnection, Reclose
<1>4. CASE Network \/ UNCHANGED vars
  BY <1>4 DEF Network, ConnectionLost, ChannelError, CancelConsumer, vars,
     manager, monitor, app
<1> QED BY <1>2, <1>3, <1>4 DEF Next

\* Each assignment to conn, ch, closed or the context is a step of the
\* abstract manager; all the rest is invisible to callers.
LEMMA ImplementsStep ==
    TypeOK /\ CloseInv /\ AbsentInv /\ [Next]_vars => [Managed!Next]_Managed!vars
<1> SUFFICES ASSUME TypeOK, CloseInv, AbsentInv, [Next]_vars
             PROVE  Managed!Next \/ UNCHANGED Managed!vars
  OBVIOUS
<1> USE DEF TypeOK, ManagerType, GoroutineType, CloseInv, CancelledIsClosed,
     LockDiscipline, ReconnectionIsPrivate, AbsentInv, Managed!vars
<1>1. CASE StartMonitor
  <2>1. Managed!Connect
    BY <1>1 DEF StartMonitor, Install, Managed!Connect
  <2> QED BY <2>1 DEF Managed!Next
<1>2. CASE CloseLock
  <2>1. Managed!Close \/ UNCHANGED Managed!vars
    BY <1>2 DEF CloseLock, monitor, Managed!Close
  <2> QED BY <2>1 DEF Managed!Next
<1>3. CASE InstallChannel
  <2>1. Managed!Renew
    BY <1>3 DEF InstallChannel, Managed!Renew
  <2> QED BY <2>1 DEF Managed!Next
<1>4. CASE Reconnect \/ Reclose
  <2>1. Managed!Suspend \/ UNCHANGED Managed!vars
    BY <1>4 DEF Reconnect, Reclose, Managed!Suspend
  <2> QED BY <2>1 DEF Managed!Next
<1>5. CASE ConnectInstall
  <2>1. Managed!Replace
    BY <1>5 DEF ConnectInstall, Install, Managed!Replace
  <2> QED BY <2>1 DEF Managed!Next
<1>6. CASE Reopen
  <2>1. Managed!Resume
    BY <1>6 DEF Reopen, Managed!Resume
  <2> QED BY <2>1 DEF Managed!Next
<1>7. CASE Application /\ ~StartMonitor /\ ~CloseLock
  <2>1. UNCHANGED <<conn, ch, closed, cancelled, monPc>>
    BY <1>7, Zenon DEF Application, NewManager, ApplyGetChannel,
       ApplyDeclared, ApplyRefused, SetTopology, SetReconnectCallback,
       CallClose, CloseChannel, CloseConnection, manager, monitor
  <2> QED BY <2>1
<1>8. CASE /\ Monitor /\ ~InstallChannel /\ ~Reconnect /\ ~Reclose
           /\ ~ConnectInstall /\ ~Reopen
  <2>1. UNCHANGED manager /\ monPc # "absent" /\ monPc' # "absent"
    BY <1>8 DEF Monitor, MonitorStop, MonitorConnClose, MonitorChClose,
       MonitorCancel, HandleChannelFailure, ReopenChannel,
       ReopenChannelFailed, Notify, Attempt, Wait, ConnectLock, ConnectOk,
       ConnectFailed, Redeclare, RedeclareFailed, DropConnection
  <2> QED BY <2>1 DEF manager
<1>9. CASE Network \/ UNCHANGED vars
  <2>1. UNCHANGED <<manager, monitor>>
    BY <1>9, Zenon DEF Network, ConnectionLost, ChannelError,
       CancelConsumer, vars
  <2> QED BY <2>1 DEF manager, monitor
<1> QED BY <1>1, <1>2, <1>3, <1>4, <1>5, <1>6, <1>7, <1>8, <1>9
        DEF Next, Application, Monitor

\* The manager implements ManagedConnection: conn and ch are replaced only
\* while callers are turned away, and nothing changes after a Close that
\* took effect.
THEOREM ManagerImplements == Spec => Implements
<1>1. Init => Managed!Init
  BY DEF Init, Managed!Init
<1> QED BY <1>1, AbsentStep, ImplementsStep, CloseInvariant, PTL
        DEF Spec, Implements, Managed!Spec

=============================================================================
