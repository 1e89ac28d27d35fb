-------------------------- MODULE PeerSession_proofs --------------------------
(***************************************************************************)
(* Proofs about PeerSession, for every set of prefixes, attributes,        *)
(* connections and accepting goroutines, both modes and every chunk size.  *)
(* The invariant IInv is inductive: one lemma per conjunct shows that a    *)
(* step preserves it, with one proof step per action of the model.         *)
(***************************************************************************)
EXTENDS PeerSession, TLAPS

LEMMA EmptyTableType == EmptyTable \in Tables
    BY DEF EmptyTable, Tables

\* Every step of the peer keeps the variables in their types.
\* Grouping the routes moves a resync to its announcements and changes
\* neither its caller nor its connection.
LEMMA GroupRoutesFacts ==
    ASSUME TypeOK, GroupRoutes
    PROVE  /\ resync' \in Resyncs
           /\ resync' # NoResync /\ resync # NoResync
           /\ resync'.on = resync.on
           /\ resync'.by = resync.by
<1>1. resync # NoResync /\ resync \in Resyncs
    BY DEF GroupRoutes, TypeOK
<1>2. Plan(resync.want) \in SUBSET Prefix
    BY DEF Plan, Held
<1>3. resync' = [resync EXCEPT !.stage = "announce",
                               !.todo = Plan(resync.want),
                               !.sent = Plan(resync.want)]
    BY DEF GroupRoutes
<1>4. resync' \in Resyncs /\ resync'.on = resync.on /\ resync'.by = resync.by
    BY <1>1, <1>2, <1>3 DEF Resyncs
<1>5. NoResync \notin Resyncs
    BY DEF NoResync, Resyncs
<1>. QED
    BY <1>1, <1>4, <1>5

\* A chunk written is a part of what was left, and reaches a live router.
LEMMA WriteChunkFacts ==
    ASSUME WriteChunk
    PROVE  \E chunk \in SUBSET resync.todo :
             /\ resync' = [resync EXCEPT !.todo = resync.todo \ chunk]
             /\ table' = IF tcp[resync.on] = "up"
                         THEN [table EXCEPT ![resync.on] = Applied(chunk)]
                         ELSE table
    BY DEF WriteChunk, Remaining

LEMMA TypeStep == IInv /\ Next => TypeOK'
<1> SUFFICES ASSUME IInv, Next PROVE TypeOK'
    OBVIOUS
<1> USE SetsAssumption, ParametersAssumption, EmptyTableType
    DEF IInv, TypeOK, PcInv, CallInv, peerVars, remote, Handlers, Threads, Active,
        States, TcpStates, DialerPcs, AcceptorPcs, SessionPcs, Causes,
        Resyncs, NoResync
<1>1. CASE WriteChunk
  <2>1. resync \in Resyncs
    BY <1>1 DEF WriteChunk
  <2>2. \A chunk : Applied(chunk) \in Tables
    BY <2>1 DEF Applied, Tables
  <2>. QED
    BY <1>1, <2>1, <2>2 DEF WriteChunk, Remaining
<1>2. CASE GroupRoutes
  <2>1. resync' \in Resyncs
    BY GroupRoutesFacts, <1>2
  <2>. QED
    BY <1>2, <2>1 DEF GroupRoutes
<1>3. CASE FinishResync
    BY <1>3 DEF FinishResync, Return, NewLastSent
<1>4. CASE FailResync
    BY <1>4 DEF FailResync, Return, RearmUpdate, Drop
<1>5. CASE AnnounceRoutes
    BY <1>5 DEF AnnounceRoutes, SetRoutes
<1>6. CASE WithdrawRoutes
  <2>1. PICK drop \in SUBSET Prefix :
          SetRoutes([p \in Prefix |-> IF p \in drop THEN NoRoute ELSE routes[p]])
    BY <1>6 DEF WithdrawRoutes
  <2>2. routes' = [p \in Prefix |-> IF p \in drop THEN NoRoute ELSE routes[p]]
    BY <2>1 DEF SetRoutes
  <2>3. routes' \in Tables
    BY <2>2 DEF Tables
  <2>. QED
    BY <2>1, <2>3 DEF SetRoutes
<1>7. CASE DeferRoutes
    BY <1>7 DEF DeferRoutes
<1>8. CASE SendRoutes
    BY <1>8 DEF SendRoutes, BeginResync, Withdrawals
<1>9. CASE TriggerUpdate
    BY <1>9 DEF TriggerUpdate
<1>10. CASE Stop
    BY <1>10 DEF Stop, Drop
<1>11. ASSUME NEW h \in Handlers, GiveUpHandshake(h) PROVE TypeOK'
    BY <1>11 DEF GiveUpHandshake, Goto
<1>12. ASSUME NEW h \in Handlers, Establish(h) PROVE TypeOK'
    BY <1>12 DEF Establish, Goto
<1>13. ASSUME NEW h \in Handlers, ResetSent(h) PROVE TypeOK'
    BY <1>13 DEF ResetSent, Goto
<1>14. ASSUME NEW h \in Handlers, SessionResync(h) PROVE TypeOK'
    BY <1>14 DEF SessionResync, BeginResync, Withdrawals
<1>15. ASSUME NEW h \in Handlers, MainLoop(h) PROVE TypeOK'
    BY <1>15 DEF MainLoop, Goto, LoopHead
<1>16. ASSUME NEW h \in Handlers, ReadKeepalive(h) PROVE TypeOK'
    BY <1>16 DEF ReadKeepalive, Goto
<1>17. ASSUME NEW h \in Handlers, ReadRouteRefresh(h) PROVE TypeOK'
    BY <1>17 DEF ReadRouteRefresh, Goto
<1>18. ASSUME NEW h \in Handlers, ReadNotification(h) PROVE TypeOK'
    BY <1>18 DEF ReadNotification, Goto
<1>19. ASSUME NEW h \in Handlers, HoldTimerExpires(h) PROVE TypeOK'
    BY <1>19 DEF HoldTimerExpires, Goto
<1>20. ASSUME NEW h \in Handlers, ReadError(h) PROVE TypeOK'
    BY <1>20 DEF ReadError, Goto
<1>21. ASSUME NEW h \in Handlers, KeepaliveTorn(h) PROVE TypeOK'
    BY <1>21 DEF KeepaliveTorn, Serving, Drop
<1>22. ASSUME NEW h \in Handlers, EndSession(h) PROVE TypeOK'
    BY <1>22 DEF EndSession, Goto
<1>23. ASSUME NEW h \in Handlers, CloseConn(h) PROVE TypeOK'
    BY <1>23 DEF CloseConn, Goto, Drop, ConnAfterClose
<1>24. CASE StartAttempt
    BY <1>24 DEF StartAttempt, Goto, DialerIs, Attempt, Park
<1>25. CASE WakeParked
    BY <1>25 DEF WakeParked, Goto, DialerIs
<1>26. CASE WakeBackoff
    BY <1>26 DEF WakeBackoff, Goto, DialerIs
<1>27. CASE DialFails
    BY <1>27 DEF DialFails, Goto, DialerIs
<1>28. CASE DialSucceeds
    BY <1>28 DEF DialSucceeds, Goto, DialerIs, NewConnection, TakeConn, Others
<1>29. CASE SendOpen
    BY <1>29 DEF SendOpen, Goto, DialerIs
<1>30. CASE ReadOpen
    BY <1>30 DEF ReadOpen, Goto, DialerIs, NegotiatedHold
<1>31. ASSUME NEW a \in Acceptors, LookUpPeer(a) PROVE TypeOK'
    BY <1>31 DEF LookUpPeer, Goto, NewConnection
<1>32. ASSUME NEW a \in Acceptors, AdmitInbound(a) PROVE TypeOK'
    BY <1>32 DEF AdmitInbound, Goto
<1>33. ASSUME NEW a \in Acceptors, RejectInbound(a) PROVE TypeOK'
    BY <1>33 DEF RejectInbound, Goto, Drop
<1>34. ASSUME NEW a \in Acceptors, TakeInbound(a) PROVE TypeOK'
    BY <1>34 DEF TakeInbound, Goto, TakeConn, Others, NegotiatedHold
<1>35. ASSUME NEW a \in Acceptors, SendOpenAndKeepalive(a) PROVE TypeOK'
    BY <1>35 DEF SendOpenAndKeepalive, Goto
<1>36. ASSUME NEW a \in Acceptors, RecordCapabilities(a) PROVE TypeOK'
    BY <1>36 DEF RecordCapabilities, Goto
<1>37. ASSUME NEW c \in Conn, RouterLeaves(c) PROVE TypeOK'
    BY <1>37 DEF RouterLeaves, Drop
<1>. QED
    BY <1>1, <1>2, <1>3, <1>4, <1>5, <1>6, <1>7, <1>8, <1>9, <1>10, <1>11,
       <1>12, <1>13, <1>14, <1>15, <1>16, <1>17, <1>18, <1>19, <1>20,
       <1>21, <1>22, <1>23, <1>24, <1>25, <1>26, <1>27, <1>28, <1>29,
       <1>30, <1>31, <1>32, <1>33, <1>34, <1>35, <1>36, <1>37
    DEF Next, Resync, Manager, Session, Dial, Accept

\* Handlers stay on their own program points, and hold a connection exactly
\* between taking it and closing it.
LEMMA PcStep == IInv /\ Next => PcInv'
<1> SUFFICES ASSUME IInv, Next PROVE PcInv'
    OBVIOUS
<1> USE SetsAssumption
    DEF IInv, TypeOK, PcInv, CallInv, peerVars, remote, Handlers, Threads, Active,
        States, TcpStates, DialerPcs, AcceptorPcs, SessionPcs, Causes,
        Resyncs, NoResync
<1>1. CASE WriteChunk
    BY <1>1 DEF WriteChunk, Applied, Remaining
<1>2. CASE GroupRoutes
    BY <1>2 DEF GroupRoutes, Plan
<1>3. CASE FinishResync
    BY <1>3 DEF FinishResync, Return, NewLastSent
<1>4. CASE FailResync
    BY <1>4 DEF FailResync, Return, RearmUpdate, Drop
<1>5. CASE AnnounceRoutes
    BY <1>5 DEF AnnounceRoutes, SetRoutes
<1>6. CASE WithdrawRoutes
    BY <1>6 DEF WithdrawRoutes, SetRoutes
<1>7. CASE DeferRoutes
    BY <1>7 DEF DeferRoutes
<1>8. CASE SendRoutes
    BY <1>8 DEF SendRoutes, BeginResync, Withdrawals
<1>9. CASE TriggerUpdate
    BY <1>9 DEF TriggerUpdate
<1>10. CASE Stop
    BY <1>10 DEF Stop, Drop
<1>11. ASSUME NEW h \in Handlers, GiveUpHandshake(h) PROVE PcInv'
    BY <1>11 DEF GiveUpHandshake, Goto
<1>12. ASSUME NEW h \in Handlers, Establish(h) PROVE PcInv'
    BY <1>12 DEF Establish, Goto
<1>13. ASSUME NEW h \in Handlers, ResetSent(h) PROVE PcInv'
    BY <1>13 DEF ResetSent, Goto
<1>14. ASSUME NEW h \in Handlers, SessionResync(h) PROVE PcInv'
    BY <1>14 DEF SessionResync, BeginResync, Withdrawals
<1>15. ASSUME NEW h \in Handlers, MainLoop(h) PROVE PcInv'
    BY <1>15 DEF MainLoop, Goto, LoopHead
<1>16. ASSUME NEW h \in Handlers, ReadKeepalive(h) PROVE PcInv'
    BY <1>16 DEF ReadKeepalive, Goto
<1>17. ASSUME NEW h \in Handlers, ReadRouteRefresh(h) PROVE PcInv'
    BY <1>17 DEF ReadRouteRefresh, Goto
<1>18. ASSUME NEW h \in Handlers, ReadNotification(h) PROVE PcInv'
    BY <1>18 DEF ReadNotification, Goto
<1>19. ASSUME NEW h \in Handlers, HoldTimerExpires(h) PROVE PcInv'
    BY <1>19 DEF HoldTimerExpires, Goto
<1>20. ASSUME NEW h \in Handlers, ReadError(h) PROVE PcInv'
    BY <1>20 DEF ReadError, Goto
<1>21. ASSUME NEW h \in Handlers, KeepaliveTorn(h) PROVE PcInv'
    BY <1>21 DEF KeepaliveTorn, Drop, Serving
<1>22. ASSUME NEW h \in Handlers, EndSession(h) PROVE PcInv'
    BY <1>22 DEF EndSession, Goto
<1>23. ASSUME NEW h \in Handlers, CloseConn(h) PROVE PcInv'
    BY <1>23 DEF CloseConn, Goto, Drop, ConnAfterClose
<1>24. CASE StartAttempt
    BY <1>24 DEF StartAttempt, Goto, DialerIs, Attempt, Park
<1>25. CASE WakeParked
    BY <1>25 DEF WakeParked, Goto, DialerIs
<1>26. CASE WakeBackoff
    BY <1>26 DEF WakeBackoff, Goto, DialerIs
<1>27. CASE DialFails
    BY <1>27 DEF DialFails, Goto, DialerIs
<1>28. CASE DialSucceeds
    BY <1>28 DEF DialSucceeds, Goto, DialerIs, NewConnection, TakeConn, Others
<1>29. CASE SendOpen
    BY <1>29 DEF SendOpen, Goto, DialerIs
<1>30. CASE ReadOpen
    BY <1>30 DEF ReadOpen, Goto, DialerIs, NegotiatedHold
<1>31. ASSUME NEW a \in Acceptors, LookUpPeer(a) PROVE PcInv'
    BY <1>31 DEF LookUpPeer, Goto, NewConnection
<1>32. ASSUME NEW a \in Acceptors, AdmitInbound(a) PROVE PcInv'
    BY <1>32 DEF AdmitInbound, Goto
<1>33. ASSUME NEW a \in Acceptors, RejectInbound(a) PROVE PcInv'
    BY <1>33 DEF RejectInbound, Goto, Drop
<1>34. ASSUME NEW a \in Acceptors, TakeInbound(a) PROVE PcInv'
    BY <1>34 DEF TakeInbound, Goto, TakeConn, Others, NegotiatedHold
<1>35. ASSUME NEW a \in Acceptors, SendOpenAndKeepalive(a) PROVE PcInv'
    BY <1>35 DEF SendOpenAndKeepalive, Goto
<1>36. ASSUME NEW a \in Acceptors, RecordCapabilities(a) PROVE PcInv'
    BY <1>36 DEF RecordCapabilities, Goto
<1>37. ASSUME NEW c \in Conn, RouterLeaves(c) PROVE PcInv'
    BY <1>37 DEF RouterLeaves, Drop
<1>. QED
    BY <1>1, <1>2, <1>3, <1>4, <1>5, <1>6, <1>7, <1>8, <1>9, <1>10, <1>11,
       <1>12, <1>13, <1>14, <1>15, <1>16, <1>17, <1>18, <1>19, <1>20,
       <1>21, <1>22, <1>23, <1>24, <1>25, <1>26, <1>27, <1>28, <1>29,
       <1>30, <1>31, <1>32, <1>33, <1>34, <1>35, <1>36, <1>37
    DEF Next, Resync, Manager, Session, Dial, Accept

\* The one resync in progress belongs to the manager's call or to a session
\* that waits for it: sendMu is held by whoever is inside resyncRoutes.
LEMMA CallStep == IInv /\ Next => CallInv'
<1> SUFFICES ASSUME IInv, Next PROVE CallInv'
    OBVIOUS
<1> USE SetsAssumption
    DEF IInv, TypeOK, PcInv, CallInv, peerVars, remote, Handlers, Threads, Active,
        States, TcpStates, DialerPcs, AcceptorPcs, SessionPcs, Causes,
        Resyncs, NoResync, Stage, Held
<1>1. CASE WriteChunk
    BY <1>1 DEF WriteChunk, Applied, Remaining
<1>2. CASE GroupRoutes
    BY <1>2 DEF GroupRoutes, Plan
<1>3. CASE FinishResync
    BY <1>3 DEF FinishResync, Return, NewLastSent
<1>4. CASE FailResync
    BY <1>4 DEF FailResync, Return, RearmUpdate, Drop
<1>5. CASE AnnounceRoutes
    BY <1>5 DEF AnnounceRoutes, SetRoutes
<1>6. CASE WithdrawRoutes
    BY <1>6 DEF WithdrawRoutes, SetRoutes
<1>7. CASE DeferRoutes
    BY <1>7 DEF DeferRoutes
<1>8. CASE SendRoutes
    BY <1>8 DEF SendRoutes, BeginResync, Withdrawals
<1>9. CASE TriggerUpdate
    BY <1>9 DEF TriggerUpdate
<1>10. CASE Stop
    BY <1>10 DEF Stop, Drop
<1>11. ASSUME NEW h \in Handlers, GiveUpHandshake(h) PROVE CallInv'
    BY <1>11 DEF GiveUpHandshake, Goto
<1>12. ASSUME NEW h \in Handlers, Establish(h) PROVE CallInv'
    BY <1>12 DEF Establish, Goto
<1>13. ASSUME NEW h \in Handlers, ResetSent(h) PROVE CallInv'
    BY <1>13 DEF ResetSent, Goto
<1>14. ASSUME NEW h \in Handlers, SessionResync(h) PROVE CallInv'
    BY <1>14 DEF SessionResync, BeginResync, Withdrawals
<1>15. ASSUME NEW h \in Handlers, MainLoop(h) PROVE CallInv'
    BY <1>15 DEF MainLoop, Goto, LoopHead
<1>16. ASSUME NEW h \in Handlers, ReadKeepalive(h) PROVE CallInv'
    BY <1>16 DEF ReadKeepalive, Goto
<1>17. ASSUME NEW h \in Handlers, ReadRouteRefresh(h) PROVE CallInv'
    BY <1>17 DEF ReadRouteRefresh, Goto
<1>18. ASSUME NEW h \in Handlers, ReadNotification(h) PROVE CallInv'
    BY <1>18 DEF ReadNotification, Goto
<1>19. ASSUME NEW h \in Handlers, HoldTimerExpires(h) PROVE CallInv'
    BY <1>19 DEF HoldTimerExpires, Goto
<1>20. ASSUME NEW h \in Handlers, ReadError(h) PROVE CallInv'
    BY <1>20 DEF ReadError, Goto
<1>21. ASSUME NEW h \in Handlers, KeepaliveTorn(h) PROVE CallInv'
    BY <1>21 DEF KeepaliveTorn, Drop, Serving
<1>22. ASSUME NEW h \in Handlers, EndSession(h) PROVE CallInv'
    BY <1>22 DEF EndSession, Goto
<1>23. ASSUME NEW h \in Handlers, CloseConn(h) PROVE CallInv'
    BY <1>23 DEF CloseConn, Goto, Drop, ConnAfterClose
<1>24. CASE StartAttempt
    BY <1>24 DEF StartAttempt, Goto, DialerIs, Attempt, Park
<1>25. CASE WakeParked
    BY <1>25 DEF WakeParked, Goto, DialerIs
<1>26. CASE WakeBackoff
    BY <1>26 DEF WakeBackoff, Goto, DialerIs
<1>27. CASE DialFails
    BY <1>27 DEF DialFails, Goto, DialerIs
<1>28. CASE DialSucceeds
    BY <1>28 DEF DialSucceeds, Goto, DialerIs, NewConnection, TakeConn, Others
<1>29. CASE SendOpen
    BY <1>29 DEF SendOpen, Goto, DialerIs
<1>30. CASE ReadOpen
    BY <1>30 DEF ReadOpen, Goto, DialerIs, NegotiatedHold
<1>31. ASSUME NEW a \in Acceptors, LookUpPeer(a) PROVE CallInv'
    BY <1>31 DEF LookUpPeer, Goto, NewConnection
<1>32. ASSUME NEW a \in Acceptors, AdmitInbound(a) PROVE CallInv'
    BY <1>32 DEF AdmitInbound, Goto
<1>33. ASSUME NEW a \in Acceptors, RejectInbound(a) PROVE CallInv'
    BY <1>33 DEF RejectInbound, Goto, Drop
<1>34. ASSUME NEW a \in Acceptors, TakeInbound(a) PROVE CallInv'
    BY <1>34 DEF TakeInbound, Goto, TakeConn, Others, NegotiatedHold
<1>35. ASSUME NEW a \in Acceptors, SendOpenAndKeepalive(a) PROVE CallInv'
    BY <1>35 DEF SendOpenAndKeepalive, Goto
<1>36. ASSUME NEW a \in Acceptors, RecordCapabilities(a) PROVE CallInv'
    BY <1>36 DEF RecordCapabilities, Goto
<1>37. ASSUME NEW c \in Conn, RouterLeaves(c) PROVE CallInv'
    BY <1>37 DEF RouterLeaves, Drop
<1>. QED
    BY <1>1, <1>2, <1>3, <1>4, <1>5, <1>6, <1>7, <1>8, <1>9, <1>10, <1>11,
       <1>12, <1>13, <1>14, <1>15, <1>16, <1>17, <1>18, <1>19, <1>20,
       <1>21, <1>22, <1>23, <1>24, <1>25, <1>26, <1>27, <1>28, <1>29,
       <1>30, <1>31, <1>32, <1>33, <1>34, <1>35, <1>36, <1>37
    DEF Next, Resync, Manager, Session, Dial, Accept

\* Connections are not shared between handlers.
LEMMA SockStep == IInv /\ Next => SockInv'
<1> SUFFICES ASSUME IInv, Next PROVE SockInv'
    OBVIOUS
<1> USE SetsAssumption DEF IInv, peerVars, remote, TypeOK, PcInv, SockInv,
        Handlers, Active, TcpStates, DialerPcs, AcceptorPcs, SessionPcs
<1>1. CASE WriteChunk
    BY <1>1 DEF WriteChunk, Applied, Remaining
<1>2. CASE GroupRoutes
    BY <1>2 DEF GroupRoutes, Plan
<1>3. CASE FinishResync
    BY <1>3 DEF FinishResync, Return, NewLastSent
<1>4. CASE FailResync
    BY <1>4 DEF FailResync, Return, RearmUpdate, Drop
<1>5. CASE AnnounceRoutes
    BY <1>5 DEF AnnounceRoutes, SetRoutes
<1>6. CASE WithdrawRoutes
    BY <1>6 DEF WithdrawRoutes, SetRoutes
<1>7. CASE DeferRoutes
    BY <1>7 DEF DeferRoutes
<1>8. CASE SendRoutes
    BY <1>8 DEF SendRoutes, BeginResync, Withdrawals
<1>9. CASE TriggerUpdate
    BY <1>9 DEF TriggerUpdate
<1>10. CASE Stop
    BY <1>10 DEF Stop, Drop
<1>11. ASSUME NEW h \in Handlers, GiveUpHandshake(h) PROVE SockInv'
    BY <1>11 DEF GiveUpHandshake, Goto
<1>12. ASSUME NEW h \in Handlers, Establish(h) PROVE SockInv'
    BY <1>12 DEF Establish, Goto
<1>13. ASSUME NEW h \in Handlers, ResetSent(h) PROVE SockInv'
    BY <1>13 DEF ResetSent, Goto
<1>14. ASSUME NEW h \in Handlers, SessionResync(h) PROVE SockInv'
    BY <1>14 DEF SessionResync, BeginResync, Withdrawals
<1>15. ASSUME NEW h \in Handlers, MainLoop(h) PROVE SockInv'
    BY <1>15 DEF MainLoop, Goto, LoopHead
<1>16. ASSUME NEW h \in Handlers, ReadKeepalive(h) PROVE SockInv'
    BY <1>16 DEF ReadKeepalive, Goto
<1>17. ASSUME NEW h \in Handlers, ReadRouteRefresh(h) PROVE SockInv'
    BY <1>17 DEF ReadRouteRefresh, Goto
<1>18. ASSUME NEW h \in Handlers, ReadNotification(h) PROVE SockInv'
    BY <1>18 DEF ReadNotification, Goto
<1>19. ASSUME NEW h \in Handlers, HoldTimerExpires(h) PROVE SockInv'
    BY <1>19 DEF HoldTimerExpires, Goto
<1>20. ASSUME NEW h \in Handlers, ReadError(h) PROVE SockInv'
    BY <1>20 DEF ReadError, Goto
<1>21. ASSUME NEW h \in Handlers, KeepaliveTorn(h) PROVE SockInv'
    BY <1>21 DEF KeepaliveTorn, Drop, Serving
<1>22. ASSUME NEW h \in Handlers, EndSession(h) PROVE SockInv'
    BY <1>22 DEF EndSession, Goto
<1>23. ASSUME NEW h \in Handlers, CloseConn(h) PROVE SockInv'
    BY <1>23 DEF CloseConn, Goto, Drop, ConnAfterClose
<1>24. CASE StartAttempt
    BY <1>24 DEF StartAttempt, Goto, DialerIs, Attempt, Park
<1>25. CASE WakeParked
    BY <1>25 DEF WakeParked, Goto, DialerIs
<1>26. CASE WakeBackoff
    BY <1>26 DEF WakeBackoff, Goto, DialerIs
<1>27. CASE DialFails
    BY <1>27 DEF DialFails, Goto, DialerIs
<1>28. CASE DialSucceeds
    BY <1>28 DEF DialSucceeds, Goto, DialerIs, NewConnection, TakeConn, Others
<1>29. CASE SendOpen
    BY <1>29 DEF SendOpen, Goto, DialerIs
<1>30. CASE ReadOpen
    BY <1>30 DEF ReadOpen, Goto, DialerIs, NegotiatedHold
<1>31. ASSUME NEW a \in Acceptors, LookUpPeer(a) PROVE SockInv'
    BY <1>31 DEF LookUpPeer, Goto, NewConnection
<1>32. ASSUME NEW a \in Acceptors, AdmitInbound(a) PROVE SockInv'
    BY <1>32 DEF AdmitInbound, Goto
<1>33. ASSUME NEW a \in Acceptors, RejectInbound(a) PROVE SockInv'
    BY <1>33 DEF RejectInbound, Goto, Drop
<1>34. ASSUME NEW a \in Acceptors, TakeInbound(a) PROVE SockInv'
    BY <1>34 DEF TakeInbound, Goto, TakeConn, Others, NegotiatedHold
<1>35. ASSUME NEW a \in Acceptors, SendOpenAndKeepalive(a) PROVE SockInv'
    BY <1>35 DEF SendOpenAndKeepalive, Goto
<1>36. ASSUME NEW a \in Acceptors, RecordCapabilities(a) PROVE SockInv'
    BY <1>36 DEF RecordCapabilities, Goto
<1>37. ASSUME NEW c \in Conn, RouterLeaves(c) PROVE SockInv'
    BY <1>37 DEF RouterLeaves, Drop
<1>. QED
    BY <1>1, <1>2, <1>3, <1>4, <1>5, <1>6, <1>7, <1>8, <1>9, <1>10, <1>11,
       <1>12, <1>13, <1>14, <1>15, <1>16, <1>17, <1>18, <1>19, <1>20,
       <1>21, <1>22, <1>23, <1>24, <1>25, <1>26, <1>27, <1>28, <1>29,
       <1>30, <1>31, <1>32, <1>33, <1>34, <1>35, <1>36, <1>37
    DEF Next, Resync, Manager, Session, Dial, Accept

\* A router has a table only while its connection carries a session.
LEMMA TableStep == IInv /\ Next => TableInv'
<1> SUFFICES ASSUME IInv, Next PROVE TableInv'
    OBVIOUS
<1> USE SetsAssumption DEF IInv, peerVars, remote, TypeOK, PcInv, CallInv,
        SockInv, NameInv, TableInv, InUse,
        Handlers, Active, Resyncs, Stage, NoResync, TcpStates, DialerPcs,
        AcceptorPcs, SessionPcs
<1>1. CASE WriteChunk
    BY <1>1 DEF WriteChunk, Applied, Remaining
<1>2. CASE GroupRoutes
    BY <1>2 DEF GroupRoutes, Plan
<1>3. CASE FinishResync
    BY <1>3 DEF FinishResync, Return, NewLastSent
<1>4. CASE FailResync
    BY <1>4 DEF FailResync, Return, RearmUpdate, Drop
<1>5. CASE AnnounceRoutes
    BY <1>5 DEF AnnounceRoutes, SetRoutes
<1>6. CASE WithdrawRoutes
    BY <1>6 DEF WithdrawRoutes, SetRoutes
<1>7. CASE DeferRoutes
    BY <1>7 DEF DeferRoutes
<1>8. CASE SendRoutes
    BY <1>8 DEF SendRoutes, BeginResync, Withdrawals
<1>9. CASE TriggerUpdate
    BY <1>9 DEF TriggerUpdate
<1>10. CASE Stop
    BY <1>10 DEF Stop, Drop
<1>11. ASSUME NEW h \in Handlers, GiveUpHandshake(h) PROVE TableInv'
    BY <1>11 DEF GiveUpHandshake, Goto
<1>12. ASSUME NEW h \in Handlers, Establish(h) PROVE TableInv'
    BY <1>12 DEF Establish, Goto
<1>13. ASSUME NEW h \in Handlers, ResetSent(h) PROVE TableInv'
    BY <1>13 DEF ResetSent, Goto
<1>14. ASSUME NEW h \in Handlers, SessionResync(h) PROVE TableInv'
    BY <1>14 DEF SessionResync, BeginResync, Withdrawals
<1>15. ASSUME NEW h \in Handlers, MainLoop(h) PROVE TableInv'
    BY <1>15 DEF MainLoop, Goto, LoopHead
<1>16. ASSUME NEW h \in Handlers, ReadKeepalive(h) PROVE TableInv'
    BY <1>16 DEF ReadKeepalive, Goto
<1>17. ASSUME NEW h \in Handlers, ReadRouteRefresh(h) PROVE TableInv'
    BY <1>17 DEF ReadRouteRefresh, Goto
<1>18. ASSUME NEW h \in Handlers, ReadNotification(h) PROVE TableInv'
    BY <1>18 DEF ReadNotification, Goto
<1>19. ASSUME NEW h \in Handlers, HoldTimerExpires(h) PROVE TableInv'
    BY <1>19 DEF HoldTimerExpires, Goto
<1>20. ASSUME NEW h \in Handlers, ReadError(h) PROVE TableInv'
    BY <1>20 DEF ReadError, Goto
<1>21. ASSUME NEW h \in Handlers, KeepaliveTorn(h) PROVE TableInv'
    BY <1>21 DEF KeepaliveTorn, Drop, Serving
<1>22. ASSUME NEW h \in Handlers, EndSession(h) PROVE TableInv'
    BY <1>22 DEF EndSession, Goto
<1>23. ASSUME NEW h \in Handlers, CloseConn(h) PROVE TableInv'
    BY <1>23 DEF CloseConn, Goto, Drop, ConnAfterClose
<1>24. CASE StartAttempt
    BY <1>24 DEF StartAttempt, Goto, DialerIs, Attempt, Park
<1>25. CASE WakeParked
    BY <1>25 DEF WakeParked, Goto, DialerIs
<1>26. CASE WakeBackoff
    BY <1>26 DEF WakeBackoff, Goto, DialerIs
<1>27. CASE DialFails
    BY <1>27 DEF DialFails, Goto, DialerIs
<1>28. CASE DialSucceeds
    BY <1>28 DEF DialSucceeds, Goto, DialerIs, NewConnection, TakeConn, Others
<1>29. CASE SendOpen
    BY <1>29 DEF SendOpen, Goto, DialerIs
<1>30. CASE ReadOpen
    BY <1>30 DEF ReadOpen, Goto, DialerIs, NegotiatedHold
<1>31. ASSUME NEW a \in Acceptors, LookUpPeer(a) PROVE TableInv'
    BY <1>31 DEF LookUpPeer, Goto, NewConnection
<1>32. ASSUME NEW a \in Acceptors, AdmitInbound(a) PROVE TableInv'
    BY <1>32 DEF AdmitInbound, Goto
<1>33. ASSUME NEW a \in Acceptors, RejectInbound(a) PROVE TableInv'
    BY <1>33 DEF RejectInbound, Goto, Drop
<1>34. ASSUME NEW a \in Acceptors, TakeInbound(a) PROVE TableInv'
    BY <1>34 DEF TakeInbound, Goto, TakeConn, Others, NegotiatedHold
<1>35. ASSUME NEW a \in Acceptors, SendOpenAndKeepalive(a) PROVE TableInv'
    BY <1>35 DEF SendOpenAndKeepalive, Goto
<1>36. ASSUME NEW a \in Acceptors, RecordCapabilities(a) PROVE TableInv'
    BY <1>36 DEF RecordCapabilities, Goto
<1>37. ASSUME NEW c \in Conn, RouterLeaves(c) PROVE TableInv'
    BY <1>37 DEF RouterLeaves, Drop
<1>. QED
    BY <1>1, <1>2, <1>3, <1>4, <1>5, <1>6, <1>7, <1>8, <1>9, <1>10, <1>11,
       <1>12, <1>13, <1>14, <1>15, <1>16, <1>17, <1>18, <1>19, <1>20,
       <1>21, <1>22, <1>23, <1>24, <1>25, <1>26, <1>27, <1>28, <1>29,
       <1>30, <1>31, <1>32, <1>33, <1>34, <1>35, <1>36, <1>37
    DEF Next, Resync, Manager, Session, Dial, Accept

\* p.conn, and the connection a caller of resyncRoutes captured, were handed
\* to the peer before.
LEMMA NameStep == IInv /\ Next => NameInv'
<1> SUFFICES ASSUME IInv, Next PROVE NameInv'
    OBVIOUS
<1> USE SetsAssumption DEF IInv, peerVars, remote, TypeOK, PcInv, CallInv,
        SockInv, NameInv, ConnIsServed,
        Handlers, Threads, Active, Resyncs, Stage, NoResync, DialerPcs,
        AcceptorPcs, SessionPcs
<1>1. CASE WriteChunk
    BY <1>1 DEF WriteChunk, Applied, Remaining
<1>2. CASE GroupRoutes
  <2>1. UNCHANGED <<peerVars, pc, sock, timer, mgr, tcp>>
    BY <1>2 DEF GroupRoutes
  <2>2. resync' # NoResync /\ resync # NoResync /\ resync'.on = resync.on
    BY GroupRoutesFacts, <1>2
  <2>. QED
    BY <2>1, <2>2
<1>3. CASE FinishResync
    BY <1>3 DEF FinishResync, Return, NewLastSent
<1>4. CASE FailResync
    BY <1>4 DEF FailResync, Return, RearmUpdate, Drop
<1>5. CASE AnnounceRoutes
    BY <1>5 DEF AnnounceRoutes, SetRoutes
<1>6. CASE WithdrawRoutes
    BY <1>6 DEF WithdrawRoutes, SetRoutes
<1>7. CASE DeferRoutes
    BY <1>7 DEF DeferRoutes
<1>8. CASE SendRoutes
    BY <1>8 DEF SendRoutes, BeginResync, Withdrawals
<1>9. CASE TriggerUpdate
    BY <1>9 DEF TriggerUpdate
<1>10. CASE Stop
    BY <1>10 DEF Stop, Drop
<1>11. ASSUME NEW h \in Handlers, GiveUpHandshake(h) PROVE NameInv'
    BY <1>11 DEF GiveUpHandshake, Goto
<1>12. ASSUME NEW h \in Handlers, Establish(h) PROVE NameInv'
    BY <1>12 DEF Establish, Goto
<1>13. ASSUME NEW h \in Handlers, ResetSent(h) PROVE NameInv'
    BY <1>13 DEF ResetSent, Goto
<1>14. ASSUME NEW h \in Handlers, SessionResync(h) PROVE NameInv'
    BY <1>14 DEF SessionResync, BeginResync, Withdrawals
<1>15. ASSUME NEW h \in Handlers, MainLoop(h) PROVE NameInv'
    BY <1>15 DEF MainLoop, Goto, LoopHead
<1>16. ASSUME NEW h \in Handlers, ReadKeepalive(h) PROVE NameInv'
    BY <1>16 DEF ReadKeepalive, Goto
<1>17. ASSUME NEW h \in Handlers, ReadRouteRefresh(h) PROVE NameInv'
    BY <1>17 DEF ReadRouteRefresh, Goto
<1>18. ASSUME NEW h \in Handlers, ReadNotification(h) PROVE NameInv'
    BY <1>18 DEF ReadNotification, Goto
<1>19. ASSUME NEW h \in Handlers, HoldTimerExpires(h) PROVE NameInv'
    BY <1>19 DEF HoldTimerExpires, Goto
<1>20. ASSUME NEW h \in Handlers, ReadError(h) PROVE NameInv'
    BY <1>20 DEF ReadError, Goto
<1>21. ASSUME NEW h \in Handlers, KeepaliveTorn(h) PROVE NameInv'
    BY <1>21 DEF KeepaliveTorn, Drop, Serving
<1>22. ASSUME NEW h \in Handlers, EndSession(h) PROVE NameInv'
    BY <1>22 DEF EndSession, Goto
<1>23. ASSUME NEW h \in Handlers, CloseConn(h) PROVE NameInv'
    BY <1>23 DEF CloseConn, Goto, Drop, ConnAfterClose
<1>24. CASE StartAttempt
    BY <1>24 DEF StartAttempt, Goto, DialerIs, Attempt, Park
<1>25. CASE WakeParked
    BY <1>25 DEF WakeParked, Goto, DialerIs
<1>26. CASE WakeBackoff
    BY <1>26 DEF WakeBackoff, Goto, DialerIs
<1>27. CASE DialFails
    BY <1>27 DEF DialFails, Goto, DialerIs
<1>28. CASE DialSucceeds
    BY <1>28 DEF DialSucceeds, Goto, DialerIs, NewConnection, TakeConn, Others
<1>29. CASE SendOpen
    BY <1>29 DEF SendOpen, Goto, DialerIs
<1>30. CASE ReadOpen
    BY <1>30 DEF ReadOpen, Goto, DialerIs, NegotiatedHold
<1>31. ASSUME NEW a \in Acceptors, LookUpPeer(a) PROVE NameInv'
    BY <1>31 DEF LookUpPeer, Goto, NewConnection
<1>32. ASSUME NEW a \in Acceptors, AdmitInbound(a) PROVE NameInv'
    BY <1>32 DEF AdmitInbound, Goto
<1>33. ASSUME NEW a \in Acceptors, RejectInbound(a) PROVE NameInv'
    BY <1>33 DEF RejectInbound, Goto, Drop
<1>34. ASSUME NEW a \in Acceptors, TakeInbound(a) PROVE NameInv'
    BY <1>34 DEF TakeInbound, Goto, TakeConn, Others, NegotiatedHold
<1>35. ASSUME NEW a \in Acceptors, SendOpenAndKeepalive(a) PROVE NameInv'
    BY <1>35 DEF SendOpenAndKeepalive, Goto
<1>36. ASSUME NEW a \in Acceptors, RecordCapabilities(a) PROVE NameInv'
    BY <1>36 DEF RecordCapabilities, Goto
<1>37. ASSUME NEW c \in Conn, RouterLeaves(c) PROVE NameInv'
    BY <1>37 DEF RouterLeaves, Drop
<1>. QED
    BY <1>1, <1>2, <1>3, <1>4, <1>5, <1>6, <1>7, <1>8, <1>9, <1>10, <1>11,
       <1>12, <1>13, <1>14, <1>15, <1>16, <1>17, <1>18, <1>19, <1>20,
       <1>21, <1>22, <1>23, <1>24, <1>25, <1>26, <1>27, <1>28, <1>29,
       <1>30, <1>31, <1>32, <1>33, <1>34, <1>35, <1>36, <1>37
    DEF Next, Resync, Manager, Session, Dial, Accept

\* Two sessions alive at once are both blamed.
LEMMA ShareStep == IInv /\ Next => ShareInv'
<1> SUFFICES ASSUME IInv, Next PROVE ShareInv'
    OBVIOUS
<1> USE SetsAssumption DEF IInv, peerVars, remote, TypeOK, PcInv, CallInv,
        SockInv, ShareInv,
        Stage, Handlers, Active, Causes, DialerPcs, AcceptorPcs, SessionPcs
<1>1. CASE WriteChunk
    BY <1>1 DEF WriteChunk, Applied, Remaining
<1>2. CASE GroupRoutes
    BY <1>2 DEF GroupRoutes, Plan
<1>3. CASE FinishResync
    BY <1>3 DEF FinishResync, Return, NewLastSent
<1>4. CASE FailResync
    BY <1>4 DEF FailResync, Return, RearmUpdate, Drop
<1>5. CASE AnnounceRoutes
    BY <1>5 DEF AnnounceRoutes, SetRoutes
<1>6. CASE WithdrawRoutes
    BY <1>6 DEF WithdrawRoutes, SetRoutes
<1>7. CASE DeferRoutes
    BY <1>7 DEF DeferRoutes
<1>8. CASE SendRoutes
    BY <1>8 DEF SendRoutes, BeginResync, Withdrawals
<1>9. CASE TriggerUpdate
    BY <1>9 DEF TriggerUpdate
<1>10. CASE Stop
    BY <1>10 DEF Stop, Drop
<1>11. ASSUME NEW h \in Handlers, GiveUpHandshake(h) PROVE ShareInv'
    BY <1>11 DEF GiveUpHandshake, Goto
<1>12. ASSUME NEW h \in Handlers, Establish(h) PROVE ShareInv'
    BY <1>12 DEF Establish, Goto
<1>13. ASSUME NEW h \in Handlers, ResetSent(h) PROVE ShareInv'
    BY <1>13 DEF ResetSent, Goto
<1>14. ASSUME NEW h \in Handlers, SessionResync(h) PROVE ShareInv'
    BY <1>14 DEF SessionResync, BeginResync, Withdrawals
<1>15. ASSUME NEW h \in Handlers, MainLoop(h) PROVE ShareInv'
    BY <1>15 DEF MainLoop, Goto, LoopHead
<1>16. ASSUME NEW h \in Handlers, ReadKeepalive(h) PROVE ShareInv'
    BY <1>16 DEF ReadKeepalive, Goto
<1>17. ASSUME NEW h \in Handlers, ReadRouteRefresh(h) PROVE ShareInv'
    BY <1>17 DEF ReadRouteRefresh, Goto
<1>18. ASSUME NEW h \in Handlers, ReadNotification(h) PROVE ShareInv'
    BY <1>18 DEF ReadNotification, Goto
<1>19. ASSUME NEW h \in Handlers, HoldTimerExpires(h) PROVE ShareInv'
    BY <1>19 DEF HoldTimerExpires, Goto
<1>20. ASSUME NEW h \in Handlers, ReadError(h) PROVE ShareInv'
    BY <1>20 DEF ReadError, Goto
<1>21. ASSUME NEW h \in Handlers, KeepaliveTorn(h) PROVE ShareInv'
    BY <1>21 DEF KeepaliveTorn, Drop, Serving
<1>22. ASSUME NEW h \in Handlers, EndSession(h) PROVE ShareInv'
    BY <1>22 DEF EndSession, Goto
<1>23. ASSUME NEW h \in Handlers, CloseConn(h) PROVE ShareInv'
    BY <1>23 DEF CloseConn, Goto, Drop, ConnAfterClose
<1>24. CASE StartAttempt
    BY <1>24 DEF StartAttempt, Goto, DialerIs, Attempt, Park
<1>25. CASE WakeParked
    BY <1>25 DEF WakeParked, Goto, DialerIs
<1>26. CASE WakeBackoff
    BY <1>26 DEF WakeBackoff, Goto, DialerIs
<1>27. CASE DialFails
    BY <1>27 DEF DialFails, Goto, DialerIs
<1>28. CASE DialSucceeds
    BY <1>28 DEF DialSucceeds, Goto, DialerIs, NewConnection, TakeConn, Others
<1>29. CASE SendOpen
    BY <1>29 DEF SendOpen, Goto, DialerIs
<1>30. CASE ReadOpen
    BY <1>30 DEF ReadOpen, Goto, DialerIs, NegotiatedHold
<1>31. ASSUME NEW a \in Acceptors, LookUpPeer(a) PROVE ShareInv'
    BY <1>31 DEF LookUpPeer, Goto, NewConnection
<1>32. ASSUME NEW a \in Acceptors, AdmitInbound(a) PROVE ShareInv'
    BY <1>32 DEF AdmitInbound, Goto
<1>33. ASSUME NEW a \in Acceptors, RejectInbound(a) PROVE ShareInv'
    BY <1>33 DEF RejectInbound, Goto, Drop
<1>34. ASSUME NEW a \in Acceptors, TakeInbound(a) PROVE ShareInv'
    BY <1>34 DEF TakeInbound, Goto, TakeConn, Others, NegotiatedHold
<1>35. ASSUME NEW a \in Acceptors, SendOpenAndKeepalive(a) PROVE ShareInv'
    BY <1>35 DEF SendOpenAndKeepalive, Goto
<1>36. ASSUME NEW a \in Acceptors, RecordCapabilities(a) PROVE ShareInv'
    BY <1>36 DEF RecordCapabilities, Goto
<1>37. ASSUME NEW c \in Conn, RouterLeaves(c) PROVE ShareInv'
    BY <1>37 DEF RouterLeaves, Drop
<1>. QED
    BY <1>1, <1>2, <1>3, <1>4, <1>5, <1>6, <1>7, <1>8, <1>9, <1>10, <1>11,
       <1>12, <1>13, <1>14, <1>15, <1>16, <1>17, <1>18, <1>19, <1>20,
       <1>21, <1>22, <1>23, <1>24, <1>25, <1>26, <1>27, <1>28, <1>29,
       <1>30, <1>31, <1>32, <1>33, <1>34, <1>35, <1>36, <1>37
    DEF Next, Resync, Manager, Session, Dial, Accept

\* A resync of a session that has not reached resetSent is blamed.
LEMMA EarlyStep == IInv /\ Next => EarlyInv'
<1> SUFFICES ASSUME IInv, Next PROVE EarlyInv'
    OBVIOUS
<1> USE SetsAssumption DEF IInv, peerVars, remote, TypeOK, PcInv, SockInv,
        NameInv, EarlyInv, BeforeReset,
        Handlers, Threads, Active, NoResync, Resyncs, DialerPcs, AcceptorPcs,
        SessionPcs
<1>1. CASE WriteChunk
    BY <1>1 DEF WriteChunk, Applied, Remaining
<1>2. CASE GroupRoutes
    BY <1>2 DEF GroupRoutes, Plan
<1>3. CASE FinishResync
    BY <1>3 DEF FinishResync, Return, NewLastSent
<1>4. CASE FailResync
    BY <1>4 DEF FailResync, Return, RearmUpdate, Drop
<1>5. CASE AnnounceRoutes
    BY <1>5 DEF AnnounceRoutes, SetRoutes
<1>6. CASE WithdrawRoutes
    BY <1>6 DEF WithdrawRoutes, SetRoutes
<1>7. CASE DeferRoutes
    BY <1>7 DEF DeferRoutes
<1>8. CASE SendRoutes
    BY <1>8 DEF SendRoutes, BeginResync, Withdrawals
<1>9. CASE TriggerUpdate
    BY <1>9 DEF TriggerUpdate
<1>10. CASE Stop
    BY <1>10 DEF Stop, Drop
<1>11. ASSUME NEW h \in Handlers, GiveUpHandshake(h) PROVE EarlyInv'
    BY <1>11 DEF GiveUpHandshake, Goto
<1>12. ASSUME NEW h \in Handlers, Establish(h) PROVE EarlyInv'
    BY <1>12 DEF Establish, Goto
<1>13. ASSUME NEW h \in Handlers, ResetSent(h) PROVE EarlyInv'
    BY <1>13 DEF ResetSent, Goto
<1>14. ASSUME NEW h \in Handlers, SessionResync(h) PROVE EarlyInv'
    BY <1>14 DEF SessionResync, BeginResync, Withdrawals
<1>15. ASSUME NEW h \in Handlers, MainLoop(h) PROVE EarlyInv'
    BY <1>15 DEF MainLoop, Goto, LoopHead
<1>16. ASSUME NEW h \in Handlers, ReadKeepalive(h) PROVE EarlyInv'
    BY <1>16 DEF ReadKeepalive, Goto
<1>17. ASSUME NEW h \in Handlers, ReadRouteRefresh(h) PROVE EarlyInv'
    BY <1>17 DEF ReadRouteRefresh, Goto
<1>18. ASSUME NEW h \in Handlers, ReadNotification(h) PROVE EarlyInv'
    BY <1>18 DEF ReadNotification, Goto
<1>19. ASSUME NEW h \in Handlers, HoldTimerExpires(h) PROVE EarlyInv'
    BY <1>19 DEF HoldTimerExpires, Goto
<1>20. ASSUME NEW h \in Handlers, ReadError(h) PROVE EarlyInv'
    BY <1>20 DEF ReadError, Goto
<1>21. ASSUME NEW h \in Handlers, KeepaliveTorn(h) PROVE EarlyInv'
    BY <1>21 DEF KeepaliveTorn, Drop, Serving
<1>22. ASSUME NEW h \in Handlers, EndSession(h) PROVE EarlyInv'
    BY <1>22 DEF EndSession, Goto
<1>23. ASSUME NEW h \in Handlers, CloseConn(h) PROVE EarlyInv'
    BY <1>23 DEF CloseConn, Goto, Drop, ConnAfterClose
<1>24. CASE StartAttempt
    BY <1>24 DEF StartAttempt, Goto, DialerIs, Attempt, Park
<1>25. CASE WakeParked
    BY <1>25 DEF WakeParked, Goto, DialerIs
<1>26. CASE WakeBackoff
    BY <1>26 DEF WakeBackoff, Goto, DialerIs
<1>27. CASE DialFails
    BY <1>27 DEF DialFails, Goto, DialerIs
<1>28. CASE DialSucceeds
    BY <1>28 DEF DialSucceeds, Goto, DialerIs, NewConnection, TakeConn, Others
<1>29. CASE SendOpen
    BY <1>29 DEF SendOpen, Goto, DialerIs
<1>30. CASE ReadOpen
    BY <1>30 DEF ReadOpen, Goto, DialerIs, NegotiatedHold
<1>31. ASSUME NEW a \in Acceptors, LookUpPeer(a) PROVE EarlyInv'
    BY <1>31 DEF LookUpPeer, Goto, NewConnection
<1>32. ASSUME NEW a \in Acceptors, AdmitInbound(a) PROVE EarlyInv'
    BY <1>32 DEF AdmitInbound, Goto
<1>33. ASSUME NEW a \in Acceptors, RejectInbound(a) PROVE EarlyInv'
    BY <1>33 DEF RejectInbound, Goto, Drop
<1>34. ASSUME NEW a \in Acceptors, TakeInbound(a) PROVE EarlyInv'
    BY <1>34 DEF TakeInbound, Goto, TakeConn, Others, NegotiatedHold
<1>35. ASSUME NEW a \in Acceptors, SendOpenAndKeepalive(a) PROVE EarlyInv'
    BY <1>35 DEF SendOpenAndKeepalive, Goto
<1>36. ASSUME NEW a \in Acceptors, RecordCapabilities(a) PROVE EarlyInv'
    BY <1>36 DEF RecordCapabilities, Goto
<1>37. ASSUME NEW c \in Conn, RouterLeaves(c) PROVE EarlyInv'
    BY <1>37 DEF RouterLeaves, Drop
<1>. QED
    BY <1>1, <1>2, <1>3, <1>4, <1>5, <1>6, <1>7, <1>8, <1>9, <1>10, <1>11,
       <1>12, <1>13, <1>14, <1>15, <1>16, <1>17, <1>18, <1>19, <1>20,
       <1>21, <1>22, <1>23, <1>24, <1>25, <1>26, <1>27, <1>28, <1>29,
       <1>30, <1>31, <1>32, <1>33, <1>34, <1>35, <1>36, <1>37
    DEF Next, Resync, Manager, Session, Dial, Accept

\* Writing a chunk ends no session and blames nobody.
LEMMA WriteChunkBooks ==
    ASSUME WriteChunk,
           \A h \in Handlers : Live(h) /\ blame[sock[h]] = {} => Covered(h)'
    PROVE  BooksInv'
    BY DEF BooksInv, WriteChunk, Live, Active

\* Closing a connection leaves the other handlers' sessions as they were.
LEMMA CloseConnBooks ==
    ASSUME IInv, NEW h \in Handlers, CloseConn(h)
    PROVE  BooksInv'
<1> SUFFICES ASSUME NEW g \in Handlers, Live(g)', (blame[sock[g]] = {})'
             PROVE  Covered(g)'
    BY DEF BooksInv
<1>1. /\ pc \in [Handlers -> DialerPcs \cup AcceptorPcs \cup SessionPcs]
      /\ sock \in [Handlers -> Conn \cup {NoConn}]
      /\ tcp \in [Conn -> TcpStates]
      /\ table \in [Conn -> Tables]
      /\ blame \in [Conn -> SUBSET Causes]
      /\ UNCHANGED <<lastSent, resync, hasIPv6Cap>>
    BY DEF IInv, TypeOK, CloseConn
<1>2. pc'[h] \in {"free", "done", "backoff"}
    BY <1>1 DEF CloseConn, Goto
<1>3. g # h
    BY <1>2 DEF Live, Active, SessionPcs
<1>4. pc'[g] = pc[g] /\ sock'[g] = sock[g]
    BY <1>1, <1>3 DEF CloseConn, Goto
<1>5. Active(g) /\ sock[g] # NoConn /\ sock[g] # sock[h]
    BY <1>3, <1>4 DEF Live, Active, IInv, PcInv, SockInv
<1>6. sock[g] \in Conn
    BY <1>1, <1>5
<1>7. /\ tcp'[sock[g]] = tcp[sock[g]]
      /\ table'[sock[g]] = table[sock[g]]
      /\ blame'[sock[g]] = blame[sock[g]]
    BY <1>1, <1>5, <1>6 DEF CloseConn, Drop
<1>8. Covered(g)
    BY <1>4, <1>5, <1>7 DEF Live, IInv, BooksInv
<1>. QED
    BY <1>1, <1>4, <1>7, <1>8
    DEF Covered, BeforeReset, Accounted, Stage, Table

\* lastSent and the resync in progress cover what an unblamed router holds.
LEMMA BooksStep == IInv /\ Next => BooksInv'
<1> SUFFICES ASSUME IInv, Next PROVE BooksInv'
    OBVIOUS
<1> USE SetsAssumption DEF IInv, peerVars, remote, TypeOK, PcInv, CallInv,
        SockInv, NameInv, TableInv, ShareInv,
        EarlyInv, BooksInv, Covered, InUse, BeforeReset, Accounted, Live,
        Stage, Table,
        Held, Tables, EmptyTable, Prefix, Handlers, Threads, Active, NoResync,
        Resyncs, DialerPcs, AcceptorPcs, SessionPcs
<1>1. CASE WriteChunk
  <2>1. ASSUME NEW h \in Handlers, Live(h), blame[sock[h]] = {}
        PROVE  Covered(h)'
    <3>1. PICK chunk \in SUBSET resync.todo :
            /\ resync' = [resync EXCEPT !.todo = resync.todo \ chunk]
            /\ table' = IF tcp[resync.on] = "up"
                        THEN [table EXCEPT ![resync.on] = Applied(chunk)]
                        ELSE table
      BY WriteChunkFacts, <1>1
    <3>3. resync \in Resyncs /\ tcp[resync.on] \in {"up", "gone"}
      BY <1>1 DEF WriteChunk
    <3>4. sock[h] = resync.on
      BY <2>1, <3>3
    <3>5. Table(h)' = Applied(chunk)
      BY <3>1, <2>1, <3>3, <3>4, <1>1 DEF WriteChunk
    <3>6. BeforeReset(h)' => FALSE
      BY <2>1, <3>3, <3>4, <1>1 DEF WriteChunk
    <3>7. CASE resync.stage = "withdraw"
      <4>1. Held(Table(h))' = Held(Table(h)) \ chunk
        BY <3>3, <3>4, <3>5, <3>7 DEF Applied
      <4>. QED
        BY <3>1, <2>1, <3>3, <3>4, <3>6, <3>7, <4>1, <1>1 DEF WriteChunk
    <3>8. CASE resync.stage = "announce"
      <4>1. Held(Table(h))' \subseteq Held(Table(h)) \cup chunk
        BY <3>3, <3>4, <3>5, <3>8 DEF Applied
      <4>2. Accounted(h)' => Held(Table(h))' \subseteq resync.sent
        BY <3>1, <2>1, <3>3, <3>4, <3>6, <3>8, <4>1, <1>1 DEF WriteChunk
      <4>3. Stage("announce") /\ Stage("announce")' /\ ~Stage("withdraw")'
        BY <3>1, <3>3, <3>8
      <4>4. UNCHANGED <<pc, sock, hasIPv6Cap, lastSent>> /\ resync'.on = resync.on
            /\ resync'.sent = resync.sent
        BY <3>1, <3>3, <1>1 DEF WriteChunk
      <4>5. Accounted(h)' => Held(Table(h))' \cap Prefix6 = {} \/ hasIPv6Cap
        <5>1. ASSUME Accounted(h) PROVE resync.sent = Plan(resync.want)
          BY <2>1, <4>3, <5>1 DEF PlanInv, Planned, Alone
        <5>2. chunk \subseteq resync.sent
          BY <3>1, <3>8, <4>3
        <5>. QED
          BY <2>1, <3>4, <4>1, <4>4, <5>1, <5>2 DEF Plan
      <4>. QED
        BY <3>4, <3>6, <4>2, <4>3, <4>4, <4>5
    <3>. QED
      BY <3>3, <3>7, <3>8
  <2> HIDE DEF IInv, peerVars, remote, TypeOK, PcInv, CallInv, SockInv,
        NameInv, TableInv, ShareInv, EarlyInv, BooksInv, Covered, InUse,
        BeforeReset, Accounted, Live, Stage, Table, Active, Resyncs
  <2>. QED
    BY <1>1, <2>1, WriteChunkBooks
<1>2. CASE GroupRoutes
    BY <1>2 DEF GroupRoutes, Plan
<1>3. CASE FinishResync
    BY <1>3 DEF FinishResync, Return, NewLastSent
<1>4. CASE FailResync
  <2>1. SUFFICES ASSUME NEW h \in Handlers, Live(h)', (blame[sock[h]] = {})'
                 PROVE  Covered(h)'
    BY <1>4
  <2>2. /\ resync' = NoResync
        /\ UNCHANGED <<hasIPv6Cap, lastSent, sock>>
        /\ \A g \in Handlers : pc'[g] = pc[g] \/ (resync.by = g /\ pc'[g] = "end")
    BY <1>4 DEF FailResync, Return
  <2>3. /\ Live(h) /\ blame[sock[h]] = {} /\ sock[h] # resync.on
        /\ table'[sock[h]] = table[sock[h]]
    <3>1. CASE tcp[resync.on] # "up" /\ UNCHANGED <<tcp, remote, blame>>
      BY <2>1, <2>2, <3>1
    <3>2. CASE blame' = [blame EXCEPT ![resync.on] = @ \cup {"gap"}]
               /\ UNCHANGED <<tcp, remote>>
      <4>1. resync \in Resyncs
        BY <1>4 DEF FailResync
      <4>2. blame'[resync.on] # {}
        BY <3>2, <4>1
      <4>3. Live(h)
        BY <2>1, <2>2, <3>2, <1>4
      <4>4. sock[h] \in Conn /\ sock[h] # resync.on
        BY <2>1, <2>2, <4>2, <4>3
      <4>. QED
        BY <2>1, <2>2, <3>2, <4>3, <4>4
    <3>3. CASE Drop(resync.on, "closed") /\ UNCHANGED blame
      BY <2>1, <2>2, <3>3, <1>4 DEF FailResync, Drop
    <3>. QED
      BY <3>1, <3>2, <3>3, <1>4 DEF FailResync
  <2>. QED
    BY <2>1, <2>2, <2>3
<1>5. CASE AnnounceRoutes
    BY <1>5 DEF AnnounceRoutes, SetRoutes
<1>6. CASE WithdrawRoutes
    BY <1>6 DEF WithdrawRoutes, SetRoutes
<1>7. CASE DeferRoutes
    BY <1>7 DEF DeferRoutes
<1>8. CASE SendRoutes
    BY <1>8 DEF SendRoutes, BeginResync, Withdrawals
<1>9. CASE TriggerUpdate
    BY <1>9 DEF TriggerUpdate
<1>10. CASE Stop
    BY <1>10 DEF Stop, Drop
<1>11. ASSUME NEW h \in Handlers, GiveUpHandshake(h) PROVE BooksInv'
    BY <1>11 DEF GiveUpHandshake, Goto
<1>12. ASSUME NEW h \in Handlers, Establish(h) PROVE BooksInv'
    BY <1>12 DEF Establish, Goto
<1>13. ASSUME NEW h \in Handlers, ResetSent(h) PROVE BooksInv'
    BY <1>13 DEF ResetSent, Goto
<1>14. ASSUME NEW h \in Handlers, SessionResync(h) PROVE BooksInv'
    BY <1>14 DEF SessionResync, BeginResync, Withdrawals
<1>15. ASSUME NEW h \in Handlers, MainLoop(h) PROVE BooksInv'
    BY <1>15 DEF MainLoop, Goto, LoopHead
<1>16. ASSUME NEW h \in Handlers, ReadKeepalive(h) PROVE BooksInv'
    BY <1>16 DEF ReadKeepalive, Goto
<1>17. ASSUME NEW h \in Handlers, ReadRouteRefresh(h) PROVE BooksInv'
    BY <1>17 DEF ReadRouteRefresh, Goto
<1>18. ASSUME NEW h \in Handlers, ReadNotification(h) PROVE BooksInv'
    BY <1>18 DEF ReadNotification, Goto
<1>19. ASSUME NEW h \in Handlers, HoldTimerExpires(h) PROVE BooksInv'
    BY <1>19 DEF HoldTimerExpires, Goto
<1>20. ASSUME NEW h \in Handlers, ReadError(h) PROVE BooksInv'
    BY <1>20 DEF ReadError, Goto
<1>21. ASSUME NEW h \in Handlers, KeepaliveTorn(h) PROVE BooksInv'
    BY <1>21 DEF KeepaliveTorn, Drop, Serving
<1>22. ASSUME NEW h \in Handlers, EndSession(h) PROVE BooksInv'
    BY <1>22 DEF EndSession, Goto
<1>23. ASSUME NEW h \in Handlers, CloseConn(h) PROVE BooksInv'
    BY <1>23, CloseConnBooks
<1>24. CASE StartAttempt
    BY <1>24 DEF StartAttempt, Goto, DialerIs, Attempt, Park
<1>25. CASE WakeParked
    BY <1>25 DEF WakeParked, Goto, DialerIs
<1>26. CASE WakeBackoff
    BY <1>26 DEF WakeBackoff, Goto, DialerIs
<1>27. CASE DialFails
    BY <1>27 DEF DialFails, Goto, DialerIs
<1>28. CASE DialSucceeds
  <2>1. SUFFICES ASSUME NEW h \in Handlers, Live(h)', (blame[sock[h]] = {})'
                 PROVE  Covered(h)'
    BY <1>28
  <2>2. PICK c \in Conn : NewConnection(Dialer, c) /\ TakeConn(Dialer, c)
    BY <1>28 DEF DialSucceeds
  <2>3. CASE h = Dialer
    BY <2>1, <2>2, <2>3, <1>28 DEF DialSucceeds, NewConnection, Goto, DialerIs
  <2>4. CASE h # Dialer
    <3>1. Live(h) /\ h \in Others(Dialer)
      BY <2>1, <2>2, <2>4, <1>28 DEF DialSucceeds, NewConnection, Goto, Others
    <3>2. "shared" \in blame'[sock[h]]
      BY <2>2, <2>4, <3>1 DEF TakeConn
    <3>. QED
      BY <2>1, <2>2, <2>4, <3>1, <3>2 DEF NewConnection
  <2>. QED
    BY <2>3, <2>4
<1>29. CASE SendOpen
    BY <1>29 DEF SendOpen, Goto, DialerIs
<1>30. CASE ReadOpen
    BY <1>30 DEF ReadOpen, Goto, DialerIs, NegotiatedHold
<1>31. ASSUME NEW a \in Acceptors, LookUpPeer(a) PROVE BooksInv'
  <2>1. PICK c \in Conn : NewConnection(a, c)
    BY <1>31 DEF LookUpPeer
  <2>2. SUFFICES ASSUME NEW h \in Handlers, Live(h)', (blame[sock[h]] = {})'
                 PROVE  Covered(h)'
    BY <1>31
  <2>3. h # a
    BY <2>2, <1>31 DEF LookUpPeer, Goto
  <2>4. /\ Live(h) /\ sock[h] # c
        /\ UNCHANGED <<pc[h], sock[h], hasIPv6Cap, lastSent, resync, table, blame>>
    BY <2>1, <2>2, <2>3, <1>31 DEF LookUpPeer, NewConnection, Goto
  <2>. QED
    BY <2>2, <2>4
<1>32. ASSUME NEW a \in Acceptors, AdmitInbound(a) PROVE BooksInv'
    BY <1>32 DEF AdmitInbound, Goto
<1>33. ASSUME NEW a \in Acceptors, RejectInbound(a) PROVE BooksInv'
  <2>1. pc[a] # pc'[a] /\ ~Active(a)'
    BY <1>33 DEF RejectInbound, Goto
  <2>2. SUFFICES ASSUME NEW h \in Handlers, Live(h)', (blame[sock[h]] = {})'
                 PROVE  Covered(h)'
    OBVIOUS
  <2>3. h # a /\ sock[h] # sock[a]
    BY <2>1, <2>2, <1>33 DEF RejectInbound, Goto
  <2>. QED
    BY <2>2, <2>3, <1>33 DEF RejectInbound, Goto, Drop
<1>34. ASSUME NEW a \in Acceptors, TakeInbound(a) PROVE BooksInv'
  <2>1. SUFFICES ASSUME NEW h \in Handlers, Live(h)', (blame[sock[h]] = {})'
                 PROVE  Covered(h)'
    BY <1>34
  <2>2. CASE h = a
    BY <2>1, <2>2, <1>34 DEF TakeInbound, Goto
  <2>3. CASE h # a
    <3>1. Live(h) /\ h \in Others(a)
      BY <2>1, <2>3, <1>34 DEF TakeInbound, Goto, Others
    <3>2. "shared" \in blame'[sock[h]]
      BY <2>3, <3>1, <1>34 DEF TakeInbound, TakeConn
    <3>. QED
      BY <2>1, <3>2, <1>34 DEF TakeInbound
  <2>. QED
    BY <2>2, <2>3
<1>35. ASSUME NEW a \in Acceptors, SendOpenAndKeepalive(a) PROVE BooksInv'
    BY <1>35 DEF SendOpenAndKeepalive, Goto
<1>36. ASSUME NEW a \in Acceptors, RecordCapabilities(a) PROVE BooksInv'
    BY <1>36 DEF RecordCapabilities, Goto
<1>37. ASSUME NEW c \in Conn, RouterLeaves(c) PROVE BooksInv'
  <2>1. SUFFICES ASSUME NEW h \in Handlers, Live(h)', (blame[sock[h]] = {})'
                 PROVE  Covered(h)'
    BY <1>37
  <2>2. Live(h) /\ table'[sock[h]] = table[sock[h]]
    BY <2>1, <1>37 DEF RouterLeaves, Drop
  <2>. QED
    BY <2>1, <2>2, <1>37 DEF RouterLeaves
<1>. QED
    BY <1>1, <1>2, <1>3, <1>4, <1>5, <1>6, <1>7, <1>8, <1>9, <1>10, <1>11,
       <1>12, <1>13, <1>14, <1>15, <1>16, <1>17, <1>18, <1>19, <1>20,
       <1>21, <1>22, <1>23, <1>24, <1>25, <1>26, <1>27, <1>28, <1>29,
       <1>30, <1>31, <1>32, <1>33, <1>34, <1>35, <1>36, <1>37
    DEF Next, Resync, Manager, Session, Dial, Accept

\* What is sent is the plan for the desired routes, or another resync is owed.
LEMMA PlanStep == IInv /\ Next => PlanInv'
<1> SUFFICES ASSUME IInv, Next PROVE PlanInv'
    OBVIOUS
<1> USE SetsAssumption DEF IInv, peerVars, remote, TypeOK, PcInv, CallInv,
        SockInv, NameInv, ShareInv,
        PlanInv, Planned, Alone, Accounted, Live, Stage, Owed, Plan,
        Held, Tables, EmptyTable, Prefix, Handlers, Threads, Active, NoResync,
        Resyncs, DialerPcs, AcceptorPcs, SessionPcs
<1>1. CASE WriteChunk
    BY <1>1 DEF WriteChunk, Applied, Remaining
<1>2. CASE GroupRoutes
  <2>1. PICK plan \in SUBSET Prefix : plan = Plan(resync.want)
    OBVIOUS
  <2>2. /\ resync \in Resyncs /\ resync # NoResync /\ ~Stage("announce")
        /\ resync' = [resync EXCEPT !.stage = "announce", !.todo = plan, !.sent = plan]
    BY <2>1, <1>2 DEF GroupRoutes
  <2>3. resync.by \in Threads /\ resync.by # NoConn
    BY <2>2
  <2>4. /\ resync'.want = resync.want /\ resync'.by = resync.by /\ resync'.sent = plan
    BY <2>2
  <2>5. \A r : Plan(r)' = Plan(r)
    BY <1>2 DEF GroupRoutes
  <2>6. ASSUME NEW h \in Handlers, Alone(h)' PROVE Planned(h)'
    <3>1. Alone(h) /\ UNCHANGED <<routes, mgr, needsUpdate>>
      BY <2>6, <1>2 DEF GroupRoutes
    <3>2. resync' # NoResync
      BY <2>3, <2>4
    <3>3. (Stage("announce") => resync.sent = Plan(resync.want))'
      BY <2>1, <2>4, <2>5
    <3>4. (resync.by = h /\ mgr.at = "idle" /\ ~needsUpdate => resync.want = routes)'
      BY <2>4, <3>1
    <3>. QED
      BY <3>2, <3>3, <3>4
  <2>. QED
    BY <2>3, <2>4, <2>6, <1>2 DEF GroupRoutes
<1>3. CASE FinishResync
  <2>1. /\ resync' = NoResync /\ lastSent' = resync.sent
        /\ UNCHANGED <<routes, needsUpdate, hasIPv6Cap, sock, tcp, blame>>
        /\ resync \in Resyncs /\ Stage("announce")
    BY <1>3 DEF FinishResync, NewLastSent
  <2>2. \A r : Plan(r)' = Plan(r)
    BY <2>1
  <2>3. \A h \in Handlers : pc'[h] = IF resync.by = h THEN "main" ELSE pc[h]
    BY <1>3 DEF FinishResync, Return
  <2>4. mgr' = IF resync.by = Mgr THEN [at |-> "idle", on |-> NoConn] ELSE mgr
    BY <1>3 DEF FinishResync, Return
  <2>5. (resync.by = Mgr => resync.want = routes)'
    BY <2>1
  <2>6. ASSUME NEW h \in Handlers, Alone(h)' PROVE Planned(h)'
    <3>1. Alone(h)
      BY <2>1, <2>3, <2>6
    <3>2. resync.sent = Plan(resync.want)
      BY <2>1, <3>1
    <3>3. ~Owed(h)' => resync.want = routes
      <4>1. CASE resync.by = Mgr
        BY <4>1
      <4>2. CASE resync.by = h
        BY <2>1, <2>4, <3>1, <4>2
      <4>3. CASE resync.by \in Handlers \ {h}
        BY <3>1, <4>3
      <4>. QED
        BY <2>1, <4>1, <4>2, <4>3
    <3>. QED
      BY <2>1, <2>2, <3>2, <3>3
  <2>. QED
    BY <2>5, <2>6
<1>4. CASE FailResync
  <2>1. /\ resync' = NoResync /\ needsUpdate' = TRUE
    BY <1>4 DEF FailResync, RearmUpdate
  <2>. QED
    BY <2>1
<1>5. CASE AnnounceRoutes
    BY <1>5 DEF AnnounceRoutes, SetRoutes
<1>6. CASE WithdrawRoutes
    BY <1>6 DEF WithdrawRoutes, SetRoutes
<1>7. CASE DeferRoutes
    BY <1>7 DEF DeferRoutes
<1>8. CASE SendRoutes
    BY <1>8 DEF SendRoutes, BeginResync, Withdrawals
<1>9. CASE TriggerUpdate
    BY <1>9 DEF TriggerUpdate
<1>10. CASE Stop
    BY <1>10 DEF Stop, Drop
<1>11. ASSUME NEW h \in Handlers, GiveUpHandshake(h) PROVE PlanInv'
    BY <1>11 DEF GiveUpHandshake, Goto
<1>12. ASSUME NEW h \in Handlers, Establish(h) PROVE PlanInv'
    BY <1>12 DEF Establish, Goto
<1>13. ASSUME NEW h \in Handlers, ResetSent(h) PROVE PlanInv'
    BY <1>13 DEF ResetSent, Goto
<1>14. ASSUME NEW h \in Handlers, SessionResync(h) PROVE PlanInv'
    BY <1>14 DEF SessionResync, BeginResync, Withdrawals
<1>15. ASSUME NEW h \in Handlers, MainLoop(h) PROVE PlanInv'
    BY <1>15 DEF MainLoop, Goto, LoopHead
<1>16. ASSUME NEW h \in Handlers, ReadKeepalive(h) PROVE PlanInv'
    BY <1>16 DEF ReadKeepalive, Goto
<1>17. ASSUME NEW h \in Handlers, ReadRouteRefresh(h) PROVE PlanInv'
    BY <1>17 DEF ReadRouteRefresh, Goto
<1>18. ASSUME NEW h \in Handlers, ReadNotification(h) PROVE PlanInv'
    BY <1>18 DEF ReadNotification, Goto
<1>19. ASSUME NEW h \in Handlers, HoldTimerExpires(h) PROVE PlanInv'
    BY <1>19 DEF HoldTimerExpires, Goto
<1>20. ASSUME NEW h \in Handlers, ReadError(h) PROVE PlanInv'
    BY <1>20 DEF ReadError, Goto
<1>21. ASSUME NEW h \in Handlers, KeepaliveTorn(h) PROVE PlanInv'
    BY <1>21 DEF KeepaliveTorn, Drop, Serving
<1>22. ASSUME NEW h \in Handlers, EndSession(h) PROVE PlanInv'
    BY <1>22 DEF EndSession, Goto
<1>23. ASSUME NEW h \in Handlers, CloseConn(h) PROVE PlanInv'
    BY <1>23 DEF CloseConn, Goto, Drop, ConnAfterClose
<1>24. CASE StartAttempt
    BY <1>24 DEF StartAttempt, Goto, DialerIs, Attempt, Park
<1>25. CASE WakeParked
    BY <1>25 DEF WakeParked, Goto, DialerIs
<1>26. CASE WakeBackoff
    BY <1>26 DEF WakeBackoff, Goto, DialerIs
<1>27. CASE DialFails
    BY <1>27 DEF DialFails, Goto, DialerIs
<1>28. CASE DialSucceeds
    BY <1>28 DEF DialSucceeds, Goto, DialerIs, NewConnection, TakeConn, Others
<1>29. CASE SendOpen
    BY <1>29 DEF SendOpen, Goto, DialerIs
<1>30. CASE ReadOpen
    BY <1>30 DEF ReadOpen, Goto, DialerIs, NegotiatedHold
<1>31. ASSUME NEW a \in Acceptors, LookUpPeer(a) PROVE PlanInv'
    BY <1>31 DEF LookUpPeer, Goto, NewConnection
<1>32. ASSUME NEW a \in Acceptors, AdmitInbound(a) PROVE PlanInv'
    BY <1>32 DEF AdmitInbound, Goto
<1>33. ASSUME NEW a \in Acceptors, RejectInbound(a) PROVE PlanInv'
    BY <1>33 DEF RejectInbound, Goto, Drop
<1>34. ASSUME NEW a \in Acceptors, TakeInbound(a) PROVE PlanInv'
    BY <1>34 DEF TakeInbound, Goto, TakeConn, Others, NegotiatedHold
<1>35. ASSUME NEW a \in Acceptors, SendOpenAndKeepalive(a) PROVE PlanInv'
    BY <1>35 DEF SendOpenAndKeepalive, Goto
<1>36. ASSUME NEW a \in Acceptors, RecordCapabilities(a) PROVE PlanInv'
    BY <1>36 DEF RecordCapabilities, Goto
<1>37. ASSUME NEW c \in Conn, RouterLeaves(c) PROVE PlanInv'
    BY <1>37 DEF RouterLeaves, Drop
<1>. QED
    BY <1>1, <1>2, <1>3, <1>4, <1>5, <1>6, <1>7, <1>8, <1>9, <1>10, <1>11,
       <1>12, <1>13, <1>14, <1>15, <1>16, <1>17, <1>18, <1>19, <1>20,
       <1>21, <1>22, <1>23, <1>24, <1>25, <1>26, <1>27, <1>28, <1>29,
       <1>30, <1>31, <1>32, <1>33, <1>34, <1>35, <1>36, <1>37
    DEF Next, Resync, Manager, Session, Dial, Accept

\* What has been announced is in the router's table.
LEMMA SyncStep == IInv /\ Next => SyncInv'
<1> SUFFICES ASSUME IInv, Next PROVE SyncInv'
    OBVIOUS
<1> USE SetsAssumption DEF IInv, peerVars, remote, TypeOK, PcInv, CallInv,
        SockInv, NameInv, ShareInv,
        PlanInv, SyncInv, Planned, Synced, Alone, InSync, Accounted, Live,
        Stage, Owed, Plan, Table,
        Held, Tables, EmptyTable, Prefix, Handlers, Threads, Active, NoResync,
        Resyncs, DialerPcs, AcceptorPcs, SessionPcs
<1>1. CASE WriteChunk
    BY <1>1 DEF WriteChunk, Applied, Remaining
<1>2. CASE GroupRoutes
    BY <1>2 DEF GroupRoutes, Plan
<1>3. CASE FinishResync
    BY <1>3 DEF FinishResync, Return, NewLastSent
<1>4. CASE FailResync
    BY <1>4 DEF FailResync, Return, RearmUpdate, Drop
<1>5. CASE AnnounceRoutes
    BY <1>5 DEF AnnounceRoutes, SetRoutes
<1>6. CASE WithdrawRoutes
    BY <1>6 DEF WithdrawRoutes, SetRoutes
<1>7. CASE DeferRoutes
    BY <1>7 DEF DeferRoutes
<1>8. CASE SendRoutes
    BY <1>8 DEF SendRoutes, BeginResync, Withdrawals
<1>9. CASE TriggerUpdate
    BY <1>9 DEF TriggerUpdate
<1>10. CASE Stop
    BY <1>10 DEF Stop, Drop
<1>11. ASSUME NEW h \in Handlers, GiveUpHandshake(h) PROVE SyncInv'
    BY <1>11 DEF GiveUpHandshake, Goto
<1>12. ASSUME NEW h \in Handlers, Establish(h) PROVE SyncInv'
    BY <1>12 DEF Establish, Goto
<1>13. ASSUME NEW h \in Handlers, ResetSent(h) PROVE SyncInv'
    BY <1>13 DEF ResetSent, Goto
<1>14. ASSUME NEW h \in Handlers, SessionResync(h) PROVE SyncInv'
    BY <1>14 DEF SessionResync, BeginResync, Withdrawals
<1>15. ASSUME NEW h \in Handlers, MainLoop(h) PROVE SyncInv'
    BY <1>15 DEF MainLoop, Goto, LoopHead
<1>16. ASSUME NEW h \in Handlers, ReadKeepalive(h) PROVE SyncInv'
    BY <1>16 DEF ReadKeepalive, Goto
<1>17. ASSUME NEW h \in Handlers, ReadRouteRefresh(h) PROVE SyncInv'
    BY <1>17 DEF ReadRouteRefresh, Goto
<1>18. ASSUME NEW h \in Handlers, ReadNotification(h) PROVE SyncInv'
    BY <1>18 DEF ReadNotification, Goto
<1>19. ASSUME NEW h \in Handlers, HoldTimerExpires(h) PROVE SyncInv'
    BY <1>19 DEF HoldTimerExpires, Goto
<1>20. ASSUME NEW h \in Handlers, ReadError(h) PROVE SyncInv'
    BY <1>20 DEF ReadError, Goto
<1>21. ASSUME NEW h \in Handlers, KeepaliveTorn(h) PROVE SyncInv'
    BY <1>21 DEF KeepaliveTorn, Drop, Serving
<1>22. ASSUME NEW h \in Handlers, EndSession(h) PROVE SyncInv'
    BY <1>22 DEF EndSession, Goto
<1>23. ASSUME NEW h \in Handlers, CloseConn(h) PROVE SyncInv'
    BY <1>23 DEF CloseConn, Goto, Drop, ConnAfterClose
<1>24. CASE StartAttempt
    BY <1>24 DEF StartAttempt, Goto, DialerIs, Attempt, Park
<1>25. CASE WakeParked
    BY <1>25 DEF WakeParked, Goto, DialerIs
<1>26. CASE WakeBackoff
    BY <1>26 DEF WakeBackoff, Goto, DialerIs
<1>27. CASE DialFails
    BY <1>27 DEF DialFails, Goto, DialerIs
<1>28. CASE DialSucceeds
    BY <1>28 DEF DialSucceeds, Goto, DialerIs, NewConnection, TakeConn, Others
<1>29. CASE SendOpen
    BY <1>29 DEF SendOpen, Goto, DialerIs
<1>30. CASE ReadOpen
    BY <1>30 DEF ReadOpen, Goto, DialerIs, NegotiatedHold
<1>31. ASSUME NEW a \in Acceptors, LookUpPeer(a) PROVE SyncInv'
    BY <1>31 DEF LookUpPeer, Goto, NewConnection
<1>32. ASSUME NEW a \in Acceptors, AdmitInbound(a) PROVE SyncInv'
    BY <1>32 DEF AdmitInbound, Goto
<1>33. ASSUME NEW a \in Acceptors, RejectInbound(a) PROVE SyncInv'
    BY <1>33 DEF RejectInbound, Goto, Drop
<1>34. ASSUME NEW a \in Acceptors, TakeInbound(a) PROVE SyncInv'
    BY <1>34 DEF TakeInbound, Goto, TakeConn, Others, NegotiatedHold
<1>35. ASSUME NEW a \in Acceptors, SendOpenAndKeepalive(a) PROVE SyncInv'
    BY <1>35 DEF SendOpenAndKeepalive, Goto
<1>36. ASSUME NEW a \in Acceptors, RecordCapabilities(a) PROVE SyncInv'
    BY <1>36 DEF RecordCapabilities, Goto
<1>37. ASSUME NEW c \in Conn, RouterLeaves(c) PROVE SyncInv'
    BY <1>37 DEF RouterLeaves, Drop
<1>. QED
    BY <1>1, <1>2, <1>3, <1>4, <1>5, <1>6, <1>7, <1>8, <1>9, <1>10, <1>11,
       <1>12, <1>13, <1>14, <1>15, <1>16, <1>17, <1>18, <1>19, <1>20,
       <1>21, <1>22, <1>23, <1>24, <1>25, <1>26, <1>27, <1>28, <1>29,
       <1>30, <1>31, <1>32, <1>33, <1>34, <1>35, <1>36, <1>37
    DEF Next, Resync, Manager, Session, Dial, Accept

----------------------------------------------------------------------------
\* A freshly made peer satisfies the invariant.
LEMMA InitOK == Init => IInv
<1> SUFFICES ASSUME Init PROVE IInv
    OBVIOUS
<1> USE SetsAssumption, EmptyTableType
    DEF Init, Handlers, Threads, NoResync, InitialPc, Active, SessionPcs
<1>1. TypeOK
    BY DEF TypeOK, States, TcpStates, Causes, DialerPcs, AcceptorPcs
<1>2. PcInv
    BY DEF PcInv, DialerPcs, AcceptorPcs
<1>3. SockInv /\ TableInv /\ NameInv /\ ShareInv /\ EarlyInv
    BY DEF SockInv, TableInv, NameInv, ConnIsServed, ShareInv, EarlyInv, InUse
<1>4. CallInv
    BY DEF CallInv, Stage
<1>5. BooksInv /\ PlanInv /\ SyncInv
    BY DEF BooksInv, PlanInv, SyncInv, Alone, Live
<1>. QED
    BY <1>1, <1>2, <1>3, <1>4, <1>5 DEF IInv

\* Nothing the invariant speaks of changes in a stuttering step.
LEMMA StutterOK == IInv /\ UNCHANGED vars => IInv'
<1> SUFFICES ASSUME IInv, UNCHANGED vars PROVE IInv'
    OBVIOUS
<1> USE DEF vars, peerVars, remote
<1>1. (TypeOK /\ PcInv /\ CallInv)'
    BY DEF IInv, TypeOK, PcInv, CallInv, Active, Stage
<1>2. (SockInv /\ TableInv /\ NameInv /\ ShareInv /\ EarlyInv)'
    BY DEF IInv, SockInv, TableInv, NameInv, ConnIsServed, ShareInv, EarlyInv,
           InUse, Active, BeforeReset
<1>3. (BooksInv /\ PlanInv /\ SyncInv)'
    BY DEF IInv, BooksInv, PlanInv, SyncInv, Covered, Planned, Synced, Alone,
           Live, Active, Accounted, BeforeReset, Owed, Plan, InSync, Table, Stage
<1>. QED
    BY <1>1, <1>2, <1>3 DEF IInv

THEOREM Invariance == Spec => []IInv
<1>1. IInv /\ [Next]_vars => IInv'
    BY TypeStep, PcStep, CallStep, SockStep, TableStep, NameStep, ShareStep,
       EarlyStep, BooksStep, PlanStep, SyncStep, StutterOK DEF IInv
<1>. QED
    BY InitOK, <1>1, PTL DEF Spec

----------------------------------------------------------------------------
\* The variables of the peer keep their types.
THEOREM TypeCorrect == Spec => []TypeOK
<1>1. IInv => TypeOK
    BY DEF IInv
<1>. QED
    BY Invariance, <1>1, PTL

\* p.conn never names a connection whose handler is gone, although every
\* closing handler sets it to nil whoever it belongs to.
THEOREM ConnServed == Spec => []ConnIsServed
<1>1. IInv => ConnIsServed
    BY DEF IInv, NameInv
<1>. QED
    BY Invariance, <1>1, PTL

\* lastSent never forgets a route that a router holds, unless a resync ran
\* before resetSent, failed and left the connection open, or two sessions met.
THEOREM HeldRemembered == Spec => []HeldIsRemembered
<1>1. IInv => HeldIsRemembered
  <2> SUFFICES ASSUME IInv, NEW h \in Handlers, Accounted(h),
                      tcp[sock[h]] = "up", resync = NoResync,
                      blame[sock[h]] = {}
               PROVE  Held(Table(h)) \subseteq lastSent
    BY DEF HeldIsRemembered
  <2>1. Live(h)
    BY DEF Live, Active, Accounted, SessionPcs
  <2>2. Covered(h)
    BY <2>1 DEF IInv, BooksInv
  <2>. QED
    BY <2>2 DEF Covered, Stage
<1>. QED
    BY Invariance, <1>1, PTL

\* A settled session is alone, owes nothing and is accounted for.
LEMMA SettledAlone ==
    ASSUME IInv, NEW h \in Handlers, Settled(h), "shared" \notin blame[sock[h]]
    PROVE  Alone(h) /\ ~Owed(h) /\ resync = NoResync
    BY DEF Settled, Alone, Live, Active, Accounted, SessionPcs, Owed

\* When a session has settled its router misses no desired route: failed
\* sends and the manager's own resyncs never lose one, unless sessions met.
THEOREM Complete == Spec => []NothingMissing
<1>1. IInv => NothingMissing
  <2> SUFFICES ASSUME IInv, NEW h \in Handlers, Settled(h),
                      "shared" \notin blame[sock[h]]
               PROVE  \A p \in Plan(routes) : Table(h)[p] = routes[p]
    BY DEF NothingMissing
  <2>. QED
    BY SettledAlone DEF IInv, SyncInv, Synced, InSync
<1>. QED
    BY Invariance, <1>1, PTL

\* ... and an unblamed one holds no route that is no longer desired.
THEOREM Exact == Spec => []NothingStale
<1>1. IInv => NothingStale
  <2> SUFFICES ASSUME IInv, NEW h \in Handlers, Settled(h), blame[sock[h]] = {}
               PROVE  Held(Table(h)) \subseteq Plan(routes)
    BY DEF NothingStale
  <2>1. Alone(h) /\ ~Owed(h) /\ resync = NoResync
    BY SettledAlone
  <2>2. lastSent = Plan(routes)
    BY <2>1 DEF IInv, PlanInv, Planned
  <2>3. Held(Table(h)) \subseteq lastSent
    BY <2>1 DEF IInv, BooksInv, Covered, Alone, Stage
  <2>. QED
    BY <2>2, <2>3
<1>. QED
    BY Invariance, <1>1, PTL

\* The two together, for resyncRoutes and mainLoop: a settled session's router
\* has exactly the desired routes it can take.
THEOREM SettledExactly == Spec => []SettledIsExact
<1>1. NothingMissing /\ NothingStale => SettledIsExact
  BY DEF SettledIsExact
<1>. QED
  BY Complete, Exact, <1>1, PTL

\* Withdrawals come before announcements, yet a route that is wanted is never
\* taken from a router whose connection lasts: only what a resync's own copy
\* of the desired set lacks is withdrawn.
THEOREM Flapless == Spec => NoFlap
<1> DEFINE Kept == \A c \in Conn, p \in Prefix :
              tcp'[c] = "up" /\ table[c][p] # NoRoute /\ table'[c][p] = NoRoute
                  => resync.want[p] = NoRoute
<1>1. IInv /\ [Next]_vars => Kept
  <2> SUFFICES ASSUME IInv, [Next]_vars PROVE Kept
    OBVIOUS
  <2> USE DEF IInv, TypeOK, CallInv, remote
  <2>1. CASE WriteChunk
    <3>1. PICK chunk \in SUBSET resync.todo :
            table' = IF tcp[resync.on] = "up"
                     THEN [table EXCEPT ![resync.on] = Applied(chunk)]
                     ELSE table
      BY <2>1 DEF WriteChunk
    <3>2. resync # NoResync /\ resync \in Resyncs
      BY <2>1 DEF WriteChunk
    <3>3. CASE resync.stage = "withdraw"
      BY <3>1, <3>2, <3>3 DEF Stage, Applied, Held, Resyncs, Tables
    <3>4. CASE resync.stage = "announce"
      BY <3>1, <3>2, <3>4 DEF Applied, Resyncs, Tables
    <3>. QED
      BY <3>2, <3>3, <3>4 DEF Resyncs
  <2>2. CASE Next /\ ~WriteChunk
    <3> DEFINE Quiet == \A c \in Conn : table'[c] = table[c] \/ tcp'[c] # "up"
    <3>1. ASSUME GroupRoutes \/ FinishResync \/ FailResync PROVE Quiet
      BY <3>1 DEF GroupRoutes, FinishResync, FailResync, Drop
    <3>2. ASSUME Manager PROVE Quiet
      BY <3>2 DEF Manager, AnnounceRoutes, WithdrawRoutes, SetRoutes,
         DeferRoutes, SendRoutes, TriggerUpdate, Stop, Drop
    <3>3. ASSUME NEW h \in Handlers, Session(h) PROVE Quiet
      <4>1. GiveUpHandshake(h) \/ Establish(h) \/ ResetSent(h) \/ SessionResync(h)
              \/ MainLoop(h) => Quiet
        BY DEF GiveUpHandshake, Establish, ResetSent, SessionResync, MainLoop, Drop
      <4>2. ReadKeepalive(h) \/ ReadRouteRefresh(h) \/ ReadNotification(h) => Quiet
        BY DEF ReadKeepalive, ReadRouteRefresh, ReadNotification, Drop
      <4>3. HoldTimerExpires(h) \/ ReadError(h) \/ KeepaliveTorn(h)
              \/ EndSession(h) \/ CloseConn(h) => Quiet
        BY DEF HoldTimerExpires, ReadError, KeepaliveTorn, EndSession,
           CloseConn, Drop
      <4> HIDE DEF Quiet
      <4>. QED
        BY <3>3, <4>1, <4>2, <4>3 DEF Session
    <3>4. ASSUME Dial PROVE Quiet
      BY <3>4 DEF Dial, StartAttempt, WakeParked, WakeBackoff, DialFails,
         DialSucceeds, NewConnection, SendOpen, ReadOpen
    <3>5. ASSUME NEW a \in Acceptors, Accept(a) PROVE Quiet
      BY <3>5 DEF Accept, LookUpPeer, AdmitInbound, RejectInbound, TakeInbound,
         NewConnection, SendOpenAndKeepalive, RecordCapabilities, Drop
    <3>6. ASSUME NEW c \in Conn, RouterLeaves(c) PROVE Quiet
      BY <3>6 DEF RouterLeaves, Drop
    <3> HIDE DEF Quiet
    <3>7. Quiet
      BY <2>2, <3>1, <3>2, <3>3, <3>4, <3>5, <3>6 DEF Next, Resync
    <3>. QED
      BY <3>7 DEF Quiet
  <2>3. CASE UNCHANGED vars
    BY <2>3 DEF vars
  <2>. QED
    BY <2>1, <2>2, <2>3
<1>2. Spec => [][Kept]_vars
    BY Invariance, <1>1, PTL DEF Spec
<1>. QED
    BY <1>2, PTL DEF NoFlap

=============================================================================
