---------------------------- MODULE SocketsProofs ----------------------------
(***************************************************************************)
(* Structures and descriptors of the socket plugin, for any number of      *)
(* sockets, descriptors, calls and launches: neither thread reaches a      *)
(* structure that is deleted, and no socket keeps a descriptor that it has *)
(* given up or that another has got.                                       *)
(***************************************************************************)
EXTENDS Sockets, FiniteSetTheorems, WellFoundedInduction, TLAPS

IoRests == {"begin", "stopped"}
IoOnSocket == {"getError", "answer", "tellConn", "read", "peek", "peeked",
               "tellEnd", "tellRead", "write", "tellWrite", "mark"}

\* Where a structure is: known to the I/O thread, waiting to be deleted, or
\* deleted; numbers are given out in order.
ListInv ==
    /\ gActiveSockets \intersect (gDeleteQueue \union deleted) = {}
    /\ gDeleteQueue \intersect deleted = {}
    /\ created = gActiveSockets \union gDeleteQueue \union deleted
    /\ \E n \in 0..MaxSockets : created = 1..n

\* A handle of this session leads to a listed structure, also half way through
\* primitiveSocketDestroy; handles of other sessions are older.
HandleInv ==
    /\ handle \in [Socket -> 0..MaxSessions]
    /\ gSessionID \in 1..MaxSessions
    /\ ~gIORunning => ~gInterpreter
    /\ ~gInterpreter => gSessionID < MaxSessions /\ destroying = NoSocket
    /\ destroying # NoSocket => destroying \in gActiveSockets
    /\ \A s \in Socket : /\ handle[s] <= gSessionID
                         /\ Valid(s) => s \in gActiveSockets /\ s # destroying

\* Only the I/O thread deletes while it runs, and only between its rounds.
RoundInv ==
    /\ io \in IoRests \union IoOnSocket \union {"watch", "scan"}
    /\ io \in IoRests => snapshot = {}
    /\ io = "stopped" => ~gIORunning
    /\ snapshot \subseteq created /\ snapshot \intersect deleted = {}
    /\ todo \subseteq snapshot
    /\ current # NoSocket => current \in snapshot
    /\ io \in IoOnSocket => current \in snapshot

DescriptorInv ==
    /\ fd \in [Socket -> Fd \union {NoFd}]
    /\ link \in [Fd -> Link]
    /\ \A s \in Socket : fd[s] # NoFd =>
          /\ link[fd[s]] # "closed"
          /\ s \in created
          /\ \A t \in Socket \ {s} : fd[t] # fd[s]

ValuesInv ==
    /\ sockState \in [Socket -> SocketState]
    /\ sockError \in [Socket -> BOOLEAN] /\ writeSignaled \in [Socket -> BOOLEAN]
    /\ eofDetected \in [Socket -> BOOLEAN]
    /\ data \in [Fd -> 0..MaxData] /\ full \in [Fd -> BOOLEAN]
    /\ signalled \in [Socket -> SUBSET Semaphore]
    /\ waits \in [Socket -> Semaphore \union {"nothing"}]

IInv == ListInv /\ HandleInv /\ RoundInv /\ DescriptorInv /\ ValuesInv

-----------------------------------------------------------------------------
(* The least of a set of numbers *)

LEMMA LeastExists ==
    ASSUME NEW S, S \subseteq Nat, S # {}
    PROVE  \E s \in S : \A t \in S : s <= t
<1>1. PICK s \in S : \A t \in S : ~(<<t, s>> \in OpToRel(<, Nat))
  BY NatLessThanWellFounded, WFMin
<1>2. \A t \in S : ~(t < s)
  BY <1>1 DEF OpToRel
<1> QED
  BY <1>2

LEMMA FirstIn ==
    ASSUME NEW S, S \subseteq Nat, S # {}
    PROVE  First(S) \in S
BY LeastExists DEF First

LEMMA LowestFdIsFree ==
    ASSUME FreeFds # {}
    PROVE  LowestFd \in Fd /\ link[LowestFd] = "closed" /\ LowestFd # NoFd
<1>1. FreeFds \subseteq Nat
  BY SocketAssumption DEF FreeFds
<1>2. LowestFd \in FreeFds
  BY <1>1, LeastExists DEF LowestFd
<1> QED
  BY <1>1, <1>2 DEF FreeFds, NoFd

LEMMA NextNumber ==
    ASSUME ListInv, NEW s \in Socket, s = Cardinality(created) + 1
    PROVE  s \notin created /\ s # NoSocket /\ \E n \in 0..MaxSockets : created \union {s} = 1..n
<1>1. PICK n \in 0..MaxSockets : created = 1..n
  BY DEF ListInv
<1>2. MaxSockets \in Nat
  BY SocketAssumption
<1>3. Cardinality(created) = n
  BY <1>1, <1>2, FS_Interval
<1>4. s = n + 1 /\ s <= MaxSockets
  BY <1>2, <1>3 DEF Socket
<1>5. created \union {s} = 1..(n + 1)
  BY <1>1, <1>2, <1>4
<1> QED
  BY <1>1, <1>2, <1>4, <1>5 DEF NoSocket

-----------------------------------------------------------------------------
(* The lists, the handles and the rounds of the I/O thread *)

LEMMA ListsPreserved ==
    ASSUME ListInv, HandleInv, RoundInv, [Next]_vars
    PROVE  ListInv'
<1> USE DEF ListInv, lists
<1>1. CASE UNCHANGED vars
  BY <1>1 DEF vars
<1>2. ASSUME NEW s \in Socket, PrimitiveSocketCreate3Semaphores(s) PROVE ListInv'
  <2>1. s = Cardinality(created) + 1 /\ created' = created \union {s}
        /\ gActiveSockets' = gActiveSockets \union {s}
        /\ UNCHANGED <<gDeleteQueue, deleted>>
    BY <1>2 DEF PrimitiveSocketCreate3Semaphores, NewSocket
  <2>2. s \notin created /\ \E n \in 0..MaxSockets : created \union {s} = 1..n
    BY <2>1, NextNumber
  <2>3. /\ gActiveSockets' \intersect (gDeleteQueue' \union deleted') = {}
        /\ gDeleteQueue' \intersect deleted' = {}
    BY <2>1, <2>2
  <2>4. created' = gActiveSockets' \union gDeleteQueue' \union deleted'
    BY <2>1
  <2> QED
    BY <2>1, <2>2, <2>3, <2>4
<1>3. ASSUME NEW s \in Socket, PrimitiveSocketDestroy(s) PROVE ListInv'
  BY <1>3 DEF PrimitiveSocketDestroy
<1>4. ASSUME NEW s \in Socket, PrimitiveSocketConnectToPort(s) PROVE ListInv'
  BY <1>4 DEF PrimitiveSocketConnectToPort
<1>5. ASSUME NEW s \in Socket, PrimitiveSocketCloseConnection(s) PROVE ListInv'
  BY <1>5 DEF PrimitiveSocketCloseConnection
<1>6. ASSUME NEW s \in Socket, PrimitiveSocketAbortConnection(s) PROVE ListInv'
  BY <1>6 DEF PrimitiveSocketAbortConnection
<1>7. ASSUME NEW s \in Socket, PrimitiveSocketSendDataBufCount(s) PROVE ListInv'
  BY <1>7 DEF PrimitiveSocketSendDataBufCount, Transfers
<1>8. ASSUME NEW s \in Socket, PrimitiveSocketReceiveDataBufCount(s) PROVE ListInv'
  BY <1>8 DEF PrimitiveSocketReceiveDataBufCount, Transfers
<1>9. ASSUME NEW s \in Socket, PrimitiveSocketListenOnPortBacklog(s) PROVE ListInv'
  BY <1>9 DEF PrimitiveSocketListenOnPortBacklog
<1>10. ASSUME NEW s \in Socket, NEW t \in Socket, PrimitiveSocketAccept3Semaphores(t, s)
       PROVE  ListInv'
  <2>1. s = Cardinality(created) + 1 /\ created' = created \union {s}
        /\ gActiveSockets' = gActiveSockets \union {s}
        /\ UNCHANGED <<gDeleteQueue, deleted>>
    BY <1>10 DEF PrimitiveSocketAccept3Semaphores, NewSocket
  <2>2. s \notin created /\ \E n \in 0..MaxSockets : created \union {s} = 1..n
    BY <2>1, NextNumber
  <2>3. /\ gActiveSockets' \intersect (gDeleteQueue' \union deleted') = {}
        /\ gDeleteQueue' \intersect deleted' = {}
    BY <2>1, <2>2
  <2>4. created' = gActiveSockets' \union gDeleteQueue' \union deleted'
    BY <2>1
  <2> QED
    BY <2>1, <2>2, <2>3, <2>4
<1>11. ASSUME NEW s \in Socket, AwaitConnection(s) PROVE ListInv'
  BY <1>11 DEF AwaitConnection
<1>12. ASSUME NEW s \in Socket, Wake(s) PROVE ListInv'
  BY <1>12 DEF Wake
<1>13. ASSUME NEW f \in Fd, Network(f) PROVE ListInv'
  BY <1>13 DEF Network
<1>14. CASE UnlistDestroyed
  BY <1>14 DEF UnlistDestroyed, HandleInv
<1>15. CASE DeleteInterpreter
  BY <1>15 DEF DeleteInterpreter
<1>16. CASE StopIoThread
  BY <1>16 DEF StopIoThread
<1>17. CASE Relaunch
  BY <1>17 DEF Relaunch, AllClosed, Delete
<1>18. CASE IoBegin
  BY <1>18 DEF IoBegin, Delete
<1>19. CASE IoWatch
  BY <1>19 DEF IoWatch
<1>20. CASE IoSelect
  BY <1>20 DEF IoSelect
<1>21. CASE IoScan
  BY <1>21 DEF IoScan
<1>22. CASE IoScanned
  BY <1>22 DEF IoScanned
<1>23. CASE IoGetError
  BY <1>23 DEF IoGetError, Step
<1>24. CASE IoAnswer
  BY <1>24 DEF IoAnswer, Step
<1>25. CASE IoTellConn
  BY <1>25 DEF IoTellConn, Step
<1>26. CASE IoRead
  BY <1>26 DEF IoRead, Step
<1>27. CASE IoPeek
  BY <1>27 DEF IoPeek, Step
<1>28. CASE IoPeeked
  BY <1>28 DEF IoPeeked, Step
<1>29. CASE IoTellRead
  BY <1>29 DEF IoTellRead, Step
<1>30. CASE IoWrite
  BY <1>30 DEF IoWrite, Step
<1>31. CASE IoMark
  BY <1>31 DEF IoMark, Step
<1>32. CASE IoTellEnd
  BY <1>32 DEF IoTellEnd, Step
<1>33. CASE IoTellWrite
  BY <1>33 DEF IoTellWrite, Step
<1> QED
  BY <1>1, <1>2, <1>3, <1>4, <1>5, <1>6, <1>7, <1>8, <1>9, <1>10, <1>11,
     <1>12, <1>13, <1>14, <1>15, <1>16, <1>17, <1>18, <1>19, <1>20, <1>21,
     <1>22, <1>23, <1>24, <1>25, <1>26, <1>27, <1>28, <1>29, <1>30, <1>31, <1>32, <1>33
     DEF Next, Primitive, IoMonitorLoop

LEMMA HandlesPreserved ==
    ASSUME ListInv, HandleInv, RoundInv, [Next]_vars
    PROVE  HandleInv'
<1> USE DEF HandleInv, Valid, lists, session
<1>1. CASE UNCHANGED vars
  BY <1>1 DEF vars
<1>2. ASSUME NEW s \in Socket, PrimitiveSocketCreate3Semaphores(s) PROVE HandleInv'
  BY <1>2, NextNumber DEF PrimitiveSocketCreate3Semaphores, NewSocket, Call, VMRuns
<1>3. ASSUME NEW s \in Socket, PrimitiveSocketDestroy(s) PROVE HandleInv'
  <2>1. /\ s \in gActiveSockets /\ handle' = [handle EXCEPT ![s] = 0] /\ destroying' = s
        /\ gInterpreter /\ UNCHANGED <<gActiveSockets, gSessionID, gIORunning, gInterpreter>>
    BY <1>3 DEF PrimitiveSocketDestroy, Call, VMRuns
  <2>2. gSessionID \in Nat /\ gSessionID # 0 /\ 0 \in 0..MaxSessions
    BY SocketAssumption
  <2>3. handle' \in [Socket -> 0..MaxSessions]
    BY <2>1, <2>2
  <2>4. ASSUME NEW t \in Socket
        PROVE  /\ handle'[t] <= gSessionID
               /\ handle'[t] = gSessionID => t \in gActiveSockets /\ t # s
    BY <2>1, <2>2
  <2> QED
    BY <2>1, <2>3, <2>4
<1>4. ASSUME NEW s \in Socket, PrimitiveSocketConnectToPort(s) PROVE HandleInv'
  BY <1>4 DEF PrimitiveSocketConnectToPort
<1>5. ASSUME NEW s \in Socket, PrimitiveSocketCloseConnection(s) PROVE HandleInv'
  BY <1>5 DEF PrimitiveSocketCloseConnection
<1>6. ASSUME NEW s \in Socket, PrimitiveSocketAbortConnection(s) PROVE HandleInv'
  BY <1>6 DEF PrimitiveSocketAbortConnection
<1>7. ASSUME NEW s \in Socket, PrimitiveSocketSendDataBufCount(s) PROVE HandleInv'
  BY <1>7 DEF PrimitiveSocketSendDataBufCount, Transfers
<1>8. ASSUME NEW s \in Socket, PrimitiveSocketReceiveDataBufCount(s) PROVE HandleInv'
  BY <1>8 DEF PrimitiveSocketReceiveDataBufCount, Transfers
<1>9. ASSUME NEW s \in Socket, PrimitiveSocketListenOnPortBacklog(s) PROVE HandleInv'
  BY <1>9 DEF PrimitiveSocketListenOnPortBacklog
<1>10. ASSUME NEW s \in Socket, NEW t \in Socket, PrimitiveSocketAccept3Semaphores(t, s)
       PROVE  HandleInv'
  BY <1>10, NextNumber DEF PrimitiveSocketAccept3Semaphores, NewSocket, Call, VMRuns
<1>11. ASSUME NEW s \in Socket, AwaitConnection(s) PROVE HandleInv'
  BY <1>11 DEF AwaitConnection
<1>12. ASSUME NEW s \in Socket, Wake(s) PROVE HandleInv'
  BY <1>12 DEF Wake
<1>13. ASSUME NEW f \in Fd, Network(f) PROVE HandleInv'
  BY <1>13 DEF Network
<1>14. CASE UnlistDestroyed
  BY <1>14 DEF UnlistDestroyed, Socket, NoSocket
<1>15. CASE DeleteInterpreter
  BY <1>15 DEF DeleteInterpreter, VMRuns
<1>16. CASE StopIoThread
  BY <1>16 DEF StopIoThread
<1>17. CASE Relaunch
  <2>1. /\ ~gInterpreter /\ gSessionID' = gSessionID + 1 /\ UNCHANGED handle
        /\ gIORunning' = TRUE /\ gInterpreter' = TRUE /\ destroying' = NoSocket
    BY <1>17 DEF Relaunch, AllClosed
  <2>2. MaxSessions \in Nat
    BY SocketAssumption
  <2>3. gSessionID' \in 1..MaxSessions
    BY <2>1, <2>2
  <2>4. ASSUME NEW s \in Socket PROVE handle[s] <= gSessionID + 1 /\ handle[s] # gSessionID + 1
    BY <2>2
  <2> QED
    BY <2>1, <2>3, <2>4
<1>18. CASE IoBegin
  BY <1>18 DEF IoBegin
<1>19. CASE IoWatch
  BY <1>19 DEF IoWatch
<1>20. CASE IoSelect
  BY <1>20 DEF IoSelect
<1>21. CASE IoScan
  BY <1>21 DEF IoScan
<1>22. CASE IoScanned
  BY <1>22 DEF IoScanned
<1>23. CASE IoGetError
  BY <1>23 DEF IoGetError, Step
<1>24. CASE IoAnswer
  BY <1>24 DEF IoAnswer, Step
<1>25. CASE IoTellConn
  BY <1>25 DEF IoTellConn, Step
<1>26. CASE IoRead
  BY <1>26 DEF IoRead, Step
<1>27. CASE IoPeek
  BY <1>27 DEF IoPeek, Step
<1>28. CASE IoPeeked
  BY <1>28 DEF IoPeeked, Step
<1>29. CASE IoTellRead
  BY <1>29 DEF IoTellRead, Step
<1>30. CASE IoWrite
  BY <1>30 DEF IoWrite, Step
<1>31. CASE IoMark
  BY <1>31 DEF IoMark, Step
<1>32. CASE IoTellEnd
  BY <1>32 DEF IoTellEnd, Step
<1>33. CASE IoTellWrite
  BY <1>33 DEF IoTellWrite, Step
<1> QED
  BY <1>1, <1>2, <1>3, <1>4, <1>5, <1>6, <1>7, <1>8, <1>9, <1>10, <1>11,
     <1>12, <1>13, <1>14, <1>15, <1>16, <1>17, <1>18, <1>19, <1>20, <1>21,
     <1>22, <1>23, <1>24, <1>25, <1>26, <1>27, <1>28, <1>29, <1>30, <1>31, <1>32, <1>33
     DEF Next, Primitive, IoMonitorLoop

LEMMA RoundsPreserved ==
    ASSUME ListInv, HandleInv, RoundInv, [Next]_vars
    PROVE  RoundInv'
<1> USE DEF RoundInv, IoRests, IoOnSocket, lists, session, ioVars
<1>1. CASE UNCHANGED vars
  BY <1>1 DEF vars
<1>2. ASSUME NEW s \in Socket, PrimitiveSocketCreate3Semaphores(s) PROVE RoundInv'
  BY <1>2 DEF PrimitiveSocketCreate3Semaphores, NewSocket
<1>3. ASSUME NEW s \in Socket, PrimitiveSocketDestroy(s) PROVE RoundInv'
  BY <1>3 DEF PrimitiveSocketDestroy
<1>4. ASSUME NEW s \in Socket, PrimitiveSocketConnectToPort(s) PROVE RoundInv'
  BY <1>4 DEF PrimitiveSocketConnectToPort
<1>5. ASSUME NEW s \in Socket, PrimitiveSocketCloseConnection(s) PROVE RoundInv'
  BY <1>5 DEF PrimitiveSocketCloseConnection
<1>6. ASSUME NEW s \in Socket, PrimitiveSocketAbortConnection(s) PROVE RoundInv'
  BY <1>6 DEF PrimitiveSocketAbortConnection
<1>7. ASSUME NEW s \in Socket, PrimitiveSocketSendDataBufCount(s) PROVE RoundInv'
  BY <1>7 DEF PrimitiveSocketSendDataBufCount, Transfers
<1>8. ASSUME NEW s \in Socket, PrimitiveSocketReceiveDataBufCount(s) PROVE RoundInv'
  BY <1>8 DEF PrimitiveSocketReceiveDataBufCount, Transfers
<1>9. ASSUME NEW s \in Socket, PrimitiveSocketListenOnPortBacklog(s) PROVE RoundInv'
  BY <1>9 DEF PrimitiveSocketListenOnPortBacklog
<1>10. ASSUME NEW s \in Socket, NEW t \in Socket, PrimitiveSocketAccept3Semaphores(t, s)
       PROVE  RoundInv'
  BY <1>10 DEF PrimitiveSocketAccept3Semaphores, NewSocket
<1>11. ASSUME NEW s \in Socket, AwaitConnection(s) PROVE RoundInv'
  BY <1>11 DEF AwaitConnection
<1>12. ASSUME NEW s \in Socket, Wake(s) PROVE RoundInv'
  BY <1>12 DEF Wake
<1>13. ASSUME NEW f \in Fd, Network(f) PROVE RoundInv'
  BY <1>13 DEF Network
<1>14. CASE UnlistDestroyed
  BY <1>14 DEF UnlistDestroyed
<1>15. CASE DeleteInterpreter
  BY <1>15 DEF DeleteInterpreter
<1>16. CASE StopIoThread
  BY <1>16 DEF StopIoThread
<1>17. CASE Relaunch
  BY <1>17 DEF Relaunch, AllClosed, NextRound, NoSocket
<1>18. CASE IoBegin
  BY <1>18 DEF IoBegin, Delete, ListInv
<1>19. CASE IoWatch
  BY <1>19 DEF IoWatch
<1>20. CASE IoSelect
  BY <1>20 DEF IoSelect, NextRound
<1>21. CASE IoScan
  <2>1. current' \in todo
    <3>1. todo \subseteq Nat
      BY SocketAssumption DEF ListInv
    <3> QED
      BY <1>21, <3>1, FirstIn DEF IoScan
  <2>2. io' \in {"scan", "getError", "read"}
    BY <1>21 DEF IoScan
  <2>3. todo' \subseteq todo /\ UNCHANGED <<snapshot, created, deleted>>
    BY <1>21 DEF IoScan
  <2> QED
    BY <2>1, <2>2, <2>3
<1>22. CASE IoScanned
  BY <1>22 DEF IoScanned, NextRound
<1>23. CASE IoGetError
  BY <1>23 DEF IoGetError, Step
<1>24. CASE IoAnswer
  BY <1>24 DEF IoAnswer, Step
<1>25. CASE IoTellConn
  BY <1>25 DEF IoTellConn, Step
<1>26. CASE IoRead
  BY <1>26 DEF IoRead, Step
<1>27. CASE IoPeek
  BY <1>27 DEF IoPeek, Step
<1>28. CASE IoPeeked
  BY <1>28 DEF IoPeeked, Step
<1>29. CASE IoTellRead
  BY <1>29 DEF IoTellRead, Step
<1>30. CASE IoWrite
  BY <1>30 DEF IoWrite, Step
<1>31. CASE IoMark
  BY <1>31 DEF IoMark, Step
<1>32. CASE IoTellEnd
  BY <1>32 DEF IoTellEnd, Step
<1>33. CASE IoTellWrite
  BY <1>33 DEF IoTellWrite, Step
<1> QED
  BY <1>1, <1>2, <1>3, <1>4, <1>5, <1>6, <1>7, <1>8, <1>9, <1>10, <1>11,
     <1>12, <1>13, <1>14, <1>15, <1>16, <1>17, <1>18, <1>19, <1>20, <1>21,
     <1>22, <1>23, <1>24, <1>25, <1>26, <1>27, <1>28, <1>29, <1>30, <1>31, <1>32, <1>33
     DEF Next, Primitive, IoMonitorLoop

-----------------------------------------------------------------------------
(* Descriptors *)

\* Taking a pending error opens and closes nothing.
LEMMA ErrorTakenKeeps ==
    ASSUME link \in [Fd -> Link], NEW f
    PROVE  /\ ErrorTaken(f) \in [Fd -> Link]
           /\ \A g \in Fd : ErrorTaken(f)[g] = "closed" <=> link[g] = "closed"
BY DEF ErrorTaken, Link

\* No descriptor is closed, or a socket gets one that no other has, or gives up
\* the one it closes.
LEMMA LinksChange ==
    ASSUME DescriptorInv, created \subseteq created', fd' = fd, link' \in [Fd -> Link],
           \A g \in Fd : link[g] # "closed" => link'[g] # "closed"
    PROVE  DescriptorInv'
BY DEF DescriptorInv

LEMMA SocketGetsFd ==
    ASSUME DescriptorInv, created \subseteq created', NEW s \in Socket, s \in created',
           NEW f \in Fd, NEW l \in Link, l # "closed",
           \A t \in Socket \ {s} : fd[t] # f,
           fd' = [fd EXCEPT ![s] = f],
           link' \in [Fd -> Link], link'[f] # "closed",
           \A g \in Fd \ {f, fd[s]} : link[g] # "closed" => link'[g] # "closed"
    PROVE  DescriptorInv'
BY DEF DescriptorInv

LEMMA SocketLosesFd ==
    ASSUME DescriptorInv, created \subseteq created', NEW s \in Socket, fd[s] # NoFd,
           fd' = [fd EXCEPT ![s] = NoFd],
           link' = [link EXCEPT ![fd[s]] = "closed"]
    PROVE  DescriptorInv'
BY DEF DescriptorInv, Link

LEMMA CreatedGrows ==
    ASSUME [Next]_vars
    PROVE  created \subseteq created'
BY DEF Next, vars, lists, Primitive, IoMonitorLoop, PrimitiveSocketCreate3Semaphores,
       PrimitiveSocketAccept3Semaphores, NewSocket, PrimitiveSocketDestroy,
       PrimitiveSocketConnectToPort, PrimitiveSocketCloseConnection,
       PrimitiveSocketAbortConnection, PrimitiveSocketSendDataBufCount,
       PrimitiveSocketReceiveDataBufCount, PrimitiveSocketListenOnPortBacklog,
       AwaitConnection, Wake, Network, UnlistDestroyed, DeleteInterpreter, StopIoThread,
       Relaunch, AllClosed, IoBegin, IoWatch, IoSelect, IoScan, IoScanned, Step, IoGetError,
       IoAnswer, IoTellConn, IoRead, IoPeek, IoPeeked, IoTellRead, IoWrite, IoMark,
       IoTellEnd, IoTellWrite

LEMMA DescriptorsPreserved ==
    ASSUME DescriptorInv, [Next]_vars
    PROVE  DescriptorInv'
<1> USE DEF fields, kernel
<1>a. /\ fd \in [Socket -> Fd \union {NoFd}] /\ link \in [Fd -> Link] /\ NoFd \notin Fd
      /\ \A s \in Socket : fd[s] \in Fd => link[fd[s]] # "closed"
  BY SocketAssumption DEF DescriptorInv, NoFd
<1>b. UNCHANGED <<fd, link>> => DescriptorInv'
  BY CreatedGrows DEF DescriptorInv
<1>c. created \subseteq created'
  BY CreatedGrows
<1>1. CASE UNCHANGED vars
  BY <1>1, <1>b DEF vars
<1>2. ASSUME NEW s \in Socket, PrimitiveSocketCreate3Semaphores(s) PROVE DescriptorInv'
  <2>1. FreeFds # {} /\ fd' = [fd EXCEPT ![s] = LowestFd] /\ s \in created'
    BY <1>2 DEF PrimitiveSocketCreate3Semaphores, NewSocket
  <2>2. LowestFd \in Fd /\ link[LowestFd] = "closed"
    BY <2>1, LowestFdIsFree
  <2>3. \A t \in Socket : fd[t] # LowestFd
    BY <2>2, <1>a
  <2>4. link' = [link EXCEPT ![LowestFd] = "idle"] /\ link' \in [Fd -> Link]
    BY <1>2, <2>2, <1>a DEF PrimitiveSocketCreate3Semaphores, Link
  <2> QED
    BY <2>1, <2>2, <2>3, <2>4, <1>c, SocketGetsFd DEF Link
<1>3. ASSUME NEW s \in Socket, PrimitiveSocketDestroy(s) PROVE DescriptorInv'
  BY <1>3, <1>a, <1>b, <1>c, SocketLosesFd DEF PrimitiveSocketDestroy, Open
<1>4. ASSUME NEW s \in Socket, PrimitiveSocketConnectToPort(s) PROVE DescriptorInv'
  <2>1. PICK f \in {fd[s]} \union (IF FreeFds = {} THEN {} ELSE {LowestFd}),
             l \in {"connecting", "up", "idle"} :
          /\ fd' = [fd EXCEPT ![s] = f]
          /\ link' = [link EXCEPT ![fd[s]] = "closed", ![f] = l]
    BY <1>4 DEF PrimitiveSocketConnectToPort
  <2>2. fd[s] \in Fd
    BY <1>4, <1>a DEF PrimitiveSocketConnectToPort, Open
  <2>5. s \in created'
    BY <2>2, <1>a, <1>c DEF DescriptorInv
  <2>3. f \in Fd /\ \A t \in Socket \ {s} : fd[t] # f
    <3>1. CASE f = fd[s]
      BY <3>1, <2>2, <1>a DEF DescriptorInv
    <3>2. CASE f # fd[s]
      <4>1. f \in Fd /\ link[f] = "closed"
        BY <3>2, LowestFdIsFree
      <4> QED
        BY <4>1, <1>a
    <3> QED
      BY <3>1, <3>2
  <2>4. /\ l \in Link /\ l # "closed" /\ link' \in [Fd -> Link] /\ link'[f] = l
        /\ \A g \in Fd \ {f, fd[s]} : link'[g] = link[g]
    BY <2>1, <2>2, <2>3, <1>a DEF Link
  <2> QED
    BY <2>1, <2>3, <2>4, <2>5, <1>c, SocketGetsFd
<1>5. ASSUME NEW s \in Socket, PrimitiveSocketCloseConnection(s) PROVE DescriptorInv'
  <2>1. fd' = fd /\ fd[s] \in Fd /\ link[fd[s]] # "closed"
    BY <1>5, <1>a DEF PrimitiveSocketCloseConnection, Open
  <2>2. link' = [link EXCEPT ![fd[s]] = IF link[fd[s]] = "idle" THEN link[fd[s]] ELSE "over"]
    BY <1>5 DEF PrimitiveSocketCloseConnection
  <2> QED
    BY <2>1, <2>2, <1>a, <1>c, LinksChange DEF Link
<1>6. ASSUME NEW s \in Socket, PrimitiveSocketAbortConnection(s) PROVE DescriptorInv'
  BY <1>6, <1>a, <1>b, <1>c, SocketLosesFd DEF PrimitiveSocketAbortConnection, Open
<1>7. ASSUME NEW s \in Socket, PrimitiveSocketSendDataBufCount(s) PROVE DescriptorInv'
  BY <1>7, <1>a, <1>b, ErrorTakenKeeps, <1>c, LinksChange DEF PrimitiveSocketSendDataBufCount
<1>8. ASSUME NEW s \in Socket, PrimitiveSocketReceiveDataBufCount(s) PROVE DescriptorInv'
  BY <1>8, <1>a, <1>b, ErrorTakenKeeps, <1>c, LinksChange DEF PrimitiveSocketReceiveDataBufCount
<1>9. ASSUME NEW s \in Socket, PrimitiveSocketListenOnPortBacklog(s) PROVE DescriptorInv'
  <2>1. fd' = fd /\ (link' = link \/ link' = [link EXCEPT ![fd[s]] = "listening"])
    BY <1>9 DEF PrimitiveSocketListenOnPortBacklog
  <2> QED
    BY <2>1, <1>a, <1>c, LinksChange DEF Link
<1>10. ASSUME NEW s \in Socket, NEW t \in Socket, PrimitiveSocketAccept3Semaphores(t, s)
       PROVE  DescriptorInv'
  <2>1. FreeFds # {} /\ fd' = [fd EXCEPT ![s] = LowestFd] /\ s \in created'
    BY <1>10 DEF PrimitiveSocketAccept3Semaphores, NewSocket
  <2>2. LowestFd \in Fd /\ link[LowestFd] = "closed"
    BY <2>1, LowestFdIsFree
  <2>3. \A u \in Socket : fd[u] # LowestFd
    BY <2>2, <1>a
  <2>4. /\ link' = [link EXCEPT ![fd[t]] = "listening", ![LowestFd] = "up"]
        /\ fd[t] \in Fd /\ fd[t] # LowestFd /\ link' \in [Fd -> Link]
    <3>1. /\ link' = [link EXCEPT ![fd[t]] = "listening", ![LowestFd] = "up"]
          /\ fd[t] \in Fd /\ fd[t] # LowestFd
      BY <1>10, <2>3, <1>a DEF PrimitiveSocketAccept3Semaphores, Open
    <3> QED
      BY <3>1, <2>2, <1>a DEF Link
  <2> QED
    BY <2>1, <2>2, <2>3, <2>4, <1>c, SocketGetsFd DEF Link
<1>11. ASSUME NEW s \in Socket, AwaitConnection(s) PROVE DescriptorInv'
  BY <1>11, <1>b DEF AwaitConnection
<1>12. ASSUME NEW s \in Socket, Wake(s) PROVE DescriptorInv'
  BY <1>12, <1>b DEF Wake
<1>13. ASSUME NEW f \in Fd, Network(f) PROVE DescriptorInv'
  <2>1. fd' = fd /\ (link' = link \/ \E l \in Link \ {"closed"} : link' = [link EXCEPT ![f] = l])
    BY <1>13 DEF Network, Link
  <2> QED
    BY <2>1, <1>a, <1>c, LinksChange
<1>14. CASE UnlistDestroyed
  BY <1>14, <1>b DEF UnlistDestroyed
<1>15. CASE DeleteInterpreter
  BY <1>15, <1>b DEF DeleteInterpreter
<1>16. CASE StopIoThread
  BY <1>16, <1>b DEF StopIoThread
<1>17. CASE Relaunch
  <2>1. /\ fd' = [s \in Socket |-> IF s \in created THEN NoFd ELSE fd[s]]
        /\ link' = [f \in Fd |-> "closed"]
    BY <1>17 DEF Relaunch, AllClosed, Delete
  <2>2. fd' \in [Socket -> Fd \union {NoFd}] /\ link' \in [Fd -> Link]
    BY <2>1, <1>a DEF Link
  <2>3. \A s \in Socket : fd'[s] = NoFd
    BY <2>1 DEF DescriptorInv
  <2> QED
    BY <2>2, <2>3 DEF DescriptorInv
<1>18. CASE IoBegin
  <2>1. CASE gIORunning
    <3>1. fd' = [s \in Socket |-> IF s \in gDeleteQueue THEN NoFd ELSE fd[s]] /\ link' = link
      BY <1>18, <2>1 DEF IoBegin, Delete
    <3> QED
      BY <3>1, <1>c DEF DescriptorInv
  <2>2. CASE ~gIORunning
    BY <1>18, <2>2, <1>b DEF IoBegin
  <2> QED
    BY <2>1, <2>2
<1>19. CASE IoWatch
  BY <1>19, <1>b DEF IoWatch
<1>20. CASE IoSelect
  BY <1>20, <1>b DEF IoSelect
<1>21. CASE IoScan
  BY <1>21, <1>b DEF IoScan
<1>22. CASE IoScanned
  BY <1>22, <1>b DEF IoScanned
<1>23. CASE IoGetError
  BY <1>23, <1>a, ErrorTakenKeeps, <1>c, LinksChange DEF IoGetError
<1>24. CASE IoAnswer
  BY <1>24, <1>b DEF IoAnswer
<1>25. CASE IoTellConn
  BY <1>25, <1>b DEF IoTellConn
<1>26. CASE IoRead
  BY <1>26, <1>b DEF IoRead
<1>27. CASE IoPeek
  BY <1>27, <1>a, ErrorTakenKeeps, <1>c, LinksChange DEF IoPeek
<1>28. CASE IoPeeked
  BY <1>28, <1>b DEF IoPeeked
<1>29. CASE IoTellRead
  BY <1>29, <1>b DEF IoTellRead
<1>30. CASE IoWrite
  BY <1>30, <1>b DEF IoWrite
<1>31. CASE IoMark
  BY <1>31, <1>b DEF IoMark
<1>32. CASE IoTellEnd
  BY <1>32, <1>b DEF IoTellEnd
<1>33. CASE IoTellWrite
  BY <1>33, <1>b DEF IoTellWrite
<1> QED
  BY <1>1, <1>2, <1>3, <1>4, <1>5, <1>6, <1>7, <1>8, <1>9, <1>10, <1>11,
     <1>12, <1>13, <1>14, <1>15, <1>16, <1>17, <1>18, <1>19, <1>20, <1>21,
     <1>22, <1>23, <1>24, <1>25, <1>26, <1>27, <1>28, <1>29, <1>30, <1>31, <1>32, <1>33
     DEF Next, Primitive, IoMonitorLoop

-----------------------------------------------------------------------------
(* Types of the rest *)

LEMMA ValuesPreserved ==
    ASSUME DescriptorInv, ValuesInv, RoundInv, ListInv, [Next]_vars
    PROVE  ValuesInv'
<1> USE DEF fields, kernel, image, ValuesInv
<1>a. /\ \A s \in Socket : Open(s) => fd[s] \in Fd
      /\ MaxData \in Nat
  BY SocketAssumption DEF DescriptorInv, Open
<1>1. CASE UNCHANGED vars
  BY <1>1 DEF vars
<1>2. ASSUME NEW s \in Socket, PrimitiveSocketCreate3Semaphores(s) PROVE ValuesInv'
  BY <1>2 DEF PrimitiveSocketCreate3Semaphores, NewSocket, SocketState
<1>3. ASSUME NEW s \in Socket, PrimitiveSocketDestroy(s) PROVE ValuesInv'
  <2>1. data' \in [Fd -> 0..MaxData] /\ full' \in [Fd -> BOOLEAN]
    <3>1. CASE fd[s] = NoFd
      BY <1>3, <3>1 DEF PrimitiveSocketDestroy
    <3>2. CASE fd[s] # NoFd
      <4>1. data' = [data EXCEPT ![fd[s]] = 0] /\ full' = [full EXCEPT ![fd[s]] = FALSE]
        BY <1>3, <3>2 DEF PrimitiveSocketDestroy, Closed
      <4>2. 0 \in 0..MaxData
        BY <1>a
      <4> QED
        BY <4>1, <4>2
    <3> QED
      BY <3>1, <3>2
  <2> QED
    BY <1>3, <2>1 DEF PrimitiveSocketDestroy
<1>4. ASSUME NEW s \in Socket, PrimitiveSocketConnectToPort(s) PROVE ValuesInv'
  BY <1>4 DEF PrimitiveSocketConnectToPort, SocketState, Semaphore
<1>5. ASSUME NEW s \in Socket, PrimitiveSocketCloseConnection(s) PROVE ValuesInv'
  BY <1>5 DEF PrimitiveSocketCloseConnection, SocketState
<1>6. ASSUME NEW s \in Socket, PrimitiveSocketAbortConnection(s) PROVE ValuesInv'
  BY <1>6, <1>a DEF PrimitiveSocketAbortConnection, Closed, SocketState
<1>7. ASSUME NEW s \in Socket, PrimitiveSocketSendDataBufCount(s) PROVE ValuesInv'
  BY <1>7 DEF PrimitiveSocketSendDataBufCount, SocketState, Semaphore
<1>8. ASSUME NEW s \in Socket, PrimitiveSocketReceiveDataBufCount(s) PROVE ValuesInv'
  BY <1>8, <1>a DEF PrimitiveSocketReceiveDataBufCount, Transfers, Recv, SocketState, Semaphore
<1>9. ASSUME NEW s \in Socket, PrimitiveSocketListenOnPortBacklog(s) PROVE ValuesInv'
  BY <1>9 DEF PrimitiveSocketListenOnPortBacklog, SocketState
<1>10. ASSUME NEW s \in Socket, NEW t \in Socket, PrimitiveSocketAccept3Semaphores(t, s)
       PROVE  ValuesInv'
  BY <1>10 DEF PrimitiveSocketAccept3Semaphores, NewSocket, SocketState
<1>11. ASSUME NEW s \in Socket, AwaitConnection(s) PROVE ValuesInv'
  BY <1>11 DEF AwaitConnection, Semaphore
<1>12. ASSUME NEW s \in Socket, Wake(s) PROVE ValuesInv'
  BY <1>12 DEF Wake
<1>13. ASSUME NEW f \in Fd, Network(f) PROVE ValuesInv'
  <2>1. data' \in [Fd -> 0..MaxData] /\ full' \in [Fd -> BOOLEAN]
    <3>1. /\ \/ data' = data
             \/ data[f] < MaxData /\ data' = [data EXCEPT ![f] = data[f] + 1]
             \/ data' = [data EXCEPT ![f] = 0]
          /\ full' = full \/ full' = [full EXCEPT ![f] = FALSE]
      BY <1>13 DEF Network
    <3>2. 0 \in 0..MaxData /\ (data[f] < MaxData => data[f] + 1 \in 0..MaxData)
      BY <1>a
    <3> QED
      BY <3>1, <3>2
  <2> QED
    BY <1>13, <2>1 DEF Network
<1>14. CASE UnlistDestroyed
  BY <1>14 DEF UnlistDestroyed
<1>15. CASE DeleteInterpreter
  BY <1>15 DEF DeleteInterpreter, NoImage
<1>16. CASE StopIoThread
  BY <1>16 DEF StopIoThread
<1>17. CASE Relaunch
  BY <1>17, <1>a DEF Relaunch, AllClosed, Delete, NoImage, SocketState
<1>18. CASE IoBegin
  BY <1>18 DEF IoBegin, Delete, SocketState
<1>19. CASE IoWatch
  BY <1>19 DEF IoWatch
<1>20. CASE IoSelect
  BY <1>20 DEF IoSelect
<1>21. CASE IoScan
  BY <1>21 DEF IoScan
<1>22. CASE IoScanned
  BY <1>22 DEF IoScanned
<1>23. CASE IoGetError
  BY <1>23 DEF IoGetError, Step
<1>24. CASE IoAnswer
  BY <1>24 DEF IoAnswer, Step, Tell, Semaphore, SocketState
<1>25. CASE IoTellConn
  BY <1>25 DEF IoTellConn, Step, Tell, Semaphore
<1>26. CASE IoRead
  BY <1>26 DEF IoRead, Step
<1>27. CASE IoPeek
  BY <1>27 DEF IoPeek, Step
<1>28. CASE IoPeeked
  BY <1>28 DEF IoPeeked, Step, Tell, Semaphore, SocketState
<1>29. CASE IoTellRead
  BY <1>29 DEF IoTellRead, Step, Tell, Semaphore
<1>30. CASE IoWrite
  BY <1>30 DEF IoWrite, Step, Tell, Semaphore
<1>31. CASE IoMark
  BY <1>31 DEF IoMark, Step
<1>32. CASE IoTellEnd
  BY <1>32 DEF IoTellEnd, Step, Tell, Semaphore
<1>33. CASE IoTellWrite
  BY <1>33 DEF IoTellWrite, Step, Tell, Semaphore
<1> QED
  BY <1>1, <1>2, <1>3, <1>4, <1>5, <1>6, <1>7, <1>8, <1>9, <1>10, <1>11,
     <1>12, <1>13, <1>14, <1>15, <1>16, <1>17, <1>18, <1>19, <1>20, <1>21,
     <1>22, <1>23, <1>24, <1>25, <1>26, <1>27, <1>28, <1>29, <1>30, <1>31, <1>32, <1>33
     DEF Next, Primitive, IoMonitorLoop

LEMMA IInvInitially == Init => IInv
<1> SUFFICES ASSUME Init PROVE IInv
  OBVIOUS
<1>1. ListInv
  <2>1. 0 \in 0..MaxSockets /\ {} = 1..0
    BY SocketAssumption
  <2> QED
    BY <2>1 DEF Init, ListInv
<1>2. HandleInv
  BY SocketAssumption DEF Init, HandleInv, Valid, NoSocket
<1>3. RoundInv
  BY DEF Init, RoundInv, IoRests, IoOnSocket, NoSocket
<1>4. DescriptorInv
  BY DEF Init, DescriptorInv, Link
<1>5. ValuesInv
  BY SocketAssumption DEF Init, ValuesInv, SocketState
<1> QED
  BY <1>1, <1>2, <1>3, <1>4, <1>5 DEF IInv

LEMMA IInvHolds == Spec => []IInv
<1>1. IInv /\ [Next]_vars => IInv'
  BY ListsPreserved, HandlesPreserved, RoundsPreserved, DescriptorsPreserved, ValuesPreserved
     DEF IInv
<1> QED
  BY <1>1, IInvInitially, PTL DEF Spec

\* No descriptor is used after close and none is shared, whichever thread
\* closes, opens or waits meanwhile, and a structure is in one list at a time.
THEOREM DescriptorsAreOwned == Spec => []SocketsTypeOK
<1>1. IInv => SocketsTypeOK
  <2> SUFFICES ASSUME IInv PROVE SocketsTypeOK
    OBVIOUS
  <2>1. created \subseteq Socket
    BY SocketAssumption DEF IInv, ListInv, Socket
  <2>2. DescriptorInv /\ ValuesInv /\ ListInv /\ handle \in [Socket -> 0..MaxSessions]
    BY DEF IInv, HandleInv
  <2>3. \A s \in Socket : fd[s] # NoFd =>
           link[fd[s]] # "closed" /\ \A t \in Socket \ {s} : fd[t] # fd[s]
    BY <2>2 DEF DescriptorInv
  <2> QED
    BY <2>1, <2>2, <2>3 DEF ListInv, DescriptorInv, ValuesInv, SocketsTypeOK
<1> QED
  BY <1>1, IInvHolds, PTL

\* Deferred deletion and session IDs suffice: neither the I/O thread, whose
\* snapshot is older than the lists, nor a handle of an earlier session leads
\* to a deleted structure.
THEOREM DeletedIsNotUsed == Spec => []NoUseAfterFree
<1>1. IInv => NoUseAfterFree
  BY DEF IInv, ListInv, HandleInv, RoundInv, NoUseAfterFree
<1> QED
  BY <1>1, IInvHolds, PTL

=============================================================================
