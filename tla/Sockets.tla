------------------------------- MODULE Sockets -------------------------------
(***************************************************************************)
(* TCP sockets of the socket plugin: the primitives, which run on the VM   *)
(* thread, and the I/O monitor thread, which watches the sockets with      *)
(* select, writes the same PrivateSocket structures without a lock and     *)
(* signals the image's semaphores.  The kernel's side of a descriptor and  *)
(* the image's waiting are here as far as the plugin uses them; the wake   *)
(* pipe only shortens select's timeout and is left out.                    *)
(***************************************************************************)
EXTENDS Integers, FiniteSets

CONSTANTS
    MaxSockets,      \* PrivateSocket structures ever allocated
    Fd,              \* descriptors the process may get, lowest first
    MaxData,         \* segments in a descriptor's receive buffer
    MaxSessions,     \* bound on gSessionID
    MaxCalls         \* bound on the primitives the image calls

ASSUME SocketAssumption ==
    /\ MaxSockets \in Nat \ {0} /\ MaxData \in Nat \ {0}
    /\ Fd \subseteq Nat /\ Fd # {} /\ IsFiniteSet(Fd)
    /\ MaxSessions \in Nat \ {0} /\ MaxCalls \in Nat

Socket == 1..MaxSockets
NoFd == -1
NoSocket == 0
SocketState ==
    {"unconnected", "waiting", "connected", "otherEndClosed", "thisEndClosed"}
Semaphore == {"conn", "read", "write"}
Link == {"closed", "idle", "connecting", "refused", "up", "fin", "reset",
         "over", "listening", "incoming"}

VARIABLES
    fd, sockState, sockError, writeSignaled, eofDetected,  \* PrivateSocket
    handle,          \* the session ID in the image's handle, 0 when cleared
    created,         \* structures allocated so far
    gActiveSockets, gDeleteQueue, deleted,
    gSessionID, gIORunning,
    gInterpreter,    \* the interpreter exists
    destroying,      \* in primitiveSocketDestroy, before it takes the lock
    io,              \* what the I/O thread does next
    snapshot, todo, current, readfds, writefds, result,  \* its locals
    link, data, full,     \* kernel: descriptor, receive and send buffers
    signalled, waits,     \* image: excess signals, what it waits for
    calls                 \* how many primitives it has called

fields == <<fd, sockState, sockError, writeSignaled, eofDetected>>
lists == <<created, gActiveSockets, gDeleteQueue, deleted>>
session == <<gSessionID, gIORunning, gInterpreter>>
ioVars == <<io, snapshot, todo, current, readfds, writefds, result>>
kernel == <<link, data, full>>
image == <<signalled, waits>>
vars == <<fields, handle, lists, session, destroying, ioVars, kernel, image, calls>>

Init ==
    /\ fd = [s \in Socket |-> NoFd]
    /\ sockState = [s \in Socket |-> "unconnected"]
    /\ sockError = [s \in Socket |-> FALSE]
    /\ writeSignaled = [s \in Socket |-> FALSE]
    /\ eofDetected = [s \in Socket |-> FALSE]
    /\ handle = [s \in Socket |-> 0]
    /\ created = {} /\ gActiveSockets = {} /\ gDeleteQueue = {} /\ deleted = {}
    /\ gSessionID = 1 /\ gIORunning = TRUE /\ gInterpreter = TRUE
    /\ destroying = NoSocket
    /\ io = "begin" /\ snapshot = {} /\ todo = {} /\ current = NoSocket
    /\ readfds = {} /\ writefds = {} /\ result = "again"
    /\ link = [f \in Fd |-> "closed"]
    /\ data = [f \in Fd |-> 0]
    /\ full = [f \in Fd |-> FALSE]
    /\ signalled = [s \in Socket |-> {}]
    /\ waits = [s \in Socket |-> "nothing"]
    /\ calls = 0

-----------------------------------------------------------------------------
(* The kernel: what recv and select make of a descriptor, and the network,  *)
(* which rests while the VM is taken down.                                   *)

Readable(f) ==
    data[f] > 0 \/ link[f] \in {"fin", "over", "reset", "refused", "incoming"}

Writable(f) ==
    \/ link[f] \in {"up", "fin"} /\ ~full[f]
    \/ link[f] \in {"over", "reset", "refused"}

Recv(f) ==
    CASE f = NoFd                              -> "error"
      [] f # NoFd /\ data[f] > 0               -> "data"
      [] f # NoFd /\ data[f] = 0 /\ link[f] \in {"fin", "over"} -> "end"
      [] f # NoFd /\ data[f] = 0 /\ link[f] \in {"up", "connecting"}    -> "again"
      [] OTHER                                 -> "error"

\* recv and getsockopt report a pending error once
ErrorTaken(f) ==
    CASE f # NoFd /\ link[f] = "reset"   -> [link EXCEPT ![f] = "over"]
      [] f # NoFd /\ link[f] = "refused" -> [link EXCEPT ![f] = "idle"]
      [] OTHER                           -> link

FreeFds == {f \in Fd : link[f] = "closed"}
LowestFd == CHOOSE f \in FreeFds : \A g \in FreeFds : f <= g

Network(f) ==
    /\ gInterpreter
    /\ \/ /\ link[f] = "connecting"
          /\ \E l \in {"up", "refused"} : link' = [link EXCEPT ![f] = l]
          /\ UNCHANGED <<data, full>>
       \/ /\ link[f] = "listening"
          /\ link' = [link EXCEPT ![f] = "incoming"]
          /\ UNCHANGED <<data, full>>
       \/ /\ link[f] = "up" /\ data[f] < MaxData
          /\ data' = [data EXCEPT ![f] = @ + 1]
          /\ UNCHANGED <<link, full>>
       \/ /\ link[f] = "up"
          /\ link' = [link EXCEPT ![f] = "fin"]
          /\ UNCHANGED <<data, full>>
       \/ /\ link[f] \in {"up", "fin"}
          /\ link' = [link EXCEPT ![f] = "reset"]
          /\ data' = [data EXCEPT ![f] = 0] /\ full' = [full EXCEPT ![f] = FALSE]
       \/ /\ full[f]
          /\ full' = [full EXCEPT ![f] = FALSE]
          /\ UNCHANGED <<link, data>>
    /\ UNCHANGED <<fields, handle, lists, session, destroying, ioVars, image, calls>>

-----------------------------------------------------------------------------
(* The primitives.  socketFromOop accepts a handle of this session. *)

VMRuns == gInterpreter /\ destroying = NoSocket
Call == VMRuns /\ calls < MaxCalls /\ calls' = calls + 1
Valid(s) == handle[s] = gSessionID
Open(s) == Valid(s) /\ fd[s] # NoFd

\* a new structure for descriptor f, known to the I/O thread at once
NewSocket(s, f, state) ==
    /\ s = Cardinality(created) + 1
    /\ fd' = [fd EXCEPT ![s] = f]
    /\ sockState' = [sockState EXCEPT ![s] = state]
    /\ UNCHANGED <<sockError, writeSignaled, eofDetected>>
    /\ handle' = [handle EXCEPT ![s] = gSessionID]
    /\ created' = created \union {s}
    /\ gActiveSockets' = gActiveSockets \union {s}
    /\ UNCHANGED <<gDeleteQueue, deleted>>

PrimitiveSocketCreate3Semaphores(s) ==
    /\ Call /\ FreeFds # {}
    /\ NewSocket(s, LowestFd, "unconnected")
    /\ link' = [link EXCEPT ![LowestFd] = "idle"]
    /\ UNCHANGED <<data, full, session, destroying, ioVars, image>>

Closed(f) ==
    /\ data' = [data EXCEPT ![f] = 0]
    /\ full' = [full EXCEPT ![f] = FALSE]

\* Closes the descriptor and clears the handle before it takes the lock.
PrimitiveSocketDestroy(s) ==
    /\ Call /\ Valid(s)
    /\ IF fd[s] = NoFd THEN UNCHANGED <<fd, kernel>>
       ELSE /\ fd' = [fd EXCEPT ![s] = NoFd]
            /\ link' = [link EXCEPT ![fd[s]] = "closed"]
            /\ Closed(fd[s])
    /\ handle' = [handle EXCEPT ![s] = 0]
    /\ destroying' = s
    /\ waits' = [waits EXCEPT ![s] = "nothing"]
    /\ UNCHANGED <<sockState, sockError, writeSignaled, eofDetected, lists,
                   session, ioVars, signalled>>

FaultyUnlistDeletes ==
    /\ destroying # NoSocket
    /\ gActiveSockets' = gActiveSockets \ {destroying}
    /\ deleted' = deleted \union {destroying}
    /\ destroying' = NoSocket
    /\ UNCHANGED <<fields, handle, created, gDeleteQueue, session, ioVars, kernel,
                   image, calls>>

\* The rest of primitiveSocketDestroy, under the lock; deletion is deferred.
UnlistDestroyed ==
    /\ destroying # NoSocket
    /\ gActiveSockets' = gActiveSockets \ {destroying}
    /\ gDeleteQueue' = gDeleteQueue \union {destroying}
    /\ destroying' = NoSocket
    /\ UNCHANGED <<fields, handle, created, deleted, session, ioVars, kernel,
                   image, calls>>

\* Where the address resolves to IPv6 the descriptor is made anew.
PrimitiveSocketConnectToPort(s) ==
    /\ Call /\ Open(s) /\ sockState[s] = "unconnected" /\ link[fd[s]] = "idle"
    /\ \E f \in {fd[s]} \union (IF FreeFds = {} THEN {} ELSE {LowestFd}),
          l \in {"connecting", "up", "idle"} :
          /\ fd' = [fd EXCEPT ![s] = f]
          /\ link' = [link EXCEPT ![fd[s]] = "closed", ![f] = l]
          /\ sockState' = [sockState EXCEPT ![s] =
                CASE l = "connecting" -> "waiting"
                  [] l = "up"         -> "connected"
                  [] l = "idle"       -> @]
          /\ sockError' = [sockError EXCEPT ![s] = @ \/ l = "idle"]
          /\ signalled' = [signalled EXCEPT ![s] =
                IF l = "up" THEN @ \union {"conn"} ELSE @]
    /\ UNCHANGED <<writeSignaled, eofDetected, handle, lists, session, destroying,
                   ioVars, data, full, waits>>

PrimitiveSocketCloseConnection(s) ==
    /\ Call /\ Open(s)
    /\ link' = [link EXCEPT ![fd[s]] = IF @ = "idle" THEN @ ELSE "over"]
    /\ sockState' = [sockState EXCEPT ![s] = "thisEndClosed"]
    /\ UNCHANGED <<fd, sockError, writeSignaled, eofDetected, handle, lists, session,
                   destroying, ioVars, data, full, image>>

FaultyAbortKeepsFd(s) ==
    /\ Call /\ Open(s)
    /\ link' = [link EXCEPT ![fd[s]] = "closed"]
    /\ Closed(fd[s])
    /\ UNCHANGED fd
    /\ sockState' = [sockState EXCEPT ![s] = "thisEndClosed"]
    /\ UNCHANGED <<sockError, writeSignaled, eofDetected, handle, lists, session,
                   destroying, ioVars, image>>

PrimitiveSocketAbortConnection(s) ==
    /\ Call /\ Open(s)
    /\ link' = [link EXCEPT ![fd[s]] = "closed"]
    /\ Closed(fd[s])
    /\ fd' = [fd EXCEPT ![s] = NoFd]
    /\ sockState' = [sockState EXCEPT ![s] = "thisEndClosed"]
    /\ UNCHANGED <<sockError, writeSignaled, eofDetected, handle, lists, session,
                   destroying, ioVars, image>>

\* The image sends and receives once a socket has been connected, and waits
\* for the semaphore when nothing was transferred.
Transfers(s) ==
    /\ Call /\ Open(s) /\ waits[s] = "nothing"
    /\ sockState[s] \in {"connected", "otherEndClosed"}

PrimitiveSocketSendDataBufCount(s) ==
    /\ Transfers(s)
    /\ \/ /\ link[fd[s]] \in {"up", "fin"} /\ ~full[fd[s]]
          /\ \E b \in BOOLEAN : full' = [full EXCEPT ![fd[s]] = b]
          /\ UNCHANGED <<fields, waits, link>>
       \/ /\ full[fd[s]] \/ link[fd[s]] = "connecting"
          /\ writeSignaled' = [writeSignaled EXCEPT ![s] = FALSE]
          /\ waits' = [waits EXCEPT ![s] = "write"]
          /\ UNCHANGED <<fd, sockState, sockError, eofDetected, full, link>>
       \/ /\ link[fd[s]] \notin {"up", "fin", "connecting"} /\ ~full[fd[s]]
          /\ sockError' = [sockError EXCEPT ![s] = TRUE]
          /\ link' = ErrorTaken(fd[s])
          /\ UNCHANGED <<fd, sockState, writeSignaled, eofDetected, waits, full>>
    /\ UNCHANGED <<handle, lists, session, destroying, ioVars, data, signalled>>

PrimitiveSocketReceiveDataBufCount(s) ==
    /\ Transfers(s)
    /\ LET r == Recv(fd[s]) IN
          /\ data' = IF r = "data" THEN [data EXCEPT ![fd[s]] = @ - 1] ELSE data
          /\ sockState' = IF r = "end"
                          THEN [sockState EXCEPT ![s] = "otherEndClosed"]
                          ELSE sockState
          /\ sockError' = [sockError EXCEPT ![s] = @ \/ r = "error"]
          /\ link' = IF r = "error" THEN ErrorTaken(fd[s]) ELSE link
          /\ waits' = IF r = "again" THEN [waits EXCEPT ![s] = "read"] ELSE waits
    /\ UNCHANGED <<fd, writeSignaled, eofDetected, handle, lists, session,
                   destroying, ioVars, full, signalled>>

PrimitiveSocketListenOnPortBacklog(s) ==
    /\ Call /\ Open(s) /\ sockState[s] = "unconnected" /\ link[fd[s]] = "idle"
    /\ \/ /\ link' = [link EXCEPT ![fd[s]] = "listening"]
          /\ sockState' = [sockState EXCEPT ![s] = "waiting"]
          /\ UNCHANGED sockError
       \/ /\ sockError' = [sockError EXCEPT ![s] = TRUE]
          /\ UNCHANGED <<link, sockState>>
    /\ UNCHANGED <<fd, writeSignaled, eofDetected, handle, lists, session,
                   destroying, ioVars, data, full, image>>

PrimitiveSocketAccept3Semaphores(server, s) ==
    /\ Call /\ Open(server) /\ link[fd[server]] = "incoming" /\ FreeFds # {}
    /\ NewSocket(s, LowestFd, "connected")
    /\ link' = [link EXCEPT ![fd[server]] = "listening", ![LowestFd] = "up"]
    /\ UNCHANGED <<data, full, session, destroying, ioVars, image>>

\* The image polls primitiveSocketConnectionStatus and waits while it says so.
AwaitConnection(s) ==
    /\ VMRuns /\ Open(s) /\ waits[s] = "nothing"
    /\ sockState[s] = "waiting"
    /\ waits' = [waits EXCEPT ![s] = "conn"]
    /\ UNCHANGED <<fields, handle, lists, session, destroying, ioVars, kernel,
                   signalled, calls>>

Wake(s) ==
    /\ waits[s] \in signalled[s]
    /\ signalled' = [signalled EXCEPT ![s] = @ \ {waits[s]}]
    /\ waits' = [waits EXCEPT ![s] = "nothing"]
    /\ UNCHANGED <<fields, handle, lists, session, destroying, ioVars, kernel, calls>>

-----------------------------------------------------------------------------
(* ioMonitorLoop; gActiveSockets is in the order of registration.           *)
(*                                                                          *)
(* A step reads ps->fd once where the code tests it, and reads it again for *)
(* FD_SET or FD_ISSET.  That comes to the same: a descriptor given up leaves *)
(* -1 for good, which both macros ignore on Darwin, and is exchanged only   *)
(* in a state that neither branch looks at; the sets are the thread's own.  *)
(* What is left out is a descriptor that is closed, and given to another    *)
(* socket, between its load and the getsockopt or recv that takes it.       *)

First(S) == CHOOSE s \in S : \A t \in S : s <= t

\* What a deleted structure holds means nothing.
Delete(S) ==
    /\ deleted' = deleted \union S
    /\ fd' = [s \in Socket |-> IF s \in S THEN NoFd ELSE fd[s]]
    /\ sockState' = [s \in Socket |-> IF s \in S THEN "unconnected" ELSE sockState[s]]
    /\ sockError' = [s \in Socket |-> s \notin S /\ sockError[s]]
    /\ writeSignaled' = [s \in Socket |-> s \notin S /\ writeSignaled[s]]
    /\ eofDetected' = [s \in Socket |-> s \notin S /\ eofDetected[s]]

\* The next round's locals start out empty.
NextRound ==
    /\ io' = "begin"
    /\ snapshot' = {} /\ todo' = {} /\ readfds' = {} /\ writefds' = {}
    /\ current' = NoSocket /\ result' = "again"

IoBegin ==
    /\ io = "begin"
    /\ IF gIORunning
       THEN /\ Delete(gDeleteQueue) /\ gDeleteQueue' = {}
            /\ snapshot' = gActiveSockets /\ todo' = gActiveSockets
            /\ io' = "watch"
       ELSE /\ io' = "stopped"
            /\ UNCHANGED <<fields, deleted, gDeleteQueue, snapshot, todo>>
    /\ UNCHANGED <<handle, created, gActiveSockets, session, destroying, current,
                   readfds, writefds, result, kernel, image, calls>>

FaultyWatchAfterAnswer ==
    /\ io = "watch" /\ todo # {}
    /\ todo' = todo \ {First(todo)}
    /\ LET s == First(todo) IN
       /\ readfds' = readfds \union
             (IF fd[s] # NoFd /\ sockState[s] = "connected" THEN {fd[s]} ELSE {})
       /\ writefds' = writefds \union
             (IF /\ fd[s] # NoFd /\ sockState[s] = "connected" /\ ~eofDetected[s]
              THEN {fd[s]} ELSE {})
    /\ UNCHANGED <<fields, handle, lists, session, destroying, io, snapshot,
                   current, result, kernel, image, calls>>

IoWatch ==
    /\ io = "watch" /\ todo # {}
    /\ todo' = todo \ {First(todo)}
    /\ LET s == First(todo) IN
       /\ readfds' = readfds \union
             (IF fd[s] # NoFd /\ sockState[s] = "connected" THEN {fd[s]} ELSE {})
       /\ writefds' = writefds \union
             (IF /\ fd[s] # NoFd
                 /\ \/ sockState[s] = "waiting"
                    \/ sockState[s] = "connected" /\ ~eofDetected[s]
              THEN {fd[s]} ELSE {})
    /\ UNCHANGED <<fields, handle, lists, session, destroying, io, snapshot,
                   current, result, kernel, image, calls>>

\* select fails on a descriptor closed meanwhile, and times out when nothing
\* is ready: either way the loop starts again.
IoSelect ==
    /\ io = "watch" /\ todo = {}
    /\ LET r == {f \in readfds : Readable(f)}
           w == {f \in writefds : Writable(f)}
           bad == \E f \in readfds \union writefds : link[f] = "closed" IN
          IF bad \/ r \union w = {}
          THEN NextRound
          ELSE /\ io' = "scan" /\ todo' = snapshot
               /\ readfds' = r /\ writefds' = w
               /\ UNCHANGED <<snapshot, current, result>>
    /\ UNCHANGED <<fields, handle, lists, session, destroying, kernel, image, calls>>

IoScan ==
    /\ io = "scan" /\ todo # {}
    /\ todo' = todo \ {First(todo)}
    /\ current' = First(todo)
    /\ io' = CASE fd[current'] = NoFd -> "scan"
               [] fd[current'] # NoFd /\ sockState[current'] = "waiting"
                    /\ fd[current'] \in writefds -> "getError"
               [] OTHER -> "read"
    /\ UNCHANGED <<fields, handle, lists, session, destroying, snapshot, readfds,
                   writefds, result, kernel, image, calls>>

IoScanned ==
    /\ io = "scan" /\ todo = {}
    /\ NextRound
    /\ UNCHANGED <<fields, handle, lists, session, destroying, kernel, image, calls>>

\* Signals the semaphores S of the current socket; one that is deleted
\* takes none.
Tell(S) ==
    signalled' = IF gInterpreter THEN [signalled EXCEPT ![current] = @ \union S]
                 ELSE signalled

Step(from, to) ==
    /\ io = from /\ io' = to
    /\ UNCHANGED <<handle, lists, session, destroying, snapshot, todo, current,
                   readfds, writefds, calls>>

\* err stays 0 when the descriptor is gone
IoGetError ==
    /\ Step("getError", "answer")
    /\ result' = IF fd[current] # NoFd /\ link[fd[current]] \in {"refused", "reset"}
                 THEN "error" ELSE "again"
    /\ link' = ErrorTaken(fd[current])
    /\ UNCHANGED <<fields, data, full, image>>

IoAnswer ==
    /\ Step("answer", "tellConn")
    /\ sockState' = [sockState EXCEPT ![current] =
                        IF result = "error" THEN "unconnected" ELSE "connected"]
    /\ sockError' = [sockError EXCEPT ![current] = @ \/ result = "error"]
    /\ UNCHANGED <<fd, writeSignaled, eofDetected, result, kernel, image>>

IoTellConn ==
    /\ Step("tellConn", "read")
    /\ Tell({"conn", "write"})
    /\ UNCHANGED <<fields, result, kernel, waits>>

IoRead ==
    /\ Step("read", CASE sockState[current] # "connected" -> "scan"
                      [] fd[current] \notin readfds       -> "write"
                      [] eofDetected[current]             -> "tellRead"
                      [] OTHER                            -> "peek")
    /\ UNCHANGED <<fields, result, kernel, image>>

IoPeek ==
    /\ Step("peek", "peeked")
    /\ result' = Recv(fd[current])
    /\ link' = IF result' = "error" THEN ErrorTaken(fd[current]) ELSE link
    /\ UNCHANGED <<fields, data, full, image>>

\* A FIN leaves sockState to the primitive that reads up to it.
IoPeeked ==
    /\ Step("peeked", IF result \in {"end", "error"} THEN "tellEnd" ELSE "tellRead")
    /\ eofDetected' = [eofDetected EXCEPT ![current] = @ \/ result = "end"]
    /\ sockError' = [sockError EXCEPT ![current] = @ \/ result = "error"]
    /\ sockState' = [sockState EXCEPT ![current] =
                        IF result = "error" THEN "otherEndClosed" ELSE @]
    /\ UNCHANGED <<fd, writeSignaled, result, kernel, image>>

IoTellEnd ==
    /\ Step("tellEnd", "tellRead")
    /\ Tell({"conn"})
    /\ UNCHANGED <<fields, result, kernel, waits>>

FaultyTellReadBeforeEof ==
    /\ Step("tellRead", "write")
    /\ Tell(IF eofDetected[current] THEN {} ELSE {"read"})
    /\ UNCHANGED <<fields, result, kernel, waits>>

IoTellRead ==
    /\ Step("tellRead", "write")
    /\ Tell({"read"})
    /\ UNCHANGED <<fields, result, kernel, waits>>

IoWrite ==
    LET signals == /\ ~eofDetected[current] /\ ~writeSignaled[current]
                   /\ fd[current] \in writefds IN
    /\ Step("write", IF signals THEN "tellWrite" ELSE "scan")
    /\ UNCHANGED <<fields, result, kernel, image>>

IoTellWrite ==
    /\ Step("tellWrite", "mark")
    /\ Tell({"write"})
    /\ UNCHANGED <<fields, result, kernel, waits>>

IoMark ==
    /\ Step("mark", "scan")
    /\ writeSignaled' = [writeSignaled EXCEPT ![current] = TRUE]
    /\ UNCHANGED <<fd, sockState, sockError, eofDetected, result, kernel, image>>

IoMonitorLoop ==
    \/ IoBegin \/ IoSelect \/ IoScanned \/ IoGetError \/ IoAnswer \/ IoTellConn
    \/ IoRead \/ IoPeek \/ IoPeeked \/ IoTellRead \/ IoWrite \/ IoMark
    \/ IoWatch \/ IoScan \/ IoTellEnd \/ IoTellWrite

-----------------------------------------------------------------------------
(* socketPluginShutdown, and the next launch *)

NoImage ==
    /\ signalled' = [s \in Socket |-> {}]
    /\ waits' = [s \in Socket |-> "nothing"]

\* vm_destroy, once the VM thread has left interpret
DeleteInterpreter ==
    /\ VMRuns /\ gSessionID < MaxSessions
    /\ gInterpreter' = FALSE
    /\ NoImage
    /\ UNCHANGED <<fields, handle, lists, gSessionID, gIORunning, destroying, ioVars,
                   kernel, calls>>

StopIoThread ==
    /\ ~gInterpreter /\ gIORunning
    /\ gIORunning' = FALSE
    /\ UNCHANGED <<fields, handle, lists, gSessionID, gInterpreter, destroying, ioVars,
                   kernel, image, calls>>

AllClosed ==
    /\ Delete(created)
    /\ link' = [f \in Fd |-> "closed"]
    /\ data' = [f \in Fd |-> 0]
    /\ full' = [f \in Fd |-> FALSE]
    /\ gActiveSockets' = {} /\ gDeleteQueue' = {}
    /\ NoImage
    /\ destroying' = NoSocket
    /\ NextRound /\ gIORunning' = TRUE /\ gInterpreter' = TRUE
    /\ UNCHANGED <<handle, created, calls>>

\* The shutdown sleeps long enough for the thread to see the flag; the image
\* of the next launch may hold handles of this one.
Relaunch ==
    /\ ~gIORunning /\ io = "stopped"
    /\ AllClosed
    /\ gSessionID' = gSessionID + 1

-----------------------------------------------------------------------------
Primitive(s) ==
    \/ PrimitiveSocketCreate3Semaphores(s) \/ PrimitiveSocketDestroy(s)
    \/ PrimitiveSocketConnectToPort(s) \/ PrimitiveSocketCloseConnection(s)
    \/ PrimitiveSocketAbortConnection(s) \/ PrimitiveSocketSendDataBufCount(s)
    \/ PrimitiveSocketReceiveDataBufCount(s)
    \/ PrimitiveSocketListenOnPortBacklog(s)
    \/ \E t \in Socket : PrimitiveSocketAccept3Semaphores(t, s)

Next ==
    \/ IoMonitorLoop
    \/ UnlistDestroyed \/ DeleteInterpreter \/ StopIoThread \/ Relaunch
    \/ \E f \in Fd : Network(f)
    \/ \E s \in Socket : Primitive(s) \/ AwaitConnection(s) \/ Wake(s)

\* The I/O thread is scheduled, and the image goes on when it may.
Spec ==
    /\ Init /\ [][Next]_vars
    /\ WF_vars(IoMonitorLoop)
    /\ \A s \in Socket : WF_vars(Wake(s))

-----------------------------------------------------------------------------
\* The plugin's state is well formed, a structure is in one place at a time,
\* and no two sockets have one descriptor, nor one that is closed.
SocketsTypeOK ==
    /\ fd \in [Socket -> Fd \union {NoFd}] /\ sockState \in [Socket -> SocketState]
    /\ sockError \in [Socket -> BOOLEAN] /\ writeSignaled \in [Socket -> BOOLEAN]
    /\ eofDetected \in [Socket -> BOOLEAN] /\ handle \in [Socket -> 0..MaxSessions]
    /\ created \subseteq Socket
    /\ gActiveSockets \intersect (gDeleteQueue \union deleted) = {}
    /\ gDeleteQueue \intersect deleted = {}
    /\ created = gActiveSockets \union gDeleteQueue \union deleted
    /\ link \in [Fd -> Link] /\ data \in [Fd -> 0..MaxData] /\ full \in [Fd -> BOOLEAN]
    /\ signalled \in [Socket -> SUBSET Semaphore]
    /\ waits \in [Socket -> Semaphore \union {"nothing"}]
    /\ \A s \in Socket : fd[s] # NoFd =>
          /\ link[fd[s]] # "closed"
          /\ \A t \in Socket \ {s} : fd[t] # fd[s]

\* Nobody uses a deleted structure: the I/O thread has none in its snapshot,
\* though primitives destroy sockets while it walks through that, and no handle
\* that socketFromOop accepts leads to one.
NoUseAfterFree ==
    /\ io \notin {"begin", "stopped"} => snapshot \intersect deleted = {}
    /\ current # NoSocket => current \in snapshot
    /\ \A s \in Socket : Valid(s) => s \notin deleted

Gone(s) == fd[s] = NoFd \/ ~gInterpreter

\* Once a connection attempt has ended, the process that waits for it wakes.
ConnectsAreAnswered ==
    \A s \in Socket :
        (waits[s] = "conn" /\ fd[s] # NoFd
            /\ link[fd[s]] \in {"up", "fin", "refused", "reset"})
        ~> (waits[s] # "conn" \/ Gone(s) \/ sockState[s] = "thisEndClosed")

\* A process that waits to read wakes when there is data, an end or an error.
ReadersAreWoken ==
    \A s \in Socket :
        (waits[s] = "read" /\ fd[s] # NoFd /\ Readable(fd[s]))
        ~> (waits[s] # "read" \/ Gone(s) \/ sockState[s] = "thisEndClosed")

\* A process that waits to send, because the send buffer was full, wakes when
\* there has been room in it for good.
WritersAreWoken ==
    \A s \in Socket :
        ~<>[](waits[s] = "write" /\ sockState[s] = "connected" /\ ~eofDetected[s]
                /\ gInterpreter /\ fd[s] # NoFd /\ Writable(fd[s]))

\* The I/O thread calls the interpreter only while there is one.
SignalsReachInterpreter ==
    [][(io \in {"tellConn", "tellEnd", "tellRead", "tellWrite"} /\ io' # io)
          => gInterpreter]_vars
=============================================================================
