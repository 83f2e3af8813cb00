---------------------------- MODULE ListenThread ----------------------------
(* peel::Thread (Thread.h) running a peel::ListenThread (TCP) or a           *)
(* peel::BroadcastListenThread (UDP), the Socket they listen on, the peers   *)
(* that connect or send to it, and the owner that starts, stops, joins and   *)
(* deletes the object.                                                       *)
(*                                                                           *)
(* m_status and m_handle are shared without a lock, so every access is a     *)
(* step.  The assignment of the new thread's handle comes after the thread   *)
(* began: CreateThread returns it, and POSIX lets pthread_create store it    *)
(* at any time.                                                              *)
EXTENDS Naturals, FiniteSets

CONSTANTS
    Peers,          \* connections or datagrams from the network
    Kinds,          \* the classes considered, a subset of {"tcp", "udp"}
    Builds,         \* the builds considered, a subset of {"pthread", "win32"}
    MaxBacklog,     \* MAX_NUM_CONNECTIONS, or what the datagram buffer holds
    MaxStarts,      \* bound on the calls of start()
    NoPeer

ASSUME PeersAssumption == IsFiniteSet(Peers) /\ NoPeer \notin Peers
ASSUME KindsAssumption == Kinds \subseteq {"tcp", "udp"}
ASSUME BuildsAssumption == Builds \subseteq {"pthread", "win32"}
ASSUME BoundsAssumption == MaxBacklog \in Nat /\ MaxStarts \in Nat

VARIABLES
    kind,       \* which of the two classes the object is
    build,      \* which API the library was built for
    portFree,   \* whether bind() on m_port can succeed
    m_status,   \* ListenThread::m_status
    m_handle,   \* TRUE when Thread::m_handle is not null
    handleOpen, \* Windows: the kernel handle has not been closed
    sock,       \* the listening Socket's descriptor
    peer,       \* what became of each connection or datagram
    conn,       \* the one operator() is handling
    tpc, opc,   \* control points of the thread and of its owner
    joinArg,    \* the handle join() has read
    starts,     \* calls of start()
    stop,       \* history: what became of the last stopListening() of this run
    late        \* history: connections handed over since that call

env == <<kind, build, portFree>>
vars == <<env, m_status, m_handle, handleOpen, sock, peer, conn, tpc, opc,
          joinArg, starts, stop, late>>

Waiting == {p \in Peers : peer[p] = "waiting"}

Init ==
    /\ kind \in Kinds
    /\ build \in Builds
    /\ portFree \in BOOLEAN
    /\ m_status = "INIT"
    /\ m_handle = FALSE
    /\ handleOpen = FALSE
    /\ sock = "fresh"
    /\ peer = [p \in Peers |-> "away"]
    /\ conn = NoPeer
    /\ tpc = "none"
    /\ opc = "idle"
    /\ joinArg = FALSE
    /\ starts = 0
    /\ stop = "none"
    /\ late = 0

-----------------------------------------------------------------------------
(* The network *)

PortChange ==
    /\ portFree' = ~portFree
    /\ sock = "fresh"
    /\ UNCHANGED <<kind, build, m_status, m_handle, handleOpen, sock, peer, conn, tpc, opc,
                   joinArg, starts, stop, late>>

Arrive(p) ==
    /\ peer[p] = "away"
    /\ sock = "listening"
    /\ Cardinality(Waiting) < MaxBacklog
    /\ peer' = [peer EXCEPT ![p] = "waiting"]
    /\ UNCHANGED <<env, m_status, m_handle, handleOpen, sock, conn, tpc, opc,
                   joinArg, starts, stop, late>>

-----------------------------------------------------------------------------
(* The thread: Thread::Proc and operator() *)

\* Listen() or Bind(); a SocketException of bind() or listen() ends operator()
\* at once, and leaves the descriptor as it is.
Listen ==
    /\ tpc = "listen"
    /\ \/ portFree /\ sock = "fresh" /\ sock' = "listening" /\ tpc' = "setrunning"
       \/ kind = "tcp" /\ portFree /\ sock = "fresh" /\ sock' = "bound" /\ tpc' = "proc"
       \/ (~portFree \/ sock # "fresh") /\ tpc' = "proc" /\ UNCHANGED sock
    /\ UNCHANGED <<env, m_status, m_handle, handleOpen, peer, conn, opc, joinArg,
                   starts, stop, late>>

\* m_status = RUNNING, over a stop that came since start().
SetRunning ==
    /\ tpc = "setrunning"
    /\ m_status' = "RUNNING"
    /\ stop' = IF stop = "asked" THEN "overwritten" ELSE stop
    /\ tpc' = "test"
    /\ UNCHANGED <<env, m_handle, handleOpen, sock, peer, conn, opc, joinArg,
                   starts, late>>

Goto(from, to) ==
    /\ tpc = from
    /\ tpc' = to
    /\ UNCHANGED <<env, m_status, m_handle, handleOpen, sock, peer, conn, opc,
                   joinArg, starts, stop, late>>

\* A loop that only END leaves.
FaultyTest == Goto("test", IF m_status # "END" THEN "accept" ELSE "disconnect")

Test == Goto("test", IF m_status = "RUNNING" THEN "accept" ELSE "disconnect")

\* Socket::Accept returns a connection, or GetDatagram a datagram.
Accept ==
    /\ tpc = "accept"
    /\ conn' \in Waiting
    /\ peer' = [peer EXCEPT ![conn'] = "taken"]
    /\ tpc' = "handle"
    /\ UNCHANGED <<env, m_status, m_handle, handleOpen, sock, opc, joinArg,
                   starts, stop, late>>

\* Accept that blocks like GetDatagram.
FaultyPoll == FALSE /\ Goto("accept", "test")

\* select() ends after a second, or is interrupted, or accept() would block.
\* GetDatagram has no such exit: recvfrom() blocks.
Poll == kind = "tcp" /\ Goto("accept", "test")

\* A SocketException of Accept or GetDatagram breaks the loop.
AcceptError == Goto("accept", "disconnect")

\* receiveData(ps), which deletes ps or forgets to, or processData().
Handle ==
    /\ tpc = "handle"
    /\ \E fate \in IF kind = "tcp" THEN {"closed", "leaked"} ELSE {"closed"} :
           peer' = [peer EXCEPT ![conn] = fate]
    /\ conn' = NoPeer
    /\ late' = IF stop = "none" THEN late ELSE late + 1
    /\ tpc' = "test"
    /\ UNCHANGED <<env, m_status, m_handle, handleOpen, sock, opc, joinArg,
                   starts, stop>>

\* Disconnect(): shutdown() works on a listening TCP socket of a POSIX system
\* and resets its backlog; elsewhere it fails and the exception is swallowed.
Disconnect ==
    /\ tpc = "disconnect"
    /\ IF kind = "tcp" /\ build = "pthread"
       THEN /\ sock' = "shut"
            /\ peer' = [p \in Peers |-> IF p \in Waiting THEN "reset" ELSE peer[p]]
       ELSE UNCHANGED <<sock, peer>>
    /\ tpc' = "setend"
    /\ UNCHANGED <<env, m_status, m_handle, handleOpen, conn, opc, joinArg,
                   starts, stop, late>>

\* operator() that gives up the handle before its last statements.
FaultySetEnd ==
    /\ tpc = "setend"
    /\ m_status' = "END"
    /\ m_handle' = FALSE
    /\ tpc' = "proc"
    /\ UNCHANGED <<env, handleOpen, sock, peer, conn, opc, joinArg, starts, stop, late>>

SetEnd ==
    /\ tpc = "setend"
    /\ m_status' = "END"
    /\ tpc' = "proc"
    /\ UNCHANGED <<env, m_handle, handleOpen, sock, peer, conn, opc, joinArg,
                   starts, stop, late>>

\* Proc after operator(): CloseHandle(m_handle) on Windows ...
CloseHandle ==
    /\ tpc = "proc"
    /\ handleOpen' = (handleOpen /\ ~(build = "win32" /\ m_handle))
    /\ tpc' = "clear"
    /\ UNCHANGED <<env, m_status, m_handle, sock, peer, conn, opc, joinArg,
                   starts, stop, late>>

\* ... then m_handle = 0, and the thread is gone.
ClearHandle ==
    /\ tpc = "clear"
    /\ m_handle' = FALSE
    /\ tpc' = "exited"
    /\ UNCHANGED <<env, m_status, handleOpen, sock, peer, conn, opc, joinArg,
                   starts, stop, late>>

-----------------------------------------------------------------------------
(* The owner *)

\* start(), again only once the thread is known to be gone.
Start ==
    /\ opc \in {"idle", "joined"}
    /\ starts < MaxStarts
    /\ tpc \in {"none", "exited"}
    /\ starts' = starts + 1
    /\ handleOpen' = TRUE
    /\ tpc' = "listen"
    /\ opc' = "starting"
    /\ stop' = "none"
    /\ late' = 0
    /\ UNCHANGED <<env, m_status, m_handle, sock, peer, conn, joinArg>>

StoreHandle ==
    /\ opc = "starting"
    /\ m_handle' = TRUE
    /\ opc' = "running"
    /\ UNCHANGED <<env, m_status, handleOpen, sock, peer, conn, tpc, joinArg,
                   starts, stop, late>>

\* A further call adds nothing to a stop that is still asked for: the count of
\* what was handed over goes on.
StopListening ==
    /\ opc = "running"
    /\ m_status' = "TERM"
    /\ stop' = "asked"
    /\ late' = IF stop = "asked" THEN late ELSE 0
    /\ UNCHANGED <<env, m_handle, handleOpen, sock, peer, conn, tpc, opc, joinArg,
                   starts>>

\* join() reads m_handle ...
JoinRead ==
    /\ opc = "running"
    /\ joinArg' = m_handle
    /\ opc' = "joining"
    /\ UNCHANGED <<env, m_status, m_handle, handleOpen, sock, peer, conn, tpc,
                   starts, stop, late>>

\* ... and waits on it.  A null handle, or on Windows a closed one, does not
\* wait: the call fails, and its result is not looked at.
JoinReturn ==
    /\ opc = "joining"
    /\ \/ ~joinArg
       \/ tpc = "exited"
       \/ build = "win32" /\ ~handleOpen
    /\ opc' = "joined"
    /\ UNCHANGED <<env, m_status, m_handle, handleOpen, sock, peer, conn, tpc,
                   joinArg, starts, stop, late>>

\* An owner that polls isRunning() instead of calling join().
SeeNotRunning ==
    /\ opc = "running"
    /\ ~m_handle
    /\ opc' = "joined"
    /\ UNCHANGED <<env, m_status, m_handle, handleOpen, sock, peer, conn, tpc,
                   joinArg, starts, stop, late>>

\* ~ListenThread: ~Socket closes the descriptor.
Destroy ==
    /\ opc = "joined"
    /\ sock' = "closed"
    /\ opc' = "deleted"
    /\ UNCHANGED <<env, m_status, m_handle, handleOpen, peer, conn, tpc, joinArg,
                   starts, stop, late>>

-----------------------------------------------------------------------------
ThreadStep ==
    \/ Listen \/ SetRunning \/ Test \/ Accept \/ Poll \/ Handle \/ Disconnect
    \/ SetEnd \/ CloseHandle \/ ClearHandle

OwnerStep ==
    \/ Start \/ StoreHandle \/ StopListening \/ JoinRead \/ JoinReturn
    \/ SeeNotRunning \/ Destroy

Next ==
    \/ ThreadStep
    \/ AcceptError
    \/ OwnerStep
    \/ PortChange
    \/ \E p \in Peers : Arrive(p)

Spec == Init /\ [][Next]_vars

(* The thread is scheduled and receiveData() returns; accept() need not fail *)
(* and nobody need connect.  start() and join() return once they can.        *)
Fairness ==
    /\ WF_vars(ThreadStep)
    /\ WF_vars(StoreHandle)
    /\ WF_vars(JoinReturn)

FairSpec == Spec /\ Fairness

-----------------------------------------------------------------------------
(* Properties *)

\* "Block till thread completes" (Thread.h:84, 45): when join() has returned, or
\* isRunning() was seen false, the thread is gone and touches the object no more,
\* so that it may be deleted or started again.  The CreateThread build does not
\* keep this: Proc closes the handle it then clears (Thread.h:67-68).
JoinWaits == build = "pthread" /\ opc \in {"joined", "deleted"} => tpc = "exited"

\* The loop hands over at most one connection after stopListening() although
\* it looks at m_status without a lock and Accept may already hold one.  Every
\* connection since the call counts, whatever m_status then is.  The exception
\* is a stop that came between start() and the assignment of RUNNING
\* (ListenThread.cpp:22): it is lost, and any number of connections follows.
AtMostOneLate == stop # "overwritten" => late <= 1

Looping == tpc \in {"test", "accept", "handle"}

\* A stop that reaches the loop ends the thread without another peer's help:
\* Accept gives up after a second (ListenThread.h:21-23).  The UDP loop needs a
\* datagram to get there.
StopNoticed ==
    (m_status = "TERM" /\ Looping /\ (kind = "tcp" \/ Waiting # {}))
        ~> (tpc = "exited")

\* "Stop the thread" (ListenThread.h:34): whenever stopListening() is called, the
\* thread of a TCP listener ends.
StopStops == (m_status = "TERM" /\ kind = "tcp") ~> (tpc = "exited")
=============================================================================
