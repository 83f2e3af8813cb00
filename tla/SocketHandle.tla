---------------------------- MODULE SocketHandle ----------------------------
(* Socket objects and the descriptors behind them (Socket.cpp): the          *)
(* constructors, CreateSocket, DestroySocket, the destructor, Connect, and   *)
(* Accept as ListenThread uses it.  Each object is used by one thread; all   *)
(* of them share the process's descriptors, whose numbers the system reuses. *)
(*                                                                           *)
(* One step is one system call with what the method does up to the next.     *)
(* Types are left out, and so are the methods that only pass m_socket to the *)
(* system (Bind, Listen, SetBlocking, shutdown, ...): they change nothing    *)
(* here.                                                                     *)
EXTENDS Integers

CONSTANTS
    Objects,    \* where a Socket object may live
    Nobody,
    Builds,     \* the builds considered, a subset of {"posix", "windows"}
    MaxFd       \* bound on the descriptors of the process

ASSUME ObjectsAssumption == Nobody \notin Objects
ASSUME BuildsAssumption == Builds \subseteq {"posix", "windows"}
ASSUME MaxFdAssumption == MaxFd \in Nat

VARIABLES
    build,      \* the platform the library was built for
    desc,       \* what each descriptor is: "free", "socket" or "other"
    m_socket,   \* Socket::m_socket of each object
    pc,         \* control point of each object's thread, "none" if no object
    caller,     \* the method that CreateSocket or DestroySocket was called by
    threw,      \* whether the last method threw a SocketException
    owner,      \* history: the object an open socket was obtained for
    lost,       \* history: open sockets given up without being closed
    doubtful    \* history: a close() reported an error and closed all the same

osVars == <<desc, owner, lost, doubtful>>
handleVars == <<build, osVars, m_socket, pc, caller, threw>>

SOCKET_NULL == 0
INVALID_SOCKET == -1

Fds == 0..MaxFd

\* On POSIX standard input may have been closed, which frees the number 0.
HandleInit ==
    /\ build \in Builds
    /\ \E standardInput \in {"other", "free"} :
          /\ build = "windows" => standardInput = "other"
          /\ desc = [f \in Fds |-> IF f = 0 THEN standardInput ELSE "free"]
    /\ m_socket = [o \in Objects |-> SOCKET_NULL]
    /\ pc = [o \in Objects |-> "none"]
    /\ caller = [o \in Objects |-> "none"]
    /\ threw = [o \in Objects |-> FALSE]
    /\ owner = [f \in Fds |-> Nobody]
    /\ lost = {}
    /\ doubtful = FALSE

Set(o, s) == m_socket' = [m_socket EXCEPT ![o] = s]
Goto(o, label) == pc' = [pc EXCEPT ![o] = label]
Enter(o, method) == caller' = [caller EXCEPT ![o] = method]
Threw(o, b) == threw' = [threw EXCEPT ![o] = b]
Lose(S) == lost' = lost \union S

\* The test m_socket != SOCKET_NULL && m_socket != INVALID_SOCKET.
Valid(o) == m_socket[o] \notin {SOCKET_NULL, INVALID_SOCKET}

\* A method of o ends.
Return(o) == Goto(o, "ready") /\ Enter(o, "none") /\ Threw(o, FALSE)

\* It throws: an object whose constructor throws does not exist.
Throw(o) ==
    /\ Goto(o, IF caller[o] = "constructor" THEN "none" ELSE "ready")
    /\ Enter(o, "none")
    /\ Threw(o, TRUE)

\* The object is gone.
Gone(o) == Goto(o, "none") /\ Enter(o, "none") /\ Threw(o, FALSE) /\ Set(o, SOCKET_NULL)

\* The system opens the new descriptor f for o: on POSIX the lowest number.
Obtain(f, o) ==
    /\ desc[f] = "free"
    /\ build = "posix" => \A g \in Fds : g < f => desc[g] # "free"
    /\ desc' = [desc EXCEPT ![f] = "socket"]
    /\ owner' = [owner EXCEPT ![f] = o]
    /\ Set(o, f)

-----------------------------------------------------------------------------
(* Construction *)

\* Socket(), Socket(type) and the constructors of the classes derived from it.
Construct(o) ==
    /\ pc[o] = "none"
    /\ Set(o, SOCKET_NULL)
    /\ Enter(o, "constructor")
    /\ Goto(o, "create")
    /\ Threw(o, FALSE)
    /\ UNCHANGED <<build, osVars>>

\* CreateSocket that forgets the old descriptor.
FaultyCallCreateSocket(o) ==
    /\ pc[o] = "ready"
    /\ Enter(o, "CreateSocket")
    /\ Goto(o, "create")
    /\ Threw(o, FALSE)
    /\ UNCHANGED <<build, osVars, m_socket>>

\* CreateSocket(type) destroys the socket there is.
CallCreateSocket(o) ==
    /\ pc[o] = "ready"
    /\ Enter(o, "CreateSocket")
    /\ Goto(o, IF Valid(o) THEN "close" ELSE "create")
    /\ Threw(o, FALSE)
    /\ UNCHANGED <<build, osVars, m_socket>>

\* socket() and the test of its result: 0 is taken for a failure.  A type that
\* is none throws before socket().
SocketCall(o) ==
    /\ pc[o] = "create"
    /\ \/ \E f \in Fds :
             /\ Obtain(f, o)
             /\ IF f = SOCKET_NULL THEN Throw(o) /\ Lose({f})
                                   ELSE Return(o) /\ UNCHANGED lost
       \/ /\ Throw(o)
          /\ Set(o, INVALID_SOCKET) \/ UNCHANGED m_socket
          /\ UNCHANGED <<desc, owner, lost>>
    /\ UNCHANGED <<build, doubtful>>

\* accept() on o's socket; its result becomes a new object p (Socket(SOCKET)).
Accept(o, p) ==
    /\ pc[o] = "ready" /\ pc[p] = "none"
    /\ Valid(o)
    /\ \E f \in Fds :
          /\ Obtain(f, p)
          /\ Lose({f} \intersect {SOCKET_NULL})
    /\ Goto(p, "ready")
    /\ threw' = [threw EXCEPT ![o] = FALSE, ![p] = FALSE]
    /\ UNCHANGED <<build, doubtful, caller>>

-----------------------------------------------------------------------------
(* Destruction *)

CallDestroySocket(o) ==
    /\ pc[o] = "ready"
    /\ IF Valid(o)
       THEN Enter(o, "DestroySocket") /\ Goto(o, "close") /\ Threw(o, FALSE)
       ELSE Throw(o)
    /\ UNCHANGED <<build, osVars, m_socket>>

\* ~Socket()
Destruct(o) ==
    /\ pc[o] = "ready"
    /\ IF Valid(o)
       THEN Enter(o, "destructor") /\ Goto(o, "close") /\ Threw(o, FALSE) /\ UNCHANGED m_socket
       ELSE Gone(o)
    /\ UNCHANGED <<build, osVars>>

\* close() reported an error: DestroySocket throws with m_socket as it was,
\* and the destructor swallows the exception.
CloseFailed(o) ==
    IF caller[o] = "destructor" THEN Gone(o) ELSE Throw(o) /\ UNCHANGED m_socket

Released(f) ==
    /\ desc' = [desc EXCEPT ![f] = "free"]
    /\ owner' = [owner EXCEPT ![f] = Nobody]

\* CLOSESOCKET in DestroySocket.  When it reports an error the descriptor may
\* have been released on POSIX, and stays open on Windows.
Close(o) ==
    /\ pc[o] = "close"
    /\ LET f == m_socket[o] IN
       \/ /\ desc[f] # "free"
          /\ Released(f)
          /\ Goto(o, "null")
          /\ UNCHANGED <<lost, doubtful, m_socket, caller, threw>>
       \/ /\ build = "posix" /\ desc[f] # "free"
          /\ Released(f)
          /\ doubtful' = TRUE
          /\ CloseFailed(o)
          /\ UNCHANGED lost
       \/ /\ build = "windows" \/ desc[f] = "free"
          /\ CloseFailed(o)
          /\ Lose(IF caller[o] = "destructor" THEN {f} ELSE {})
          /\ UNCHANGED <<desc, owner, doubtful>>
    /\ UNCHANGED build

\* DestroySocket that leaves m_socket as it is.
FaultyNull(o) ==
    /\ pc[o] = "null"
    /\ IF caller[o] = "destructor" THEN Gone(o)
       ELSE /\ UNCHANGED m_socket
            /\ IF caller[o] = "CreateSocket"
               THEN Goto(o, "create") /\ UNCHANGED <<caller, threw>>
               ELSE Return(o)
    /\ UNCHANGED <<build, osVars>>

\* m_socket = SOCKET_NULL, and back to the caller.
Null(o) ==
    /\ pc[o] = "null"
    /\ IF caller[o] = "destructor" THEN Gone(o)
       ELSE /\ Set(o, SOCKET_NULL)
            /\ IF caller[o] = "CreateSocket"
               THEN Goto(o, "create") /\ UNCHANGED <<caller, threw>>
               ELSE Return(o)
    /\ UNCHANGED <<build, osVars>>

-----------------------------------------------------------------------------
(* Connect *)

\* No connection: the descriptor is forgotten, not closed.
ConnectFailed(o) == Set(o, INVALID_SOCKET) /\ Lose({m_socket[o]}) /\ Throw(o)

Connected(o) == Return(o) /\ UNCHANGED <<m_socket, lost>>

\* Connect(sockaddr_in*, port)
ConnectAddress(o) ==
    /\ pc[o] = "ready"
    /\ IF Valid(o) THEN Connected(o) \/ ConnectFailed(o)
                   ELSE Throw(o) /\ UNCHANGED <<m_socket, lost>>
    /\ UNCHANGED <<build, desc, owner, doubtful>>

\* Connect(host, port): there is no descriptor, or no such host, or it goes on.
CallConnect(o) ==
    /\ pc[o] = "ready"
    /\ build = "windows"
    /\ \/ Valid(o) /\ Goto(o, "first") /\ Threw(o, FALSE) /\ UNCHANGED caller
       \/ Throw(o)
    /\ UNCHANGED <<build, osVars, m_socket>>

\* The first address, the last one if its ai_next is NULL.
ConnectFirst(o) ==
    /\ pc[o] = "first"
    /\ \/ Connected(o)
       \/ ConnectFailed(o)
       \/ Goto(o, "second") /\ UNCHANGED <<m_socket, lost, caller, threw>>
    /\ UNCHANGED <<build, desc, owner, doubtful>>

\* current = result->ai_next: the second address, for ever until it answers.
ConnectSecond(o) ==
    /\ pc[o] = "second"
    /\ Connected(o)
    /\ UNCHANGED <<build, desc, owner, doubtful>>

-----------------------------------------------------------------------------
\* What the user of an object may call.
Method(o) ==
    \/ Construct(o) \/ CallCreateSocket(o) \/ CallDestroySocket(o) \/ Destruct(o)
    \/ ConnectAddress(o) \/ CallConnect(o)

\* What a method goes on to do.
Inside(o) == SocketCall(o) \/ Close(o) \/ Null(o) \/ ConnectFirst(o) \/ ConnectSecond(o)

-----------------------------------------------------------------------------
(* Properties *)

\* What an object closes is its own: the socket it created or accepted, still
\* open, never the one that another object has since been given under the same
\* number (Socket.cpp:108-114).  A close() that reported an error after it
\* released the descriptor would break this: m_socket keeps the number.
ClosesOwn ==
    ~doubtful => \A o \in Objects :
        pc[o] = "close" => desc[m_socket[o]] = "socket" /\ owner[m_socket[o]] = o

\* An open socket is held by the object it was obtained for, and that object
\* still exists and will close it; the only others are those in "lost", which
\* a failed Connect forgot (Socket.cpp:318, 370), whose number is 0, or that
\* the destructor could not close.
SocketsHeld ==
    ~doubtful => \A f \in Fds \ lost : desc[f] = "socket" =>
        \E o \in Objects : owner[f] = o /\ pc[o] # "none" /\ m_socket[o] = f
=============================================================================
