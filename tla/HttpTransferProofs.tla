------------------------- MODULE HttpTransferProofs -------------------------
(* Theorems about HttpTransfer, for any objects, either build, any number of *)
(* descriptors and any lengths: what an object closes is its own, nothing    *)
(* open is left without an owner, and a request that was sent whole is as    *)
(* long as it was announced.                                                 *)
(*                                                                           *)
(* The inductive invariant has one part per kind of state.  HoldInv says     *)
(* which descriptor an object holds at each point of its methods, FlowInv    *)
(* how much of a request the static functions have sent at each of theirs,   *)
(* and InetInv the same of the functions over WinInet.                       *)
EXTENDS HttpTransfer, TLAPS

USE ObjectsAssumption, BuildsAssumption, MaxFdAssumption, LengthAssumption,
    WordAssumption, ReplyAssumption

-----------------------------------------------------------------------------
(* The descriptors *)

Points == {"none", "create", "ready", "close", "null", "first", "second"}
Callers == {"none", "constructor", "CreateSocket", "DestroySocket", "destructor"}

PointTypes == pc \in [Objects -> Points] /\ caller \in [Objects -> Callers]

NumberTypes == m_socket \in [Objects -> Fds \union {INVALID_SOCKET}]

OsTypes ==
    /\ build \in Builds
    /\ desc \in [Fds -> {"free", "socket", "other"}]
    /\ owner \in [Fds -> Objects \union {Nobody}]
    /\ lost \subseteq Fds

HandleTypes == PointTypes /\ NumberTypes /\ OsTypes

\* What the control point of a method says of m_socket and of who called it.
PointInv ==
    \A o \in Objects :
        /\ pc[o] = "create" => ~Valid(o)
        /\ pc[o] \in {"close", "first", "second"} => Valid(o)
        /\ caller[o] = "constructor" => pc[o] = "create"

\* A socket whose number is 0 is never held: CreateSocket throws, and the test
\* of m_socket takes an accepted one for none.
ZeroInv == desc[SOCKET_NULL] = "socket" => SOCKET_NULL \in lost

\* A number in m_socket is an open socket of the object, except between
\* close() and the assignment that follows it, when the object holds nothing.
Holder(o) ==
    /\ pc[o] \notin {"none", "null"} /\ Valid(o) =>
          desc[m_socket[o]] = "socket" /\ owner[m_socket[o]] = o
    /\ pc[o] = "null" => \A f \in Fds \ lost : desc[f] = "socket" => owner[f] # o

HeldInv == ~doubtful => \A o \in Objects : Holder(o)

HoldInv == HandleTypes /\ PointInv /\ ZeroInv /\ HeldInv /\ SocketsHeld

\* What a step does to the descriptors and the objects that hold them.
HandleCases ==
    \/ \E o \in Objects : Construct(o) \/ CallCreateSocket(o) \/ CallDestroySocket(o)
                          \/ Destruct(o) \/ ConnectAddress(o) \/ CallConnect(o)
    \/ \E o \in Objects : SocketCall(o) \/ Close(o) \/ Null(o)
                          \/ ConnectFirst(o) \/ ConnectSecond(o)
    \/ \E o, p \in Objects : Accept(o, p)
    \/ UNCHANGED <<build, osVars, m_socket, pc, caller>>

LEMMA HandleSteps == [Next]_vars => HandleCases
<1> SUFFICES ASSUME [Next]_vars PROVE HandleCases
  OBVIOUS
<1> USE DEF HandleCases
<1>1. ASSUME NEW o \in Objects,
             BeginFlow(o, "SendGet") \/ BeginFlow(o, "SendFile") \/ ConnectFlow(o)
               \/ DestroyFlow(o) \/ Leave(o)
      PROVE  HandleCases
  BY <1>1 DEF BeginFlow, ConnectFlow, DestroyFlow, Leave
<1>2. ASSUME NEW o \in Objects,
             SendRequest(o) \/ ShutDown(o) \/ Measure(o) \/ OpenFlow(o) \/ SendHead(o)
               \/ SendBody(o) \/ SendEnd(o) \/ Reply(o) \/ DisconnectFlow(o) \/ EndFlow(o)
      PROVE  HandleCases
  <2>1. UNCHANGED <<build, osVars, m_socket, pc, caller>>
    BY <1>2 DEF SendRequest, ShutDown, Measure, OpenFlow, SendHead, SendBody, SendEnd,
                SendUnit, Reply, DisconnectFlow, EndFlow, Go, Raise, handleVars
  <2> QED BY <2>1
<1>3. ASSUME NEW o \in Objects, Free(o) \/ Inside(o)
      PROVE  HandleCases
  BY <1>3 DEF Free, Method, Inside
<1>4. CASE UNCHANGED handleVars
  BY <1>4 DEF handleVars
<1> QED BY <1>1, <1>2, <1>3, <1>4 DEF Next, FlowStep, vars

LEMMA PointTypesStep == HoldInv /\ [Next]_vars => PointTypes'
<1> SUFFICES ASSUME PointTypes, HandleCases PROVE PointTypes'
  BY HandleSteps DEF HoldInv, HandleTypes
<1> USE DEF PointTypes, Goto, Enter, Throw, Return
<1>0. /\ {"none", "create", "ready", "close", "null", "first", "second"} \subseteq Points
      /\ {"none", "constructor", "CreateSocket", "DestroySocket", "destructor"} \subseteq Callers
  BY DEF Points, Callers
<1>1. ASSUME NEW o \in Objects,
             Construct(o) \/ CallCreateSocket(o) \/ CallDestroySocket(o)
      PROVE  PointTypes'
  BY <1>0, <1>1 DEF Construct, CallCreateSocket, CallDestroySocket
<1>2. ASSUME NEW o \in Objects,
             Destruct(o) \/ CallConnect(o)
      PROVE  PointTypes'
  <2>1. CASE Destruct(o) BY <1>0, <2>1 DEF Destruct, Gone
  <2>2. CASE CallConnect(o) BY <1>0, <2>2 DEF CallConnect
  <2> QED BY <1>2, <2>1, <2>2
<1>3. ASSUME NEW o \in Objects,
             ConnectAddress(o) \/ ConnectFirst(o) \/ ConnectSecond(o)
      PROVE  PointTypes'
  BY <1>0, <1>3 DEF ConnectAddress, ConnectFirst, ConnectSecond, Connected, ConnectFailed
<1>4. ASSUME NEW o \in Objects,
             SocketCall(o)
      PROVE  PointTypes'
  BY <1>0, <1>4 DEF SocketCall, Obtain
<1>5. ASSUME NEW o \in Objects, NEW p \in Objects,
             Accept(o, p)
      PROVE  PointTypes'
  BY <1>0, <1>5 DEF Accept, Obtain
<1>6. ASSUME NEW o \in Objects,
             Close(o)
      PROVE  PointTypes'
  BY <1>0, <1>6 DEF Close, Released, CloseFailed, Gone
<1>7. ASSUME NEW o \in Objects,
             Null(o)
      PROVE  PointTypes'
  BY <1>0, <1>7 DEF Null, Gone
<1>8. CASE UNCHANGED <<build, osVars, m_socket, pc, caller>>
  BY <1>8
<1> QED BY <1>1, <1>2, <1>3, <1>4, <1>5, <1>6, <1>7, <1>8 DEF HandleCases

LEMMA NumberTypesStep == HoldInv /\ [Next]_vars => NumberTypes'
<1> SUFFICES ASSUME NumberTypes, HandleCases PROVE NumberTypes'
  BY HandleSteps DEF HoldInv, HandleTypes
<1> USE DEF NumberTypes, Set
<1>0. SOCKET_NULL \in Fds
  BY DEF SOCKET_NULL, Fds
<1>1. ASSUME NEW o \in Objects,
             Construct(o) \/ CallCreateSocket(o) \/ CallDestroySocket(o)
      PROVE  NumberTypes'
  BY <1>0, <1>1 DEF Construct, CallCreateSocket, CallDestroySocket
<1>2. ASSUME NEW o \in Objects,
             Destruct(o) \/ CallConnect(o)
      PROVE  NumberTypes'
  BY <1>0, <1>2 DEF Destruct, CallConnect, Gone
<1>3. ASSUME NEW o \in Objects,
             ConnectAddress(o) \/ ConnectFirst(o) \/ ConnectSecond(o)
      PROVE  NumberTypes'
  BY <1>0, <1>3 DEF ConnectAddress, ConnectFirst, ConnectSecond, Connected, ConnectFailed
<1>4. ASSUME NEW o \in Objects,
             SocketCall(o)
      PROVE  NumberTypes'
  BY <1>0, <1>4 DEF SocketCall, Obtain
<1>5. ASSUME NEW o \in Objects, NEW p \in Objects,
             Accept(o, p)
      PROVE  NumberTypes'
  BY <1>0, <1>5 DEF Accept, Obtain
<1>6. ASSUME NEW o \in Objects,
             Close(o)
      PROVE  NumberTypes'
  BY <1>0, <1>6 DEF Close, Released, CloseFailed, Gone
<1>7. ASSUME NEW o \in Objects,
             Null(o)
      PROVE  NumberTypes'
  BY <1>0, <1>7 DEF Null, Gone
<1>8. CASE UNCHANGED <<build, osVars, m_socket, pc, caller>>
  BY <1>8
<1> QED BY <1>1, <1>2, <1>3, <1>4, <1>5, <1>6, <1>7, <1>8 DEF HandleCases

LEMMA OsTypesStep == HoldInv /\ [Next]_vars => OsTypes'
<1> SUFFICES ASSUME NumberTypes, OsTypes, PointInv, HandleCases PROVE OsTypes'
  BY HandleSteps DEF HoldInv, HandleTypes
<1> USE DEF OsTypes, osVars, PointInv, Lose
<1>0. \A o \in Objects : Valid(o) => m_socket[o] \in Fds
  BY DEF Valid, NumberTypes
<1>1. ASSUME NEW o \in Objects,
             Construct(o) \/ CallCreateSocket(o) \/ CallDestroySocket(o)
      PROVE  OsTypes'
  BY <1>0, <1>1 DEF Construct, CallCreateSocket, CallDestroySocket
<1>2. ASSUME NEW o \in Objects,
             Destruct(o) \/ CallConnect(o)
      PROVE  OsTypes'
  BY <1>0, <1>2 DEF Destruct, CallConnect, Gone
<1>3. ASSUME NEW o \in Objects,
             ConnectAddress(o) \/ ConnectFirst(o) \/ ConnectSecond(o)
      PROVE  OsTypes'
  BY <1>0, <1>3 DEF ConnectAddress, ConnectFirst, ConnectSecond, Connected, ConnectFailed
<1>4. ASSUME NEW o \in Objects,
             SocketCall(o)
      PROVE  OsTypes'
  BY <1>0, <1>4 DEF SocketCall, Obtain
<1>5. ASSUME NEW o \in Objects, NEW p \in Objects,
             Accept(o, p)
      PROVE  OsTypes'
  BY <1>0, <1>5 DEF Accept, Obtain
<1>6. ASSUME NEW o \in Objects,
             Close(o)
      PROVE  OsTypes'
  BY <1>0, <1>6 DEF Close, Released, CloseFailed, Gone
<1>7. ASSUME NEW o \in Objects,
             Null(o)
      PROVE  OsTypes'
  BY <1>0, <1>7 DEF Null, Gone
<1>8. CASE UNCHANGED <<build, osVars, m_socket, pc, caller>>
  BY <1>8
<1> QED BY <1>1, <1>2, <1>3, <1>4, <1>5, <1>6, <1>7, <1>8 DEF HandleCases

LEMMA PointStep == HoldInv /\ [Next]_vars => PointInv'
<1> SUFFICES ASSUME HandleTypes, PointInv, HandleCases PROVE PointInv'
  BY HandleSteps DEF HoldInv
<1> USE DEF PointInv, Valid, SOCKET_NULL, INVALID_SOCKET, osVars
<1>0. pc \in [Objects -> Points] /\ caller \in [Objects -> Callers]
        /\ m_socket \in [Objects -> Fds \union {INVALID_SOCKET}]
  BY DEF HandleTypes, PointTypes, NumberTypes
<1>1. ASSUME NEW o \in Objects,
             Construct(o) \/ CallCreateSocket(o) \/ CallDestroySocket(o)
      PROVE  PointInv'
  BY <1>0, <1>1 DEF Construct, CallCreateSocket, CallDestroySocket, Set, Enter, Goto, Throw
<1>2. ASSUME NEW o \in Objects, Destruct(o) \/ CallConnect(o)
      PROVE  PointInv'
  BY <1>0, <1>2 DEF Destruct, CallConnect, Set, Enter, Goto, Throw, Gone
<1>3. ASSUME NEW o \in Objects, ConnectAddress(o) \/ ConnectFirst(o) \/ ConnectSecond(o)
      PROVE  PointInv'
  BY <1>0, <1>3 DEF ConnectAddress, ConnectFirst, ConnectSecond, Connected, ConnectFailed,
                    Set, Enter, Goto, Throw, Return
<1>4. ASSUME NEW o \in Objects, SocketCall(o)
      PROVE  PointInv'
  BY <1>0, <1>4 DEF SocketCall, Obtain, Set, Enter, Goto, Throw, Return
<1>5. ASSUME NEW o \in Objects, NEW p \in Objects, Accept(o, p)
      PROVE  PointInv'
  BY <1>0, <1>5 DEF Accept, Obtain, Set, Goto
<1>6. ASSUME NEW o \in Objects, Close(o)
      PROVE  PointInv'
  BY <1>0, <1>6 DEF Close, CloseFailed, Gone, Set, Enter, Goto, Throw
<1>7. ASSUME NEW o \in Objects, Null(o)
      PROVE  PointInv'
  BY <1>0, <1>7 DEF Null, Gone, Set, Enter, Goto, Return
<1>8. CASE UNCHANGED <<build, osVars, m_socket, pc, caller>>
  BY <1>8
<1> QED BY <1>1, <1>2, <1>3, <1>4, <1>5, <1>6, <1>7, <1>8 DEF HandleCases
-----------------------------------------------------------------------------
(* Who holds what *)

\* Each step has one of five effects on who holds what.  The object keeps what
\* it holds, or that it holds nothing.
Keeps(o) ==
    /\ pc[o] \notin {"none", "null"}
    /\ \E l \in Points \ {"none", "null"} : Goto(o, l)
    /\ UNCHANGED <<desc, owner, lost, doubtful, m_socket>>

\* It ends with nothing, and what it held, if it did, is lost.
Drops(o) ==
    /\ pc[o] \notin {"none", "null"} /\ Valid(o) => m_socket[o] \in lost'
    /\ lost \subseteq lost'
    /\ \E l \in Points \ {"null"} : Goto(o, l)
    /\ \E s \in {SOCKET_NULL, INVALID_SOCKET} : Set(o, s)
    /\ UNCHANGED <<desc, owner, doubtful>>

\* It is given a descriptor that was free, or loses it at once if that is 0.
Gets(o) ==
    /\ pc[o] \in {"none", "create"}
    /\ \E f \in Fds :
          /\ desc[f] = "free"
          /\ desc' = [desc EXCEPT ![f] = "socket"]
          /\ owner' = [owner EXCEPT ![f] = o]
          /\ Set(o, f)
          /\ f = SOCKET_NULL => SOCKET_NULL \in lost'
          /\ \E l \in {"none", "ready"} : Goto(o, l) /\ (f # SOCKET_NULL => l = "ready")
    /\ lost \subseteq lost'
    /\ UNCHANGED doubtful

\* It closes its descriptor, and m_socket keeps the number until the next step.
Closed(o) ==
    /\ pc[o] = "close"
    /\ Released(m_socket[o])
    /\ Goto(o, "null")
    /\ UNCHANGED <<lost, doubtful, m_socket>>

\* A close() that reported an error and closed all the same.
Doubts(o) == Valid(o) /\ Released(m_socket[o]) /\ doubtful' = TRUE /\ lost' = lost

Effects ==
    \/ \E o \in Objects : Keeps(o) \/ Drops(o) \/ Gets(o) \/ Closed(o) \/ Doubts(o)
    \/ UNCHANGED <<desc, owner, lost, doubtful, m_socket, pc>>

LEMMA EffectSteps == HoldInv /\ [Next]_vars => Effects
<1> SUFFICES ASSUME HandleTypes, PointInv, HandleCases PROVE Effects
  BY HandleSteps DEF HoldInv
<1> USE DEF Effects
<1>0. /\ Points = {"none", "create", "ready", "close", "null", "first", "second"}
      /\ \A o \in Objects :
            /\ pc[o] = "create" => ~Valid(o)
            /\ pc[o] # "create" => caller[o] # "constructor"
            /\ pc[o] = "close" => Valid(o)
  BY DEF Points, PointInv
<1>1. ASSUME NEW o \in Objects, Construct(o)
      PROVE  Drops(o)
  BY <1>0, <1>1 DEF Construct, Drops, osVars
<1>2. ASSUME NEW o \in Objects, CallCreateSocket(o) \/ CallDestroySocket(o) \/ CallConnect(o)
      PROVE  Keeps(o)
  BY <1>0, <1>2 DEF CallCreateSocket, CallDestroySocket, CallConnect, Throw, Keeps, osVars
<1>3. ASSUME NEW o \in Objects, Destruct(o)
      PROVE  Keeps(o) \/ Drops(o)
  BY <1>0, <1>3 DEF Destruct, Gone, Keeps, Drops, osVars
<1>4. ASSUME NEW o \in Objects, ConnectAddress(o) \/ ConnectFirst(o) \/ ConnectSecond(o)
      PROVE  Keeps(o) \/ Drops(o)
  <2>1. CASE Connected(o) /\ pc[o] \in {"ready", "first", "second"}
               /\ UNCHANGED <<desc, owner, doubtful>>
    BY <1>0, <2>1 DEF Connected, Return, Keeps
  <2>2. CASE ConnectFailed(o) /\ pc[o] \in {"ready", "first"}
               /\ UNCHANGED <<desc, owner, doubtful>>
    BY <1>0, <2>2 DEF ConnectFailed, Throw, Lose, Drops
  <2>3. CASE UNCHANGED <<desc, owner, doubtful, m_socket, lost>> /\ pc[o] \in {"ready", "first"}
               /\ (Throw(o) \/ Goto(o, "second"))
    BY <1>0, <2>3 DEF Throw, Keeps
  <2> QED BY <1>4, <2>1, <2>2, <2>3 DEF ConnectAddress, ConnectFirst, ConnectSecond
<1>5. ASSUME NEW o \in Objects, SocketCall(o)
      PROVE  Gets(o) \/ Drops(o)
  <2>1. ~Valid(o) /\ (Throw(o) => \E l \in {"none", "ready"} : Goto(o, l))
    BY <1>0, <1>5 DEF SocketCall, Throw
  <2>2. ASSUME NEW f \in Fds, Obtain(f, o),
               IF f = SOCKET_NULL THEN Throw(o) /\ Lose({f}) ELSE Return(o) /\ UNCHANGED lost,
               pc[o] = "create", UNCHANGED doubtful
        PROVE  Gets(o)
    BY <2>1, <2>2 DEF Obtain, Return, Lose, Gets
  <2>3. CASE Throw(o) /\ (Set(o, INVALID_SOCKET) \/ UNCHANGED m_socket)
               /\ UNCHANGED <<desc, owner, lost, doubtful>>
    <3>1. m_socket = [m_socket EXCEPT ![o] = m_socket[o]]
             /\ m_socket[o] \in {SOCKET_NULL, INVALID_SOCKET}
      BY <2>1 DEF HandleTypes, NumberTypes, Valid
    <3> QED BY <1>0, <2>1, <2>3, <3>1 DEF Set, Drops
  <2> QED BY <1>5, <2>2, <2>3 DEF SocketCall
<1>6. ASSUME NEW o \in Objects, NEW p \in Objects, Accept(o, p)
      PROVE  Gets(p)
  BY <1>0, <1>6 DEF Accept, Obtain, Lose, Gets
<1>7. ASSUME NEW o \in Objects, Close(o)
      PROVE  Keeps(o) \/ Drops(o) \/ Closed(o) \/ Doubts(o)
  BY <1>0, <1>7 DEF Close, CloseFailed, Gone, Throw, Lose, Keeps, Drops, Closed, Doubts
<1>8. ASSUME NEW o \in Objects, Null(o)
      PROVE  Drops(o)
  BY <1>0, <1>8 DEF Null, Gone, Return, Drops, osVars
<1>9. CASE UNCHANGED <<build, osVars, m_socket, pc, caller>>
  BY <1>9 DEF osVars
<1> QED BY <1>1, <1>2, <1>3, <1>4, <1>5, <1>6, <1>7, <1>8, <1>9 DEF HandleCases

\* Number 0 is lost when the system gives it out.
LEMMA ZeroStep == HoldInv /\ [Next]_vars => ZeroInv'
<1> SUFFICES ASSUME HoldInv, Effects PROVE ZeroInv'
  BY EffectSteps
<1> USE DEF ZeroInv, HoldInv, HandleTypes, OsTypes, NumberTypes
<1>1. ASSUME NEW o \in Objects, Keeps(o) \/ Drops(o) PROVE ZeroInv'
  BY <1>1 DEF Keeps, Drops
<1>2. ASSUME NEW o \in Objects, Gets(o) PROVE ZeroInv'
  BY <1>2 DEF Gets
<1>3. ASSUME NEW o \in Objects, Closed(o) \/ Doubts(o) PROVE ZeroInv'
  <2>1. desc' = [desc EXCEPT ![m_socket[o]] = "free"] /\ lost' = lost
    BY <1>3 DEF Closed, Doubts, Released
  <2> QED BY <2>1
<1> QED BY <1>1, <1>2, <1>3 DEF Effects

\* A number is given to another object only after it was closed, and it is
\* closed only by the object that holds it.
LEMMA HeldStep == HoldInv /\ [Next]_vars => HeldInv'
<1> SUFFICES ASSUME HoldInv, Effects, ~doubtful', NEW q \in Objects PROVE Holder(q)'
  BY EffectSteps DEF HeldInv
<1>0. /\ desc \in [Fds -> {"free", "socket", "other"}]
      /\ owner \in [Fds -> Objects \union {Nobody}]
      /\ lost \subseteq Fds
      /\ m_socket \in [Objects -> Fds \union {INVALID_SOCKET}]
      /\ pc \in [Objects -> Points]
      /\ \A o \in Objects : Valid(o) => m_socket[o] \in Fds /\ m_socket[o] # SOCKET_NULL
      /\ \A o \in Objects : pc[o] = "close" => Valid(o)
      /\ ZeroInv
  BY DEF HoldInv, HandleTypes, OsTypes, NumberTypes, PointTypes, PointInv, Valid
<1>1. ~doubtful => HeldInv /\ SocketsHeld
  BY DEF HoldInv
<1>2. ASSUME NEW o \in Objects, Keeps(o) \/ Drops(o) PROVE Holder(q)'
  BY <1>0, <1>1, <1>2 DEF Keeps, Drops, Goto, Set, Valid, HeldInv, Holder
<1>3. ASSUME NEW o \in Objects, Gets(o) PROVE Holder(q)'
  BY <1>0, <1>1, <1>3 DEF Gets, Goto, Set, Valid, HeldInv, Holder
<1>4. ASSUME NEW o \in Objects, Closed(o) PROVE Holder(q)'
  BY <1>0, <1>1, <1>4 DEF Closed, Released, Goto, Valid, HeldInv, Holder, SocketsHeld
<1> QED BY <1>1, <1>2, <1>3, <1>4 DEF Effects, Doubts, HeldInv, Holder, Valid

\* An open socket is lost when its object lets go of it.
LEMMA SocketsHeldStep == HoldInv /\ [Next]_vars => SocketsHeld'
<1> SUFFICES ASSUME HoldInv, Effects, ~doubtful',
                    NEW f \in Fds, f \notin lost', desc'[f] = "socket"
             PROVE  \E o \in Objects : owner'[f] = o /\ pc'[o] # "none" /\ m_socket'[o] = f
  BY EffectSteps DEF SocketsHeld, Fds
<1>0. /\ desc \in [Fds -> {"free", "socket", "other"}]
      /\ owner \in [Fds -> Objects \union {Nobody}]
      /\ lost \subseteq Fds
      /\ m_socket \in [Objects -> Fds \union {INVALID_SOCKET}]
      /\ pc \in [Objects -> Points]
      /\ \A o \in Objects : m_socket[o] \in Fds \ {SOCKET_NULL} => Valid(o)
      /\ ZeroInv
  BY DEF HoldInv, HandleTypes, OsTypes, NumberTypes, PointTypes, Valid, Fds, INVALID_SOCKET
<1>1. ~doubtful => HeldInv /\ SocketsHeld
  BY DEF HoldInv
<1>2. CASE \E o \in Objects : Keeps(o)
  BY <1>0, <1>1, <1>2 DEF Keeps, Goto, SocketsHeld
<1>3. ASSUME NEW o \in Objects, Drops(o)
      PROVE  \E q \in Objects : owner'[f] = q /\ pc'[q] # "none" /\ m_socket'[q] = f
  <2>1. ~doubtful /\ f \notin lost /\ desc[f] = "socket" /\ f # SOCKET_NULL
    BY <1>0, <1>3 DEF Drops, ZeroInv
  <2>2. PICK q \in Objects : owner[f] = q /\ pc[q] # "none" /\ m_socket[q] = f
    BY <1>1, <2>1 DEF SocketsHeld
  <2>3. pc[q] # "null"
    BY <1>1, <2>1, <2>2 DEF HeldInv, Holder
  <2>4. q # o
    BY <1>0, <1>3, <2>1, <2>2, <2>3 DEF Drops
  <2> QED BY <1>0, <1>3, <2>2, <2>4 DEF Drops, Goto, Set
<1>4. ASSUME NEW o \in Objects, Gets(o)
      PROVE  \E q \in Objects : owner'[f] = q /\ pc'[q] # "none" /\ m_socket'[q] = f
  <2>1. PICK g \in Fds : /\ desc[g] = "free"
                         /\ desc' = [desc EXCEPT ![g] = "socket"]
                         /\ owner' = [owner EXCEPT ![g] = o]
                         /\ Set(o, g)
                         /\ g = SOCKET_NULL => SOCKET_NULL \in lost'
                         /\ \E l \in {"none", "ready"} :
                               Goto(o, l) /\ (g # SOCKET_NULL => l = "ready")
    BY <1>4 DEF Gets
  <2>2. CASE f = g
    BY <1>0, <2>1, <2>2 DEF Goto, Set
  <2>3. CASE f # g
    <3>1. ~doubtful /\ f \notin lost /\ desc[f] = "socket" /\ f # SOCKET_NULL
      BY <1>0, <1>4, <2>1, <2>3 DEF Gets, ZeroInv
    <3>2. PICK q \in Objects : owner[f] = q /\ pc[q] # "none" /\ m_socket[q] = f
      BY <1>1, <3>1 DEF SocketsHeld
    <3>3. q # o
      BY <1>0, <1>4, <3>1, <3>2 DEF Gets, HoldInv, PointInv
    <3> QED BY <1>0, <2>1, <2>3, <3>2, <3>3 DEF Goto, Set
  <2> QED BY <2>2, <2>3
<1>5. ASSUME NEW o \in Objects, Closed(o)
      PROVE  \E q \in Objects : owner'[f] = q /\ pc'[q] # "none" /\ m_socket'[q] = f
  BY <1>0, <1>1, <1>5 DEF Closed, Released, Goto, SocketsHeld
<1> QED BY <1>1, <1>2, <1>3, <1>4, <1>5 DEF Effects, Doubts, SocketsHeld

LEMMA HoldStep == HoldInv /\ [Next]_vars => HoldInv'
BY PointTypesStep, NumberTypesStep, OsTypesStep, PointStep, ZeroStep, HeldStep,
   SocketsHeldStep DEF HoldInv, HandleTypes

LEMMA HoldInit == Init => HoldInv
<1> SUFFICES ASSUME Init PROVE HoldInv
  OBVIOUS
<1>1. HandleTypes
  BY DEF Init, HandleInit, HandleTypes, PointTypes, NumberTypes, OsTypes, Points, Callers,
         Fds, SOCKET_NULL
<1>2. PointInv
  BY DEF Init, HandleInit, PointInv, Valid
<1>3. \A f \in Fds : desc[f] # "socket"
  BY DEF Init, HandleInit
<1>4. ZeroInv /\ HeldInv /\ SocketsHeld
  BY <1>3 DEF Init, HandleInit, ZeroInv, HeldInv, Holder, SocketsHeld, Valid, Fds, SOCKET_NULL
<1> QED BY <1>1, <1>2, <1>4 DEF HoldInv

-----------------------------------------------------------------------------
(* The exchanges over sockets *)

FlowTypes ==
    /\ flow \in [Objects -> {"none", "SendGet", "SendFile"}]
    /\ step \in [Objects -> {"none", "connect", "send", "shutdown", "measure", "open", "head",
                             "body", "reply", "destroy", "disconnect", "return", "gone"}]
    /\ announced \in [Objects -> Nat] /\ length \in [Objects -> Nat] /\ sent \in [Objects -> Nat]
    /\ file \in [Objects -> -1..MaxFile]

\* What has been sent of the request, by control point of the function.
Sending(o) ==
    /\ step[o] \in {"send", "shutdown", "destroy"} => flow[o] = "SendGet"
    /\ step[o] = "head" => file[o] >= 0 /\ announced[o] = Announce(o) /\ sent[o] = 0
    /\ step[o] = "body" =>
          file[o] >= 0 /\ announced[o] = Announce(o) /\ sent[o] \in 1..(file[o] + 1)
    /\ step[o] \in {"reply", "disconnect", "return"} /\ flow[o] = "SendFile" =>
          \/ file[o] = -1 /\ announced[o] = 0 /\ sent[o] = 0
          \/ file[o] >= 0 /\ announced[o] = Announce(o) /\ sent[o] = file[o] + 2

FlowInv == FlowTypes /\ \A o \in Objects : Sending(o)

FlowCases ==
    \/ \E o \in Objects : BeginFlow(o, "SendGet") \/ BeginFlow(o, "SendFile") \/ ConnectFlow(o)
                          \/ SendRequest(o) \/ ShutDown(o) \/ DestroyFlow(o)
    \/ \E o \in Objects : Measure(o) \/ OpenFlow(o)
    \/ \E o \in Objects : SendHead(o) \/ SendBody(o) \/ SendEnd(o)
    \/ \E o \in Objects : Reply(o) \/ DisconnectFlow(o) \/ Leave(o) \/ EndFlow(o)
    \/ UNCHANGED flowVars

\* The length announced is a size_t, and exact for a file of less than 2 GB.
LEMMA Announced ==
    ASSUME FlowTypes, NEW o \in Objects
    PROVE  /\ Announce(o) \in Nat
           /\ 2 * length[o] < Word => Announce(o) = 2 + length[o]
<1> DEFINE n == length[o]
<1>1. n \in Nat
  BY DEF FlowTypes
<1> HIDE DEF n
<1>2. fileSize(n) \in Int /\ (2 * n < Word => fileSize(n) = n)
  BY <1>1 DEF fileSize
<1>3. 2 * n < Word => 2 + n \in Nat /\ 2 + n < SizeT
  BY <1>1
<1>4. \A i \in Int : i % SizeT \in Nat
  OBVIOUS
<1>5. \A i \in Nat : i < SizeT => i % SizeT = i
  OBVIOUS
<1>6. Announce(o) = (2 + fileSize(n)) % SizeT
  BY DEF Announce, n
<1> QED BY <1>1, <1>2, <1>3, <1>4, <1>5, <1>6 DEF n

LEMMA FlowSteps == [Next]_vars => FlowCases
BY DEF Next, FlowStep, FlowCases, vars

LEMMA FlowInit == Init => FlowInv
BY DEF Init, FlowInv, FlowTypes, Sending

LEMMA FlowTypesStep == FlowInv /\ [Next]_vars => FlowTypes'
<1> SUFFICES ASSUME FlowTypes, FlowCases PROVE FlowTypes'
  BY FlowSteps DEF FlowInv
<1> USE DEF FlowTypes, body, Go, Raise, Step
<1>1. ASSUME NEW o \in Objects,
             BeginFlow(o, "SendGet") \/ BeginFlow(o, "SendFile") \/ ConnectFlow(o)
      PROVE  FlowTypes'
  BY <1>1 DEF BeginFlow, ConnectFlow
<1>2. ASSUME NEW o \in Objects, SendRequest(o) \/ ShutDown(o) \/ DestroyFlow(o)
      PROVE  FlowTypes'
  BY <1>2 DEF SendRequest, ShutDown, DestroyFlow
<1>3. ASSUME NEW o \in Objects, Measure(o)
      PROVE  FlowTypes'
  BY <1>3 DEF Measure
<1>4. ASSUME NEW o \in Objects, OpenFlow(o)
      PROVE  FlowTypes'
  BY <1>4, Announced DEF OpenFlow
<1>5. ASSUME NEW o \in Objects, SendHead(o) \/ SendBody(o) \/ SendEnd(o)
      PROVE  FlowTypes'
  <2>1. \/ sent' = [sent EXCEPT ![o] = sent[o] + 1]
             /\ \E l \in {"body", "reply"} : step' = [step EXCEPT ![o] = l]
        \/ UNCHANGED <<sent, step>>
    BY <1>5 DEF SendHead, SendBody, SendEnd, SendUnit
  <2>2. UNCHANGED <<flow, announced, length, file>>
    BY <1>5 DEF SendHead, SendBody, SendEnd, SendUnit
  <2> QED BY <2>1, <2>2
<1>6. ASSUME NEW o \in Objects, Reply(o) \/ DisconnectFlow(o) \/ Leave(o)
      PROVE  FlowTypes'
  BY <1>6 DEF Reply, DisconnectFlow, Leave
<1>7. ASSUME NEW o \in Objects, EndFlow(o)
      PROVE  FlowTypes'
  BY <1>7 DEF EndFlow
<1>8. CASE UNCHANGED flowVars
  BY <1>8 DEF flowVars
<1> QED BY <1>1, <1>2, <1>3, <1>4, <1>5, <1>6, <1>7, <1>8 DEF FlowCases

\* Send() puts a unit on the wire and the function goes on, or it throws.
LEMMA UnitSteps ==
    ASSUME NEW o \in Objects, NEW l, SendUnit(o, l)
    PROVE  /\ \/ sent' = [sent EXCEPT ![o] = sent[o] + 1] /\ step' = [step EXCEPT ![o] = l]
              \/ UNCHANGED <<sent, step>>
           /\ UNCHANGED <<flow, announced, length, file>>
BY DEF SendUnit, Go, Raise, Step

\* A step of one object sends for that object alone.
LEMMA SendingStep == FlowInv /\ [Next]_vars => \A o \in Objects : Sending(o)'
<1> SUFFICES ASSUME FlowTypes, \A o \in Objects : Sending(o), FlowCases, NEW q \in Objects
             PROVE  Sending(q)'
  BY FlowSteps DEF FlowInv
<1> USE DEF FlowTypes, Sending, Announce, body, Go, Raise, Step, At
<1>1. ASSUME NEW o \in Objects,
             BeginFlow(o, "SendGet") \/ BeginFlow(o, "SendFile") \/ ConnectFlow(o)
      PROVE  Sending(q)'
  BY <1>1 DEF BeginFlow, ConnectFlow
<1>2. ASSUME NEW o \in Objects, SendRequest(o) \/ ShutDown(o) \/ DestroyFlow(o)
      PROVE  Sending(q)'
  BY <1>2 DEF SendRequest, ShutDown, DestroyFlow
<1>3. ASSUME NEW o \in Objects, Measure(o)
      PROVE  Sending(q)'
  BY <1>3 DEF Measure
<1>4. ASSUME NEW o \in Objects, OpenFlow(o)
      PROVE  Sending(q)'
  BY <1>4 DEF OpenFlow
<1>5. ASSUME NEW o \in Objects, SendHead(o)
      PROVE  Sending(q)'
  BY <1>5, UnitSteps DEF SendHead
<1>6. ASSUME NEW o \in Objects, SendBody(o) \/ SendEnd(o)
      PROVE  Sending(q)'
  <2>1. CASE SendBody(o) BY <2>1, UnitSteps DEF SendBody
  <2>2. CASE SendEnd(o) BY <2>2, UnitSteps DEF SendEnd
  <2> QED BY <1>6, <2>1, <2>2
<1>7. ASSUME NEW o \in Objects, Reply(o) \/ DisconnectFlow(o) \/ Leave(o)
      PROVE  Sending(q)'
  BY <1>7 DEF Reply, DisconnectFlow, Leave
<1>8. ASSUME NEW o \in Objects, EndFlow(o)
      PROVE  Sending(q)'
  BY <1>8 DEF EndFlow
<1>9. CASE UNCHANGED flowVars
  BY <1>9 DEF flowVars
<1> QED BY <1>1, <1>2, <1>3, <1>4, <1>5, <1>6, <1>7, <1>8, <1>9 DEF FlowCases

LEMMA FlowInvStep == FlowInv /\ [Next]_vars => FlowInv'
BY FlowTypesStep, SendingStep DEF FlowInv

-----------------------------------------------------------------------------
(* The functions over WinInet *)

InetPoints == {"idle", "file", "size", "open", "connect", "request", "headers", "send",
               "header", "chunk", "footer", "check", "read"}

InetTypes ==
    /\ function \in Inet!Functions \union {"none"}
    /\ at \in InetPoints
    /\ outcome \in {"ok", "threw"}
    /\ handles \subseteq {"hFile", "hNet", "hCon", "hReq"}
    /\ size \in Nat /\ position \in Nat /\ total \in Nat /\ sum \in Nat /\ written \in Nat

\* SendGetInet opens no file, only SendFileFormInet asks for its own steps, and
\* size_low is 0 until GetFileSize.
PathInv ==
    /\ at # "idle" => function # "none" /\ outcome = "ok"
    /\ function = "SendGetInet" => "hFile" \notin handles
    /\ at = "send" => function # "SendFileFormInet"
    /\ at \in {"file", "size"} => size = 0 /\ function # "SendGetInet"
    /\ Inet!HandlesClosed

\* What SendFileFormInet has written by each control point, for a file whose
\* length leaves room for header and footer in a DWORD: never more than it has
\* read, so that the sum it counts has not wrapped when it is compared.
AmountInv ==
    function = "SendFileFormInet" /\ outcome = "ok" /\ size + 2 < Word =>
        /\ at \notin {"read", "idle"} => sum = written
        /\ at \in {"file", "size", "open", "connect", "request", "headers", "header"} =>
              written = 0 /\ position = 0
        /\ at \in {"header", "chunk", "footer", "check"} => total = size + 2
        /\ at = "chunk" => written <= 1 + position /\ position <= size
        /\ at = "footer" => written <= 1 + size
        /\ at = "check" => written <= 2 + size
        /\ at \in {"read", "idle"} => written = total /\ written = size + 2

InetInv == InetTypes /\ PathInv /\ AmountInv

InetCases ==
    \/ \E f \in Inet!Functions : Inet!Begin(f)
    \/ Inet!OpenFile \/ Inet!InternetOpen \/ Inet!InternetConnect \/ Inet!HttpOpenRequest
    \/ Inet!FileSize \/ Inet!SendRequest \/ Inet!SendHeaders
    \/ Inet!WriteHeader \/ Inet!WriteChunk \/ Inet!WriteFooter \/ Inet!Check
    \/ Inet!ReadBuffer \/ Inet!ReadFailed \/ Inet!Return
    \/ UNCHANGED inetVars

LEMMA InetSteps == [Next]_vars => InetCases
BY DEF Next, Inet!Step, InetCases, vars

LEMMA InetInit == Init => InetInv
BY DEF Init, Inet!Init, Inet!HandlesClosed, InetInv, InetTypes, InetPoints, PathInv, AmountInv

\* A DWORD holds what is less than 2^32.
LEMMA SmallMod == ASSUME NEW n \in Nat, n < Word PROVE n % Word = n
OBVIOUS

\* A function that fails has closed all it opened, except GetFileInet.
LEMMA FailCloses ==
    ASSUME InetTypes, PathInv, at # "idle", Inet!Fail
    PROVE  InetTypes' /\ PathInv' /\ AmountInv'
<1> USE DEF InetTypes, InetPoints, Inet!Functions, PathInv, Inet!HandlesClosed, Inet!Fail,
            Inet!transfer
<1>1. CASE function = "SendFileFormInet"
  BY <1>1 DEF Inet!ClosedOnError, Inet!CloseAll, Inet!Closes, AmountInv
<1>2. CASE function = "SendGetInet"
  BY <1>2 DEF Inet!ClosedOnError, Inet!CloseAll, Inet!Closes, AmountInv
<1>3. CASE function = "GetFileInet"
  BY <1>3 DEF Inet!CloseAll, AmountInv
<1> QED BY <1>1, <1>2, <1>3

\* A call that opens h adds it to what must be closed.
LEMMA OpenSteps ==
    ASSUME InetInv,
           Inet!OpenFile \/ Inet!InternetOpen \/ Inet!InternetConnect \/ Inet!HttpOpenRequest
    PROVE  InetInv'
<1> USE DEF InetInv
<1>1. CASE Inet!Fail /\ at # "idle"
  BY <1>1, FailCloses
<1>2. CASE ~Inet!Fail
  <2> USE DEF InetTypes, InetPoints, Inet!Functions, PathInv, Inet!HandlesClosed, AmountInv,
              Inet!Open, Inet!transfer
  <2>1. CASE Inet!OpenFile
    <3>1. /\ handles' = handles \union {"hFile"}
          /\ at = "file" /\ at' = IF function = "SendFileFormInet" THEN "size" ELSE "open"
          /\ UNCHANGED <<function, outcome, size, position, total, sum, written>>
      BY <1>2, <2>1 DEF Inet!OpenFile
    <3> QED BY <3>1
  <2>2. CASE Inet!InternetOpen \/ Inet!InternetConnect
    BY <1>2, <2>2 DEF Inet!InternetOpen, Inet!InternetConnect
  <2>3. CASE Inet!HttpOpenRequest
    BY <1>2, <2>3 DEF Inet!HttpOpenRequest
  <2> QED BY <2>1, <2>2, <2>3
<1> QED BY <1>1, <1>2 DEF Inet!OpenFile, Inet!InternetOpen, Inet!InternetConnect,
                          Inet!HttpOpenRequest, Inet!Open

LEMMA InetStep == InetInv /\ [Next]_vars => InetInv'
<1> SUFFICES ASSUME InetInv, InetCases PROVE InetInv'
  BY InetSteps
<1> USE DEF InetInv
<1>1. ASSUME NEW f \in Inet!Functions, Inet!Begin(f)
      PROVE  InetInv'
  BY <1>1 DEF Inet!Begin, InetTypes, InetPoints, Inet!Functions, PathInv, Inet!HandlesClosed,
              AmountInv
<1>2. CASE Inet!OpenFile \/ Inet!InternetOpen \/ Inet!InternetConnect \/ Inet!HttpOpenRequest
  BY <1>2, OpenSteps
<1>3. CASE Inet!Fail /\ at # "idle"
  BY <1>3, FailCloses
<1>4. CASE Inet!FileSize \/ Inet!SendRequest \/ Inet!SendHeaders
  <2> USE DEF InetTypes, InetPoints, Inet!Functions, PathInv, Inet!HandlesClosed, AmountInv,
              Inet!Continue, Inet!transfer
  <2>1. CASE Inet!FileSize /\ ~Inet!Fail
    <3>1. /\ at = "size" /\ at' = "open" /\ size' \in Nat
          /\ size' + 2 < Word => 2 < Word
          /\ UNCHANGED <<function, outcome, handles, position, total, sum, written>>
      BY <2>1 DEF Inet!FileSize
    <3>2. function = "SendFileFormInet" /\ outcome = "ok" /\ size' + 2 < Word =>
             sum = written /\ written = 0 /\ position = 0
      BY <3>1
    <3>3. InetTypes' /\ PathInv'
      BY <3>1
    <3>4. AmountInv'
      BY <3>1, <3>2
    <3> QED BY <3>3, <3>4
  <2>2. CASE Inet!SendRequest /\ ~Inet!Fail
    BY <2>2 DEF Inet!SendRequest
  <2>3. CASE Inet!SendHeaders /\ ~Inet!Fail
    <3>1. Inet!Total \in Nat /\ (size + 2 < Word => Inet!Total = size + 2)
      BY SmallMod DEF Inet!Total
    <3> QED BY <2>3, <3>1 DEF Inet!SendHeaders
  <2> QED BY <1>3, <1>4, <2>1, <2>2, <2>3 DEF Inet!FileSize, Inet!SendRequest, Inet!SendHeaders
<1>5. CASE Inet!WriteHeader \/ Inet!WriteChunk \/ Inet!WriteFooter
  <2> USE DEF InetTypes, InetPoints, Inet!Functions, PathInv, Inet!HandlesClosed, AmountInv,
              Inet!Continue
  <2>0. ASSUME NEW n \in 0..1, NEW l, Inet!Write(n, l)
        PROVE  \E w \in 0..n :
                  /\ written' = written + w
                  /\ sum' \in Nat
                  /\ sum = written /\ sum + w < Word => sum' = written'
                  /\ at' = l
                  /\ UNCHANGED <<function, outcome, handles, size, total>>
    <3>1. PICK w \in 0..n : written' = written + w /\ sum' = (sum + w) % Word
      BY <2>0 DEF Inet!Write
    <3>2. sum + w \in Nat /\ (sum + w < Word => (sum + w) % Word = sum + w)
      BY SmallMod
    <3> QED BY <2>0, <3>1, <3>2 DEF Inet!Write
  <2>1. CASE Inet!WriteHeader /\ ~Inet!Fail
    <3>1. Inet!Write(1, "chunk") /\ UNCHANGED position /\ at = "header"
      BY <2>1 DEF Inet!WriteHeader
    <3>2. PICK w \in 0..1 :
             /\ written' = written + w
             /\ sum' \in Nat
             /\ sum = written /\ sum + w < Word => sum' = written'
             /\ at' = "chunk"
             /\ UNCHANGED <<function, outcome, handles, size, total>>
      BY <2>0, <3>1
    <3> QED BY <3>1, <3>2
  <2>2. CASE Inet!WriteChunk /\ ~Inet!Fail
    <3> DEFINE n == IF position < size THEN 1 ELSE 0
    <3>1. position' = position + n /\ Inet!Write(n, IF n = 1 THEN "chunk" ELSE "footer")
            /\ at = "chunk"
      BY <2>2 DEF Inet!WriteChunk
    <3>2. PICK w \in 0..n :
             /\ written' = written + w
             /\ sum' \in Nat
             /\ sum = written /\ sum + w < Word => sum' = written'
             /\ at' = IF n = 1 THEN "chunk" ELSE "footer"
             /\ UNCHANGED <<function, outcome, handles, size, total>>
      BY <2>0, <3>1
    <3> QED BY <3>1, <3>2
  <2>3. CASE Inet!WriteFooter /\ ~Inet!Fail
    <3>1. Inet!Write(1, "check") /\ UNCHANGED position /\ at = "footer"
      BY <2>3 DEF Inet!WriteFooter
    <3>2. PICK w \in 0..1 :
             /\ written' = written + w
             /\ sum' \in Nat
             /\ sum = written /\ sum + w < Word => sum' = written'
             /\ at' = "check"
             /\ UNCHANGED <<function, outcome, handles, size, total>>
      BY <2>0, <3>1
    <3> QED BY <3>1, <3>2
  <2> QED BY <1>3, <1>5, <2>1, <2>2, <2>3 DEF Inet!WriteHeader, Inet!WriteChunk,
                                              Inet!WriteFooter
<1>6. CASE Inet!Check /\ ~Inet!Fail
  BY <1>6 DEF Inet!Check, InetTypes, InetPoints, PathInv, Inet!HandlesClosed, AmountInv,
              Inet!Continue, Inet!transfer
<1>7. CASE Inet!ReadBuffer
  BY <1>7 DEF Inet!ReadBuffer, InetTypes, InetPoints, PathInv, Inet!HandlesClosed, AmountInv
<1>8. CASE Inet!Return
  <2> USE DEF Inet!Return, InetTypes, InetPoints, PathInv, Inet!HandlesClosed, AmountInv,
              Inet!Functions, Inet!transfer
  <2>1. handles' = {}
    BY <1>8 DEF Inet!CloseAll, Inet!Closes
  <2> QED BY <1>8, <2>1
<1>9. CASE UNCHANGED inetVars
  BY <1>9 DEF inetVars, InetTypes, PathInv, Inet!HandlesClosed, AmountInv
<1> QED BY <1>1, <1>2, <1>3, <1>4, <1>5, <1>6, <1>7, <1>8, <1>9
        DEF InetCases, Inet!Check, Inet!ReadFailed

-----------------------------------------------------------------------------
(* The theorems *)

IInv == HoldInv /\ FlowInv /\ InetInv

\* IInv is an inductive invariant of the sockets and of the static functions.
THEOREM Invariant == Spec => []IInv
<1>1. Init => IInv
  BY HoldInit, FlowInit, InetInit DEF IInv
<1>2. IInv /\ [Next]_vars => IInv'
  BY HoldStep, FlowInvStep, InetStep DEF IInv
<1> QED BY <1>1, <1>2, PTL DEF Spec

\* Socket.cpp:108-114: DestroySocket closes the socket its own object obtained,
\* and none that another object was given under the same number, whatever the
\* threads do in between.
THEOREM ObjectsCloseTheirOwn == Spec => []ClosesOwn
<1>1. IInv => ClosesOwn
  <2> SUFFICES ASSUME HoldInv, ~doubtful, NEW o \in Objects, pc[o] = "close"
               PROVE  desc[m_socket[o]] = "socket" /\ owner[m_socket[o]] = o
    BY DEF IInv, ClosesOwn
  <2> QED BY DEF HoldInv, HeldInv, Holder, PointInv
<1> QED BY Invariant, <1>1, PTL

\* Every open socket that was not forgotten has the object that will close it,
\* and the functions over WinInet have closed all handles when they end, except
\* GetFileInet after an exception.
THEOREM NothingIsLost == Spec => []NothingLost
<1>1. IInv => NothingLost
  BY DEF IInv, HoldInv, InetInv, PathInv, NothingLost
<1> QED BY Invariant, <1>1, PTL

\* HttpSocket.cpp:134-171, 296-320: a request that was sent to its end is as long as
\* its Content-Length, for every length of the file below 2 GB, from where on
\* File::fileSize() is negative or 0, and over WinInet for every length that with
\* header and footer is less than 4 GB.
THEOREM RequestsAreWhole == Spec => []RequestWhole
<1>1. IInv => RequestWhole
  <2> SUFFICES ASSUME IInv PROVE RequestWhole
    OBVIOUS
  <2>1. ASSUME NEW o \in Objects, step[o] \in {"reply", "disconnect", "return"},
               flow[o] = "SendFile", file[o] \in {-1, length[o]}, 2 * length[o] < Word
        PROVE  sent[o] = announced[o]
    BY <2>1, Announced DEF IInv, FlowInv, FlowTypes, Sending
  <2>2. Inet!AnnouncedIsWritten
    BY DEF IInv, InetInv, AmountInv, Inet!AnnouncedIsWritten
  <2> QED BY <2>1, <2>2 DEF RequestWhole
<1> QED BY Invariant, <1>1, PTL
=============================================================================
