---------------------------- MODULE WorkerProofs ----------------------------
(* Theorems about Worker, for every set of clients and commands, every set   *)
(* of control methods, every bound and both implementations of Condition.    *)
(*                                                                           *)
(* The inductive invariant has four parts, each a conjunction that one lemma *)
(* shows to be preserved: who holds which command (TypeInv), who is inside   *)
(* mListMutex (LockInv), the order of the queue (OrderInv), and what has     *)
(* been deleted (FreeInv).  On it rest the refinement of CommandQueue and the *)
(* promise of enqueue_unique, at the end.                                    *)
EXTENDS Worker, TLAPS

USE ClientsAssumption, CommandsAssumption, ControlsAssumption,
    MaxControlAssumption, BuildsAssumption

-----------------------------------------------------------------------------
(* The steps of the system, grouped by what they can disturb *)

\* Control points of run() at which it holds neither the mutex nor a command.
Outside == RunnerLabels \ {"get", "clear", "empty", "execute", "delete"}

\* A step of run() between such points touches only its own control state, the
\* status and the event.
Quiet ==
    /\ pc[Runner] \in Outside
    /\ \E l \in Outside : pc' = [pc EXCEPT ![Runner] = l]
    /\ mStatus' \in Status /\ event' \in BOOLEAN /\ draining' \in BOOLEAN
    /\ UNCHANGED <<build, mQueue, listLock, command, arg, calls, freed, history>>

\* Each pure jump, wait, wake-up and unlocked write of run() is Quiet.
LEMMA QuietSteps ==
    ASSUME TypeOK,
           \/ Start \/ TestRunning \/ TestPause \/ TestTerm \/ TestSize \/ RunOne
           \/ TestNull \/ SetEnd \/ Wait \/ Wake \/ Reset \/ SpuriousWake
    PROVE  Quiet
<1> USE DEF Quiet, Outside, RunnerLabels, Goto, TypeOK, Status, local, LoopLabel, Threads
<1>1. CASE Start BY <1>1 DEF Start
<1>2. CASE TestRunning BY <1>2 DEF TestRunning, Jump
<1>3. CASE TestPause BY <1>3 DEF TestPause, Jump
<1>4. CASE TestTerm BY <1>4 DEF TestTerm, Jump
<1>5. CASE TestSize BY <1>5 DEF TestSize, Jump
<1>6. CASE RunOne BY <1>6 DEF RunOne, Jump
<1>7. CASE TestNull BY <1>7 DEF TestNull, Jump
<1>8. CASE SetEnd BY <1>8 DEF SetEnd
<1>9. CASE Wait BY <1>9 DEF Wait, Jump
<1>10. CASE Wake BY <1>10 DEF Wake
<1>11. CASE Reset BY <1>11 DEF Reset
<1>12. CASE SpuriousWake BY <1>12 DEF SpuriousWake, Jump
<1> QED BY <1>1, <1>2, <1>3, <1>4, <1>5, <1>6, <1>7, <1>8, <1>9, <1>10, <1>11, <1>12

\* The case distinction every invariance proof below uses.
Cases ==
    \/ \E c \in Clients, x \in Commands : CallEnqueue(c, x)
    \/ \E c \in Clients, op \in Controls : CallControl(c, op)
    \/ \E c \in Clients : Refuse(c) \/ Admit(c) \/ Push(c) \/ SetStatus(c) \/ Notify(c)
    \/ \E t \in Threads : ClearDelete(t) \/ ClearEmpty(t)
    \/ GetLock \/ Get \/ Execute \/ Delete \/ FinishLock
    \/ Quiet
    \/ UNCHANGED vars

LEMMA StepCases == TypeOK /\ [Next]_vars => Cases
<1> SUFFICES ASSUME TypeOK, [Next]_vars PROVE Cases
  OBVIOUS
<1>1. CASE \E c \in Clients : ClientCall(c) \/ ClientStep(c)
  BY <1>1 DEF ClientCall, ClientStep, Cases, Threads
<1>2. CASE RunnerStep
  BY <1>2, QuietSteps DEF RunnerStep, Cases, Threads
<1>3. CASE SpuriousWake
  BY <1>3, QuietSteps DEF Cases
<1>4. CASE UNCHANGED vars
  BY <1>4 DEF Cases
<1> QED  BY <1>1, <1>2, <1>3, <1>4 DEF Next

-----------------------------------------------------------------------------
(* Type correctness *)

\* A client has a command exactly while it is adding one, and run() exactly
\* between taking one and deleting it.
HoldInv ==
    /\ \A c \in Clients : pc[c] \in {"scan", "push"} <=> arg[c] # NoCommand
    /\ pc[Runner] \in {"execute", "delete"} <=> command # NoCommand

TypeInv == TypeOK /\ HoldInv

LEMMA TypeInit == Init => TypeInv
<1> SUFFICES ASSUME Init PROVE TypeInv
  OBVIOUS
<1> USE DEF Init, Threads
<1>1. pc[Runner] = "born" /\ \A c \in Clients : pc[c] = "idle"
  OBVIOUS
<1>2. TypeOK
  <2>1. pc \in [Threads -> ClientLabels \union RunnerLabels]
    BY DEF ClientLabels, RunnerLabels
  <2>2. calls \in 0..MaxControl
    OBVIOUS
  <2>3. /\ arg \in [Clients -> Commands \union {NoCommand}]
        /\ ticket \in [Commands -> Nat]
        /\ mQueue \in Seq(Commands)
        /\ executed \in Seq(Commands)
    OBVIOUS
  <2>4. pc[Runner] \in RunnerLabels /\ \A c \in Clients : pc[c] \in ClientLabels
    BY <1>1 DEF RunnerLabels, ClientLabels
  <2>5. /\ mStatus \in Status
        /\ listLock \in Threads \union {NoThread}
        /\ build \in {"pthread", "win32"}
        /\ event \in BOOLEAN /\ draining \in BOOLEAN
        /\ command \in Commands \union {NoCommand}
        /\ freed \subseteq Commands /\ refused \subseteq Commands
        /\ issued \in Nat /\ promised \in Nat
    BY BuildsAssumption DEF Status
  <2> HIDE DEF Init, Threads
  <2> QED  BY <2>1, <2>2, <2>3, <2>4, <2>5 DEF TypeOK
<1>3. HoldInv
  BY <1>1 DEF HoldInv
<1> QED  BY <1>2, <1>3 DEF TypeInv

LEMMA TypeStep == TypeInv /\ [Next]_vars => TypeInv'
<1> SUFFICES ASSUME TypeInv, [Next]_vars PROVE TypeInv'
  OBVIOUS
<1> USE DEF TypeInv, TypeOK, HoldInv, Status, Threads, ClientLabels, RunnerLabels,
            Goto, Acquire, Release, local, history, Fresh
<1>1. ASSUME NEW c \in Clients, NEW x \in Commands, CallEnqueue(c, x) PROVE TypeInv'
  BY <1>1 DEF CallEnqueue
<1>2. ASSUME NEW c \in Clients, NEW op \in Controls, CallControl(c, op) PROVE TypeInv'
  BY <1>2 DEF CallControl, StatusOf
<1>3. ASSUME NEW c \in Clients, Refuse(c) PROVE TypeInv'
  BY <1>3 DEF Refuse
<1>4. ASSUME NEW c \in Clients, Admit(c) PROVE TypeInv'
  BY <1>4 DEF Admit
<1>5. ASSUME NEW c \in Clients, Push(c) PROVE TypeInv'
  BY <1>5 DEF Push
<1>6. ASSUME NEW c \in Clients, SetStatus(c) PROVE TypeInv'
  <2>1. /\ pc[c] \in {"terminate", "stop", "pause", "resume"}
        /\ mStatus' \in Status /\ promised' \in Nat
    BY <1>6 DEF SetStatus, StatusOf
  <2>2. /\ pc' = [pc EXCEPT ![c] = "idle"] \/ pc' = [pc EXCEPT ![c] = "notify"]
        /\ listLock' \in {listLock, NoThread}
        /\ UNCHANGED <<build, mQueue, event, command, draining, arg, calls, freed,
                       refused, ticket, issued, executed>>
    BY <1>6 DEF SetStatus
  <2> QED  BY <2>1, <2>2
<1>7. ASSUME NEW c \in Clients, Notify(c) PROVE TypeInv'
  BY <1>7 DEF Notify, Signal
<1>8. ASSUME NEW t \in Threads, ClearDelete(t) PROVE TypeInv'
  BY <1>8 DEF ClearDelete, Queued
<1>9. ASSUME NEW t \in Threads, ClearEmpty(t) PROVE TypeInv'
  BY <1>9 DEF ClearEmpty
<1>10. CASE GetLock BY <1>10 DEF GetLock
<1>11. CASE Get
  <2>1. CASE mQueue = <<>>
    BY <1>11, <2>1 DEF Get
  <2>2. CASE mQueue # <<>>
    <3>1. Head(mQueue) \in Commands /\ Tail(mQueue) \in Seq(Commands)
      BY <2>2
    <3> QED  BY <1>11, <2>2, <3>1 DEF Get
  <2> QED  BY <2>1, <2>2
<1>12. CASE Execute BY <1>12 DEF Execute
<1>13. CASE Delete BY <1>13 DEF Delete, LoopLabel
<1>14. CASE FinishLock BY <1>14 DEF FinishLock
<1>15. CASE Quiet BY <1>15 DEF Quiet, Outside
<1>16. CASE UNCHANGED vars BY <1>16 DEF vars
<1> QED
  BY StepCases, <1>1, <1>2, <1>3, <1>4, <1>5, <1>6, <1>7, <1>8, <1>9, <1>10, <1>11,
     <1>12, <1>13, <1>14, <1>15, <1>16 DEF Cases

\* The members of Worker stay well typed.
THEOREM TypeCorrect == Spec => []TypeOK
<1>1. Spec => []TypeInv
  BY TypeInit, TypeStep, PTL DEF Spec
<1>2. TypeInv => TypeOK
  BY DEF TypeInv
<1> QED  BY <1>1, <1>2, PTL

-----------------------------------------------------------------------------
(* Mutual exclusion on mListMutex *)

\* A client is inside a method exactly while it holds the mutex; run() holds
\* it in get() and in clear().
LockInv ==
    /\ \A c \in Clients : pc[c] # "idle" <=> listLock = c
    /\ pc[Runner] \in {"get", "clear", "empty"} <=> listLock = Runner

LEMMA LockInit == Init => LockInv
BY DEF Init, LockInv, Threads

LEMMA LockStep == TypeInv /\ LockInv /\ [Next]_vars => LockInv'
<1> SUFFICES ASSUME TypeInv, LockInv, [Next]_vars PROVE LockInv'
  OBVIOUS
<1>0. /\ pc \in [Threads -> ClientLabels \union RunnerLabels]
      /\ pc[Runner] \in RunnerLabels
  BY DEF TypeInv, TypeOK
<1> USE DEF LockInv, Threads, Goto, Acquire, Release
<1>1. ASSUME NEW c \in Clients, NEW x \in Commands, CallEnqueue(c, x) PROVE LockInv'
  BY <1>0, <1>1 DEF CallEnqueue
<1>2. ASSUME NEW c \in Clients, NEW op \in Controls, CallControl(c, op) PROVE LockInv'
  BY <1>0, <1>2 DEF CallControl, StatusOf
<1>3. ASSUME NEW c \in Clients, Refuse(c) PROVE LockInv'
  BY <1>0, <1>3 DEF Refuse
<1>4. ASSUME NEW c \in Clients, Admit(c) PROVE LockInv'
  BY <1>0, <1>4 DEF Admit
<1>5. ASSUME NEW c \in Clients, Push(c) PROVE LockInv'
  BY <1>0, <1>5 DEF Push
<1>6. ASSUME NEW c \in Clients, SetStatus(c) PROVE LockInv'
  BY <1>0, <1>6 DEF SetStatus, StatusOf
<1>7. ASSUME NEW c \in Clients, Notify(c) PROVE LockInv'
  BY <1>0, <1>7 DEF Notify
<1>8. ASSUME NEW t \in Threads, ClearDelete(t) PROVE LockInv'
  BY <1>0, <1>8 DEF ClearDelete
<1>9. ASSUME NEW t \in Threads, ClearEmpty(t) PROVE LockInv'
  BY <1>0, <1>9 DEF ClearEmpty
<1>10. CASE GetLock BY <1>0, <1>10 DEF GetLock
<1>11. CASE Get BY <1>0, <1>11 DEF Get
<1>12. CASE Execute BY <1>0, <1>12 DEF Execute
<1>13. CASE Delete BY <1>0, <1>13 DEF Delete, LoopLabel
<1>14. CASE FinishLock BY <1>0, <1>14 DEF FinishLock
<1>15. CASE Quiet BY <1>0, <1>15 DEF Quiet, Outside
<1>16. CASE UNCHANGED vars BY <1>16 DEF vars
<1> QED
  BY StepCases, <1>1, <1>2, <1>3, <1>4, <1>5, <1>6, <1>7, <1>8, <1>9, <1>10, <1>11,
     <1>12, <1>13, <1>14, <1>15, <1>16 DEF Cases, TypeInv

-----------------------------------------------------------------------------
(* Order of execution *)

\* Tickets grow along executed \o <<command>> \o mQueue; a command some client is
\* still adding has none.
OrderInv ==
    /\ \A x \in Commands : ticket[x] <= issued
    /\ \A c \in Clients : arg[c] # NoCommand => ticket[arg[c]] = 0
    /\ \A i \in DOMAIN mQueue : ticket[mQueue[i]] > 0
    /\ \A i, j \in DOMAIN mQueue : i < j => ticket[mQueue[i]] < ticket[mQueue[j]]
    /\ command # NoCommand => ticket[command] > 0
    /\ command # NoCommand => \A i \in DOMAIN mQueue : ticket[command] < ticket[mQueue[i]]
    /\ \A i \in DOMAIN executed : ticket[executed[i]] > 0
    /\ \A i \in DOMAIN executed, j \in DOMAIN mQueue :
           ticket[executed[i]] < ticket[mQueue[j]]
    /\ pc[Runner] = "execute" =>
           \A i \in DOMAIN executed : ticket[executed[i]] < ticket[command]
    /\ InOrder

LEMMA OrderInit == Init => OrderInv
BY DEF Init, OrderInv, InOrder, Threads

\* Steps that leave the queue, the history and the command in hand as they are.
LEMMA OrderKept ==
    ASSUME OrderInv,
           UNCHANGED <<mQueue, command, ticket, issued, executed>>,
           \A c \in Clients : arg'[c] # NoCommand => ticket[arg'[c]] = 0,
           pc'[Runner] = "execute" => pc[Runner] = "execute"
    PROVE  OrderInv'
BY DEF OrderInv, InOrder

LEMMA OrderStep == TypeInv /\ LockInv /\ OrderInv /\ [Next]_vars => OrderInv'
<1> SUFFICES ASSUME TypeInv, LockInv, OrderInv, [Next]_vars PROVE OrderInv'
  OBVIOUS
<1>0. /\ pc \in [Threads -> ClientLabels \union RunnerLabels]
      /\ mQueue \in Seq(Commands) /\ executed \in Seq(Commands)
      /\ ticket \in [Commands -> Nat] /\ issued \in Nat
      /\ command \in Commands \union {NoCommand}
      /\ arg \in [Clients -> Commands \union {NoCommand}]
  BY DEF TypeInv, TypeOK
<1>a. \A c \in Clients : arg[c] # NoCommand => ticket[arg[c]] = 0
  BY DEF OrderInv
<1>1. ASSUME NEW c \in Clients, NEW x \in Commands, CallEnqueue(c, x) PROVE OrderInv'
  <2>1. \A d \in Clients : arg'[d] # NoCommand => ticket[arg'[d]] = 0
    BY <1>0, <1>a, <1>1 DEF CallEnqueue, Fresh
  <2>2. pc'[Runner] = pc[Runner]
    BY <1>0, <1>1 DEF CallEnqueue, Goto, Threads
  <2> QED  BY <1>1, <2>1, <2>2, OrderKept DEF CallEnqueue, local, history
<1>2. ASSUME NEW c \in Clients, NEW op \in Controls, CallControl(c, op) PROVE OrderInv'
  <2>1. pc'[Runner] = pc[Runner]
    BY <1>0, <1>2 DEF CallControl, Goto, Threads
  <2> QED  BY <1>2, <1>a, <2>1, OrderKept DEF CallControl, local, history
<1>3. ASSUME NEW c \in Clients, Refuse(c) PROVE OrderInv'
  <2>1. \A d \in Clients : arg'[d] # NoCommand => ticket[arg'[d]] = 0
    BY <1>0, <1>a, <1>3 DEF Refuse
  <2>2. pc'[Runner] = pc[Runner]
    BY <1>0, <1>3 DEF Refuse, Goto, Threads
  <2> QED  BY <1>3, <2>1, <2>2, OrderKept DEF Refuse, local
<1>4. ASSUME NEW c \in Clients, Admit(c) PROVE OrderInv'
  <2>1. pc'[Runner] = pc[Runner]
    BY <1>0, <1>4 DEF Admit, Goto, Threads
  <2> QED  BY <1>4, <1>a, <2>1, OrderKept DEF Admit, local, history
<1>5. ASSUME NEW c \in Clients, Push(c) PROVE OrderInv'
  <2> DEFINE x == arg[c]
  <2>1. x \in Commands /\ ticket[x] = 0 /\ \A d \in Clients \ {c} : arg[d] = NoCommand
    BY <1>0, <1>a, <1>5 DEF Push, TypeInv, HoldInv, LockInv
  <2>2. /\ ticket'[x] = issued + 1 /\ issued \in Nat /\ issued' = issued + 1
        /\ \A y \in Commands \ {x} :
              ticket'[y] = ticket[y] /\ ticket[y] \in Nat /\ ticket[y] <= issued
    BY <1>0, <1>5, <2>1 DEF Push, OrderInv
  <2>3. /\ DOMAIN mQueue' = 1..(Len(mQueue) + 1) /\ DOMAIN mQueue = 1..Len(mQueue)
        /\ Len(mQueue) \in Nat
        /\ mQueue'[Len(mQueue) + 1] = x
        /\ \A i \in DOMAIN mQueue : mQueue'[i] = mQueue[i]
        /\ \A i \in DOMAIN mQueue : mQueue[i] \in Commands \ {x}
    BY <1>0, <1>5, <2>1 DEF Push, OrderInv
  <2>4. \A i \in DOMAIN executed : executed[i] \in Commands \ {x}
    BY <1>0, <2>1 DEF OrderInv
  <2>5. command \in (Commands \ {x}) \union {NoCommand}
    BY <1>0, <2>1 DEF OrderInv
  <2>6. \A d \in Clients : arg'[d] = NoCommand
    BY <1>0, <1>5, <2>1 DEF Push
  <2>7. pc'[Runner] = pc[Runner] /\ command' = command /\ executed' = executed
    BY <1>0, <1>5 DEF Push, Goto, Threads, local
  <2> HIDE DEF x
  <2>8. \A i \in DOMAIN mQueue' :
            \/ i \in DOMAIN mQueue /\ ticket'[mQueue'[i]] = ticket[mQueue[i]]
            \/ i = Len(mQueue) + 1 /\ ticket'[mQueue'[i]] = issued + 1
    BY <2>2, <2>3
  <2>9. InOrder'
    BY <2>2, <2>4, <2>7 DEF OrderInv, InOrder
  <2>10. \A i \in DOMAIN mQueue' : ticket'[mQueue'[i]] > 0
    BY <2>2, <2>8 DEF OrderInv
  <2>11. \A i, j \in DOMAIN mQueue' : i < j => ticket'[mQueue'[i]] < ticket'[mQueue'[j]]
    <3>1. \A i \in DOMAIN mQueue : ticket[mQueue[i]] < issued + 1
      BY <2>2, <2>3
    <3> QED  BY <2>3, <2>8, <3>1 DEF OrderInv
  <2>12. command # NoCommand =>
            /\ ticket'[command] > 0
            /\ \A i \in DOMAIN mQueue' : ticket'[command] < ticket'[mQueue'[i]]
    <3> SUFFICES ASSUME command # NoCommand
                 PROVE  /\ ticket'[command] > 0
                        /\ \A i \in DOMAIN mQueue' : ticket'[command] < ticket'[mQueue'[i]]
      OBVIOUS
    <3>1. ticket'[command] = ticket[command] /\ ticket[command] < issued + 1
      BY <2>2, <2>5
    <3> QED  BY <2>8, <3>1 DEF OrderInv
  <2>13. \A k \in DOMAIN executed :
            /\ ticket'[executed[k]] > 0
            /\ \A i \in DOMAIN mQueue' : ticket'[executed[k]] < ticket'[mQueue'[i]]
    <3> TAKE k \in DOMAIN executed
    <3>1. ticket'[executed[k]] = ticket[executed[k]] /\ ticket[executed[k]] < issued + 1
      BY <2>2, <2>4
    <3> QED  BY <2>8, <3>1 DEF OrderInv
  <2>14. pc'[Runner] = "execute" =>
            \A i \in DOMAIN executed' : ticket'[executed'[i]] < ticket'[command']
    BY <2>2, <2>4, <2>5, <2>7 DEF OrderInv, TypeInv, HoldInv
  <2>15. \A y \in Commands : ticket'[y] <= issued'
    BY <2>2
  <2> QED
    BY <2>6, <2>7, <2>9, <2>10, <2>11, <2>12, <2>13, <2>14, <2>15 DEF OrderInv
<1>6. ASSUME NEW c \in Clients, SetStatus(c) PROVE OrderInv'
  <2>1. pc'[Runner] = pc[Runner]
    BY <1>0, <1>6 DEF SetStatus, Goto, Threads
  <2> QED  BY <1>6, <1>a, <2>1, OrderKept DEF SetStatus, local
<1>7. ASSUME NEW c \in Clients, Notify(c) PROVE OrderInv'
  <2>1. pc'[Runner] = pc[Runner]
    BY <1>0, <1>7 DEF Notify, Goto, Threads
  <2> QED  BY <1>7, <1>a, <2>1, OrderKept DEF Notify, local, history
<1>8. ASSUME NEW t \in Threads, ClearDelete(t) PROVE OrderInv'
  <2>1. pc'[Runner] = "execute" => pc[Runner] = "execute"
    BY <1>0, <1>8 DEF ClearDelete, Goto, Threads
  <2> QED  BY <1>8, <1>a, <2>1, OrderKept DEF ClearDelete, local, history
<1>9. ASSUME NEW t \in Threads, ClearEmpty(t) PROVE OrderInv'
  <2>1. pc'[Runner] = "execute" => pc[Runner] = "execute"
    BY <1>0, <1>9 DEF ClearEmpty, Goto, Threads
  <2>2. DOMAIN mQueue' = {}
    BY <1>9 DEF ClearEmpty
  <2> QED  BY <1>9, <2>1, <2>2 DEF ClearEmpty, local, history, OrderInv, InOrder
<1>10. CASE GetLock
  <2>1. pc'[Runner] # "execute"
    BY <1>0, <1>10 DEF GetLock, Goto, Threads
  <2> QED  BY <1>10, <1>a, <2>1, OrderKept DEF GetLock, local, history
<1>11. CASE Get
  <2>1. CASE mQueue = <<>>
    <3>1. pc'[Runner] # "execute"
      BY <1>0, <1>11, <2>1 DEF Get, Goto, Threads
    <3> QED  BY <1>11, <1>a, <2>1, <3>1, OrderKept DEF Get, history
  <2>2. CASE mQueue # <<>>
    <3>1. /\ command' = mQueue[1] /\ 1 \in DOMAIN mQueue
          /\ DOMAIN mQueue' = 1..(Len(mQueue) - 1) /\ DOMAIN mQueue = 1..Len(mQueue)
          /\ \A i \in DOMAIN mQueue' : mQueue'[i] = mQueue[i + 1]
      BY <1>0, <1>11, <2>2 DEF Get
    <3>2. Len(mQueue) \in Nat /\ Len(mQueue) > 0
      BY <1>0, <2>2
    <3>3. UNCHANGED <<ticket, issued, executed, arg>>
      BY <1>11 DEF Get, history
    <3> QED  BY <3>1, <3>2, <3>3 DEF OrderInv, InOrder
  <2> QED  BY <2>1, <2>2
<1>12. CASE Execute
  <2>1. command \in Commands /\ pc[Runner] = "execute" /\ pc'[Runner] = "delete"
    BY <1>0, <1>12 DEF Execute, Goto, Threads, TypeInv, HoldInv
  <2>2. /\ DOMAIN executed' = 1..(Len(executed) + 1) /\ DOMAIN executed = 1..Len(executed)
        /\ Len(executed) \in Nat
        /\ executed'[Len(executed) + 1] = command
        /\ \A i \in DOMAIN executed : executed'[i] = executed[i]
    BY <1>0, <1>12, <2>1 DEF Execute
  <2>3. UNCHANGED <<mQueue, ticket, issued, arg, command>>
    BY <1>12 DEF Execute, local
  <2>4. \A i \in DOMAIN executed' :
            \/ i \in DOMAIN executed /\ executed'[i] = executed[i]
            \/ i = Len(executed) + 1 /\ executed'[i] = command
    BY <2>2
  <2>5. InOrder'
    <3>1. \A i \in DOMAIN executed : ticket[executed[i]] < ticket[command]
      BY <2>1 DEF OrderInv
    <3> QED  BY <2>2, <2>3, <2>4, <3>1 DEF OrderInv, InOrder
  <2>6. \A i \in DOMAIN executed' :
            /\ ticket[executed'[i]] > 0
            /\ \A j \in DOMAIN mQueue : ticket[executed'[i]] < ticket[mQueue[j]]
    <3>1. command # NoCommand
      BY <2>1
    <3> QED  BY <2>4, <3>1 DEF OrderInv
  <2> QED  BY <2>1, <2>3, <2>5, <2>6 DEF OrderInv
<1>13. CASE Delete
  <2>1. command' = NoCommand /\ pc'[Runner] # "execute"
    BY <1>0, <1>13 DEF Delete, Goto, Threads, LoopLabel
  <2> QED  BY <1>13, <2>1 DEF Delete, history, OrderInv, InOrder
<1>14. CASE FinishLock
  <2>1. pc'[Runner] # "execute"
    BY <1>0, <1>14 DEF FinishLock, Goto, Threads
  <2> QED  BY <1>14, <1>a, <2>1, OrderKept DEF FinishLock, local, history
<1>15. CASE Quiet
  <2>1. pc'[Runner] # "execute"
    BY <1>0, <1>15 DEF Quiet, Outside, Threads
  <2> QED  BY <1>15, <1>a, <2>1, OrderKept DEF Quiet, history
<1>16. CASE UNCHANGED vars
  BY <1>16, <1>a, OrderKept DEF vars, local, history
<1> QED
  BY StepCases, <1>1, <1>2, <1>3, <1>4, <1>5, <1>6, <1>7, <1>8, <1>9, <1>10, <1>11,
     <1>12, <1>13, <1>14, <1>15, <1>16 DEF Cases, TypeInv

\* execute() receives the commands in the order in which they were added, and
\* none of them twice, whatever clients and control calls overlap.
THEOREM ExecutedInOrder == Spec => []InOrder
<1> DEFINE Inv == TypeInv /\ LockInv /\ OrderInv
<1>1. Init => Inv
  BY TypeInit, LockInit, OrderInit
<1>2. Inv /\ [Next]_vars => Inv'
  BY TypeStep, LockStep, OrderStep
<1>3. Inv => InOrder
  BY DEF OrderInv
<1> QED  BY <1>1, <1>2, <1>3, PTL DEF Spec

-----------------------------------------------------------------------------
(* Ownership of commands *)

\* Deleted commands had been added; run() holds no deleted one; between the two
\* steps of clear() the whole queue is deleted, at any other time none of it is.
FreeInv ==
    /\ \A x \in freed : ticket[x] > 0
    /\ \A t \in Threads : pc[t] = "empty" => Queued \subseteq freed
    /\ NoUseAfterFree
    /\ NoneLeaked

LEMMA FreeInit == Init => FreeInv
BY DEF Init, FreeInv, NoUseAfterFree, NoneLeaked, Queued, Threads

\* Steps that move no command and neither enter nor leave the end of clear().
LEMMA FreeKept ==
    ASSUME FreeInv,
           UNCHANGED <<mQueue, command, ticket, freed>>,
           \A t \in Threads : pc'[t] = "empty" <=> pc[t] = "empty"
    PROVE  FreeInv'
BY DEF FreeInv, NoUseAfterFree, NoneLeaked, Queued

Elements(q) == {q[i] : i \in DOMAIN q}

\* The elements of a queue after push_back ...
LEMMA AppendElements ==
    ASSUME NEW S, NEW q \in Seq(S), NEW x \in S
    PROVE  Elements(Append(q, x)) = Elements(q) \union {x}
<1> DEFINE r == Append(q, x)
<1>1. /\ DOMAIN r = 1..(Len(q) + 1) /\ DOMAIN q = 1..Len(q) /\ Len(q) \in Nat
      /\ r[Len(q) + 1] = x /\ \A i \in DOMAIN q : r[i] = q[i]
  OBVIOUS
<1> HIDE DEF r
<1>2. \A i \in DOMAIN r : i \in DOMAIN q \/ i = Len(q) + 1
  BY <1>1
<1>3. DOMAIN q \subseteq DOMAIN r /\ Len(q) + 1 \in DOMAIN r
  BY <1>1
<1>4. Elements(r) = Elements(q) \union {x}
  BY <1>1, <1>2, <1>3 DEF Elements
<1> QED  BY <1>4 DEF r

\* ... and after pop_front.
LEMMA TailElements ==
    ASSUME NEW S, NEW q \in Seq(S), q # <<>>
    PROVE  Elements(q) = Elements(Tail(q)) \union {Head(q)}
<1> DEFINE r == Tail(q)
<1>1. /\ DOMAIN r = 1..(Len(q) - 1) /\ DOMAIN q = 1..Len(q)
      /\ Len(q) \in Nat /\ Len(q) > 0 /\ Head(q) = q[1]
      /\ \A i \in DOMAIN r : r[i] = q[i + 1]
  OBVIOUS
<1> HIDE DEF r
<1>2. \A i \in DOMAIN r : i + 1 \in DOMAIN q
  BY <1>1
<1>3. \A i \in DOMAIN q : i = 1 \/ (i - 1 \in DOMAIN r /\ r[i - 1] = q[i])
  BY <1>1
<1>4. Elements(q) = Elements(r) \union {Head(q)}
  BY <1>1, <1>2, <1>3 DEF Elements
<1> QED  BY <1>4 DEF r

\* While one thread is inside the mutex, no other one is at the end of clear().
LEMMA OneInside ==
    ASSUME TypeInv, LockInv, NEW t \in Threads, listLock \in {t, NoThread}
    PROVE  \A u \in Threads \ {t} : pc[u] # "empty"
BY DEF LockInv, Threads

LEMMA FreeStep ==
    TypeInv /\ LockInv /\ OrderInv /\ FreeInv /\ [Next]_vars => FreeInv'
<1> SUFFICES ASSUME TypeInv, LockInv, OrderInv, FreeInv, [Next]_vars PROVE FreeInv'
  OBVIOUS
<1>0. /\ pc \in [Threads -> ClientLabels \union RunnerLabels]
      /\ mQueue \in Seq(Commands) /\ ticket \in [Commands -> Nat] /\ issued \in Nat
      /\ command \in Commands \union {NoCommand} /\ freed \subseteq Commands
      /\ arg \in [Clients -> Commands \union {NoCommand}]
  BY DEF TypeInv, TypeOK
<1>1. ASSUME NEW c \in Clients, NEW x \in Commands, CallEnqueue(c, x) PROVE FreeInv'
  <2>1. \A t \in Threads : pc'[t] = "empty" <=> pc[t] = "empty"
    BY <1>0, <1>1 DEF CallEnqueue, Goto, Threads
  <2> QED  BY <1>1, <2>1, FreeKept DEF CallEnqueue, local, history
<1>2. ASSUME NEW c \in Clients, NEW op \in Controls, CallControl(c, op) PROVE FreeInv'
  <2>1. \A t \in Threads : pc'[t] = "empty" <=> pc[t] = "empty"
    BY <1>0, <1>2 DEF CallControl, Goto, Threads, StatusOf
  <2> QED  BY <1>2, <2>1, FreeKept DEF CallControl, local, history
<1>3. ASSUME NEW c \in Clients, Refuse(c) \/ Admit(c) PROVE FreeInv'
  <2>1. \A t \in Threads : pc'[t] = "empty" <=> pc[t] = "empty"
    BY <1>0, <1>3 DEF Refuse, Admit, Goto, Threads
  <2> QED  BY <1>3, <2>1, FreeKept DEF Refuse, Admit, local, history
<1>5. ASSUME NEW c \in Clients, Push(c) PROVE FreeInv'
  <2>1. arg[c] \in Commands /\ ticket[arg[c]] = 0
    BY <1>0, <1>5 DEF Push, TypeInv, HoldInv, OrderInv
  <2>2. Queued' = Queued \union {arg[c]}
    <3>1. Elements(Append(mQueue, arg[c])) = Elements(mQueue) \union {arg[c]}
      BY <1>0, <2>1, AppendElements
    <3> QED  BY <1>5, <3>1 DEF Push, Queued, Elements
  <2>3. arg[c] \notin freed
    BY <2>1 DEF FreeInv
  <2>4. listLock = c
    BY <1>5 DEF Push, LockInv
  <2>5. \A t \in Threads : pc[t] # "empty" /\ pc'[t] # "empty"
    BY <1>0, <1>5, <2>4, OneInside DEF Push, Goto, Threads
  <2>6. /\ UNCHANGED <<command, freed>>
        /\ \A y \in Commands : ticket'[y] = IF y = arg[c] THEN issued + 1 ELSE ticket[y]
    BY <1>0, <1>5, <2>1 DEF Push, local
  <2>7. \A x \in freed' : ticket'[x] > 0
    BY <1>0, <2>6 DEF FreeInv
  <2>8. NoUseAfterFree'
    BY <2>2, <2>3, <2>5, <2>6 DEF FreeInv, NoUseAfterFree
  <2>9. NoneLeaked'
    BY <2>2, <2>6 DEF FreeInv, NoneLeaked
  <2> QED  BY <2>5, <2>7, <2>8, <2>9 DEF FreeInv
<1>6. ASSUME NEW c \in Clients, SetStatus(c) \/ Notify(c) PROVE FreeInv'
  <2>1. \A t \in Threads : pc'[t] = "empty" <=> pc[t] = "empty"
    BY <1>0, <1>6 DEF SetStatus, Notify, Goto, Threads, StatusOf
  <2> QED  BY <1>6, <2>1, FreeKept DEF SetStatus, Notify, local, history
<1>8. ASSUME NEW t \in Threads, ClearDelete(t) PROVE FreeInv'
  <2>1. /\ freed' = freed \union Queued /\ Queued' = Queued
        /\ UNCHANGED <<ticket, command>> /\ pc'[t] = "empty"
    BY <1>0, <1>8 DEF ClearDelete, Goto, history, local, Queued
  <2>2. \A x \in Queued : ticket[x] > 0
    BY DEF Queued, OrderInv
  <2>3. command \notin Queued
    BY <1>0, CommandsAssumption DEF Queued, OrderInv
  <2> QED  BY <2>1, <2>2, <2>3 DEF FreeInv, NoUseAfterFree, NoneLeaked
<1>9. ASSUME NEW t \in Threads, ClearEmpty(t) PROVE FreeInv'
  <2>1. /\ Queued' = {} /\ Queued \subseteq freed
        /\ UNCHANGED <<ticket, command, freed>>
    BY <1>0, <1>9 DEF ClearEmpty, FreeInv, Queued, history, local
  <2> QED  BY <2>1 DEF FreeInv, NoUseAfterFree, NoneLeaked
<1>10. CASE GetLock \/ FinishLock
  <2>1. \A t \in Threads : pc'[t] = "empty" <=> pc[t] = "empty"
    BY <1>0, <1>10 DEF GetLock, FinishLock, Goto, Threads
  <2> QED  BY <1>10, <2>1, FreeKept DEF GetLock, FinishLock, local, history
<1>11. CASE Get
  <2>0. \A t \in Threads : pc'[t] = "empty" <=> pc[t] = "empty"
    BY <1>0, <1>11 DEF Get, Goto, Threads
  <2>1. CASE mQueue = <<>>
    BY <1>11, <2>0, <2>1, FreeKept DEF Get, history
  <2>2. CASE mQueue # <<>>
    <3>1. \A t \in Threads : pc[t] # "empty"
      BY <1>11, OneInside DEF Get, LockInv, Threads
    <3>2. Queued = Queued' \union {command'}
      <4>1. Elements(mQueue) = Elements(Tail(mQueue)) \union {Head(mQueue)}
        BY <1>0, <2>2, TailElements
      <4> QED  BY <1>11, <2>2, <4>1 DEF Get, Queued, Elements
    <3>3. command = NoCommand
      BY <1>11 DEF Get, TypeInv, HoldInv
    <3>4. UNCHANGED <<ticket, freed>>
      BY <1>11 DEF Get, history
    <3> QED  BY <1>0, <2>0, <3>1, <3>2, <3>3, <3>4, CommandsAssumption
             DEF FreeInv, NoUseAfterFree, NoneLeaked
  <2> QED  BY <2>1, <2>2
<1>12. CASE Execute
  <2>1. \A t \in Threads : pc'[t] = "empty" <=> pc[t] = "empty"
    BY <1>0, <1>12 DEF Execute, Goto, Threads
  <2> QED  BY <1>12, <2>1, FreeKept DEF Execute, local
<1>13. CASE Delete
  <2>1. \A t \in Threads : pc'[t] = "empty" <=> pc[t] = "empty"
    BY <1>0, <1>13 DEF Delete, Goto, Threads, LoopLabel
  <2>2. command \in Commands /\ ticket[command] > 0 /\ command \notin Queued
    BY <1>0, <1>13 DEF Delete, TypeInv, HoldInv, OrderInv, Queued
  <2>3. /\ freed' = freed \union {command} /\ command' = NoCommand
        /\ ticket' = ticket /\ Queued' = Queued
    BY <1>13 DEF Delete, history, Queued
  <2> QED  BY <1>0, <2>1, <2>2, <2>3, CommandsAssumption
           DEF FreeInv, NoUseAfterFree, NoneLeaked
<1>15. CASE Quiet
  <2>1. \A t \in Threads : pc'[t] = "empty" <=> pc[t] = "empty"
    BY <1>0, <1>15 DEF Quiet, Outside, Threads
  <2> QED  BY <1>15, <2>1, FreeKept DEF Quiet, history
<1>16. CASE UNCHANGED vars
  BY <1>16, FreeKept DEF vars, local, history
<1> QED
  BY StepCases, <1>1, <1>2, <1>3, <1>5, <1>6, <1>8, <1>9, <1>10, <1>11,
     <1>12, <1>13, <1>15, <1>16 DEF Cases, TypeInv

\* The inductive invariant of Worker.
IInv == TypeInv /\ LockInv /\ OrderInv /\ FreeInv

LEMMA Inductive == Spec => []IInv
<1>1. Init => IInv
  BY TypeInit, LockInit, OrderInit, FreeInit DEF IInv
<1>2. IInv /\ [Next]_vars => IInv'
  BY TypeStep, LockStep, OrderStep, FreeStep DEF IInv
<1> QED  BY <1>1, <1>2, PTL DEF Spec

\* No command is used, or deleted again, after it was deleted.
THEOREM NoCommandUsedAfterFree == Spec => []NoUseAfterFree
<1>1. IInv => NoUseAfterFree
  BY DEF IInv, FreeInv
<1> QED  BY <1>1, Inductive, PTL

\* No command is lost: what was added is queued, held by run() or deleted.
THEOREM NoCommandLeaked == Spec => []NoneLeaked
<1>1. IInv => NoneLeaked
  BY DEF IInv, FreeInv
<1> QED  BY <1>1, Inductive, PTL
-----------------------------------------------------------------------------
(* Worker implements CommandQueue.  The invariant says what the refinement   *)
(* mapping needs: which commands are queued but deleted, and that the head   *)
(* of the queue has the smallest ticket.                                     *)

aPending == Queued \ freed
aRunning == IF pc[Runner] = "execute" THEN command ELSE NoCommand

\* Steps of Worker that CommandQueue does not see.
LEMMA AbstractStutter ==
    ASSUME UNCHANGED <<mQueue, command, ticket, issued, freed, executed>>,
           pc'[Runner] = "execute" <=> pc[Runner] = "execute"
    PROVE  UNCHANGED Abstract!vars
BY DEF Abstract!vars, Queued

LEMMA RefinesInit == Init => Abstract!Init
<1> SUFFICES ASSUME Init PROVE Abstract!Init
  OBVIOUS
<1>1. Queued = {} /\ pc[Runner] = "born"
  BY DEF Init, Queued, Threads
<1> QED  BY <1>1 DEF Init, Abstract!Init

\* Each step is an Add, Begin, Finish or Discard of the abstract queue, or
\* leaves it as it is.
LEMMA RefinesStep == IInv /\ IInv' /\ [Next]_vars => [Abstract!Next]_(Abstract!vars)
<1> SUFFICES ASSUME IInv, IInv', [Next]_vars PROVE [Abstract!Next]_(Abstract!vars)
  OBVIOUS
<1>0. /\ pc \in [Threads -> ClientLabels \union RunnerLabels]
      /\ mQueue \in Seq(Commands) /\ ticket \in [Commands -> Nat] /\ issued \in Nat
      /\ command \in Commands \union {NoCommand} /\ freed \subseteq Commands
      /\ arg \in [Clients -> Commands \union {NoCommand}]
  BY DEF IInv, TypeInv, TypeOK
<1>1. ASSUME NEW c \in Clients, NEW x \in Commands, CallEnqueue(c, x)
      PROVE  UNCHANGED Abstract!vars
  <2>1. pc'[Runner] = pc[Runner]
    BY <1>0, <1>1 DEF CallEnqueue, Goto, Threads
  <2> QED  BY <1>1, <2>1, AbstractStutter DEF CallEnqueue, local, history
<1>2. ASSUME NEW c \in Clients, NEW op \in Controls, CallControl(c, op)
      PROVE  UNCHANGED Abstract!vars
  <2>1. pc'[Runner] = pc[Runner]
    BY <1>0, <1>2 DEF CallControl, Goto, Threads
  <2> QED  BY <1>2, <2>1, AbstractStutter DEF CallControl, local, history
<1>3. ASSUME NEW c \in Clients, Refuse(c) \/ Admit(c) \/ SetStatus(c) \/ Notify(c)
      PROVE  UNCHANGED Abstract!vars
  <2>1. pc'[Runner] = pc[Runner]
    BY <1>0, <1>3 DEF Refuse, Admit, SetStatus, Notify, Goto, Threads
  <2> QED  BY <1>3, <2>1, AbstractStutter DEF Refuse, Admit, SetStatus, Notify, local, history
<1>4. ASSUME NEW c \in Clients, Push(c) PROVE Abstract!Next
  <2>1. arg[c] \in Commands /\ ticket[arg[c]] = 0
    BY <1>0, <1>4 DEF Push, IInv, TypeInv, HoldInv, OrderInv
  <2>2. Queued' = Queued \union {arg[c]}
    <3>1. Elements(Append(mQueue, arg[c])) = Elements(mQueue) \union {arg[c]}
      BY <1>0, <2>1, AppendElements
    <3> QED  BY <1>4, <3>1 DEF Push, Queued, Elements
  <2>3. arg[c] \notin freed
    BY <2>1 DEF IInv, FreeInv
  <2>4. UNCHANGED <<aRunning, executed>> /\ aPending' = aPending \union {arg[c]}
    BY <1>0, <1>4, <2>2, <2>3 DEF Push, local, Goto, Threads, aRunning, aPending
  <2>5. Abstract!Add(arg[c])
    BY <1>4, <2>1, <2>4 DEF Push, Abstract!Add, aRunning, aPending
  <2> QED  BY <2>1, <2>5 DEF Abstract!Next
<1>5. ASSUME NEW t \in Threads, ClearDelete(t) PROVE Abstract!Next
  <2>1. /\ Queued' = Queued /\ freed' = freed \union Queued
        /\ UNCHANGED <<ticket, issued, executed, command>>
        /\ pc[Runner] # "execute" \/ t # Runner
    BY <1>5 DEF ClearDelete, Queued, history, local
  <2>2. aRunning' = aRunning
    BY <1>0, <1>5, <2>1 DEF ClearDelete, Goto, Threads, aRunning
  <2> QED  BY <2>1, <2>2 DEF Abstract!Next, Abstract!Discard, aRunning
<1>6. ASSUME NEW t \in Threads, ClearEmpty(t) PROVE UNCHANGED Abstract!vars
  <2>1. Queued \ freed = {} /\ Queued' = {} /\ UNCHANGED <<ticket, issued, executed, command>>
    BY <1>6 DEF ClearEmpty, Queued, history, local, IInv, FreeInv
  <2>2. aRunning' = aRunning
    BY <1>0, <1>6, <2>1 DEF ClearEmpty, Goto, Threads, aRunning
  <2> QED  BY <2>1, <2>2 DEF Abstract!vars, aRunning
<1>7. CASE GetLock \/ FinishLock
  <2>1. pc'[Runner] = "execute" <=> pc[Runner] = "execute"
    BY <1>0, <1>7 DEF GetLock, FinishLock, Goto, Threads
  <2> QED  BY <1>7, <2>1, AbstractStutter DEF GetLock, FinishLock, local, history
<1>8. CASE Get
  <2>1. CASE mQueue = <<>>
    <3>1. pc'[Runner] = "execute" <=> pc[Runner] = "execute"
      BY <1>0, <1>8, <2>1 DEF Get, Goto, Threads
    <3> QED  BY <1>8, <2>1, <3>1, AbstractStutter DEF Get, history
  <2>2. CASE mQueue # <<>>
    <3> DEFINE x == Head(mQueue)
    <3>1. x \in Commands /\ x = mQueue[1] /\ 1 \in DOMAIN mQueue
      BY <1>0, <2>2
    <3>2. Queued = Queued' \union {x} /\ freed' = freed /\ command' = x
      <4>1. Elements(mQueue) = Elements(Tail(mQueue)) \union {Head(mQueue)}
        BY <1>0, <2>2, TailElements
      <4> QED  BY <1>8, <2>2, <4>1 DEF Get, Queued, Elements
    <3>3. Queued \cap freed = {}
      BY <1>8, OneInside DEF Get, IInv, LockInv, Threads, FreeInv, NoUseAfterFree
    <3>4. x \notin Queued'
      <4>1. \A i \in DOMAIN mQueue' : ticket'[x] < ticket'[mQueue'[i]]
        BY <3>1, <3>2 DEF IInv, OrderInv
      <4>2. ticket'[x] \in Nat
        BY <3>1 DEF IInv, TypeInv, TypeOK
      <4> QED  BY <4>1, <4>2 DEF Queued
    <3>5. \A y \in aPending : ticket[x] <= ticket[y]
      BY <1>0, <3>1 DEF aPending, Queued, IInv, OrderInv
    <3>6. /\ aRunning = NoCommand /\ aRunning' = x /\ x \in aPending
          /\ aPending' = aPending \ {x}
      BY <1>0, <1>8, <2>2, <3>2, <3>3, <3>4 DEF Get, Goto, Threads, aRunning, aPending
    <3>7. Abstract!Begin(x)
      BY <1>8, <3>5, <3>6 DEF Get, history, Abstract!Begin, aRunning, aPending
    <3> QED  BY <3>1, <3>7 DEF Abstract!Next
  <2> QED  BY <2>1, <2>2
<1>9. CASE Execute
  <2>1. /\ pc[Runner] = "execute" /\ pc'[Runner] = "delete" /\ command # NoCommand
        /\ executed' = Append(executed, command)
        /\ UNCHANGED <<ticket, issued, Queued, freed>>
    BY <1>0, <1>9 DEF Execute, Goto, Threads, IInv, TypeInv, HoldInv, Queued
  <2> QED  BY <2>1 DEF Abstract!Next, Abstract!Finish
<1>10. CASE Delete
  <2>1. pc[Runner] = "delete" /\ pc'[Runner] # "execute"
    BY <1>0, <1>10 DEF Delete, Goto, Threads, LoopLabel
  <2>2. command \notin Queued
    BY <1>0, <1>10 DEF Delete, IInv, TypeInv, HoldInv, OrderInv, Queued
  <2>3. Queued' = Queued /\ freed' = freed \union {command} /\ UNCHANGED <<ticket, issued, executed>>
    BY <1>10 DEF Delete, history, Queued
  <2> QED  BY <2>1, <2>2, <2>3 DEF Abstract!vars
<1>11. CASE Quiet
  <2>1. pc'[Runner] = "execute" <=> pc[Runner] = "execute"
    BY <1>0, <1>11 DEF Quiet, Outside, Threads
  <2> QED  BY <1>11, <2>1, AbstractStutter DEF Quiet, history
<1>12. CASE UNCHANGED vars
  BY <1>12, AbstractStutter DEF vars, local, history
<1> QED
  BY StepCases, <1>1, <1>2, <1>3, <1>4, <1>5, <1>6, <1>7, <1>8, <1>9, <1>10, <1>11, <1>12
     DEF Cases, IInv, TypeInv

\* peel::Worker runs each command at most once, one at a time, in the order of
\* addition, and loses pending commands only by discarding the whole queue.
THEOREM WorkerImplementsQueue == Spec => Implements
<1>1. Spec => []IInv
  BY Inductive
<1> QED  BY <1>1, RefinesInit, RefinesStep, PTL DEF Implements, Spec, Abstract!Spec

-----------------------------------------------------------------------------
(* enqueue_unique *)

\* What the loop of enqueue_unique found stays true until its push_back.
UniqueInv ==
    /\ UniqueInQueue
    /\ \A c \in Clients :
           pc[c] = "push" /\ arg[c] \in Unique =>
               \A i \in DOMAIN mQueue : Code[mQueue[i]] # Code[arg[c]]

LEMMA UniqueInit == Init => UniqueInv
BY DEF Init, UniqueInv, UniqueInQueue, Threads

LEMMA UniqueKept ==
    ASSUME UniqueInv, UNCHANGED mQueue,
           \A c \in Clients : pc'[c] = "push" => pc[c] = "push" /\ arg'[c] = arg[c]
    PROVE  UniqueInv'
BY DEF UniqueInv, UniqueInQueue

LEMMA UniqueStep == IInv /\ UniqueInv /\ [Next]_vars => UniqueInv'
<1> SUFFICES ASSUME IInv, UniqueInv, [Next]_vars PROVE UniqueInv'
  OBVIOUS
<1>0. /\ pc \in [Threads -> ClientLabels \union RunnerLabels]
      /\ mQueue \in Seq(Commands)
      /\ arg \in [Clients -> Commands \union {NoCommand}]
  BY DEF IInv, TypeInv, TypeOK
<1>1. ASSUME NEW c \in Clients, NEW x \in Commands, CallEnqueue(c, x) PROVE UniqueInv'
  <2>1. /\ pc'[c] = "push" => x \notin Unique
        /\ arg'[c] = x /\ mQueue' = mQueue
        /\ \A d \in Clients \ {c} : pc'[d] = pc[d] /\ arg'[d] = arg[d]
    BY <1>0, <1>1 DEF CallEnqueue, Goto, Threads
  <2> QED  BY <2>1 DEF UniqueInv, UniqueInQueue
<1>2. ASSUME NEW c \in Clients, NEW op \in Controls, CallControl(c, op) PROVE UniqueInv'
  <2>1. \A d \in Clients : pc'[d] = "push" => pc[d] = "push" /\ arg'[d] = arg[d]
    BY <1>0, <1>2, ControlsAssumption DEF CallControl, Goto, Threads, StatusOf
  <2> QED  BY <1>2, <2>1, UniqueKept DEF CallControl
<1>3. ASSUME NEW c \in Clients, Refuse(c) \/ SetStatus(c) \/ Notify(c) PROVE UniqueInv'
  <2>1. \A d \in Clients : pc'[d] = "push" => pc[d] = "push" /\ arg'[d] = arg[d]
    BY <1>0, <1>3 DEF Refuse, SetStatus, Notify, Goto, Threads
  <2> QED  BY <1>3, <2>1, UniqueKept DEF Refuse, SetStatus, Notify
<1>4. ASSUME NEW c \in Clients, Admit(c) PROVE UniqueInv'
  <2>1. /\ UNCHANGED <<mQueue, arg>>
        /\ \A d \in Clients \ {c} : pc'[d] = pc[d]
        /\ \A i \in DOMAIN mQueue : Code[mQueue[i]] # Code[arg[c]]
    BY <1>0, <1>4 DEF Admit, Goto, Threads, Queued
  <2> QED  BY <2>1 DEF UniqueInv, UniqueInQueue
<1>5. ASSUME NEW c \in Clients, Push(c) PROVE UniqueInv'
  <2>1. /\ DOMAIN mQueue' = 1..(Len(mQueue) + 1) /\ DOMAIN mQueue = 1..Len(mQueue)
        /\ Len(mQueue) \in Nat
        /\ mQueue'[Len(mQueue) + 1] = arg[c]
        /\ \A i \in DOMAIN mQueue : mQueue'[i] = mQueue[i]
    <3>1. arg[c] \in Commands
      BY <1>0, <1>5 DEF Push, IInv, TypeInv, HoldInv
    <3> QED  BY <1>0, <1>5, <3>1 DEF Push
  <2>2. arg[c] \in Unique => \A i \in DOMAIN mQueue : Code[mQueue[i]] # Code[arg[c]]
    BY <1>5 DEF Push, UniqueInv
  <2>3. \A d \in Clients : pc'[d] # "push"
    BY <1>0, <1>5 DEF Push, Goto, Threads, IInv, LockInv
  <2>4. \A j \in DOMAIN mQueue' : j \in DOMAIN mQueue \/ j = Len(mQueue) + 1
    BY <2>1
  <2>5. \A i, j \in DOMAIN mQueue' : i < j => i \in DOMAIN mQueue
    BY <2>1
  <2>6. UniqueInQueue'
    BY <2>1, <2>2, <2>4, <2>5 DEF UniqueInQueue, UniqueInv
  <2> QED  BY <2>3, <2>6 DEF UniqueInv
<1>6. ASSUME NEW t \in Threads, ClearDelete(t) PROVE UniqueInv'
  <2>1. \A d \in Clients : pc'[d] = "push" => pc[d] = "push" /\ arg'[d] = arg[d]
    BY <1>0, <1>6 DEF ClearDelete, Goto, Threads
  <2> QED  BY <1>6, <2>1, UniqueKept DEF ClearDelete
<1>7. ASSUME NEW t \in Threads, ClearEmpty(t) PROVE UniqueInv'
  <2>1. DOMAIN mQueue' = {}
    BY <1>7 DEF ClearEmpty
  <2> QED  BY <2>1 DEF UniqueInv, UniqueInQueue
<1>8. CASE GetLock \/ Execute \/ Delete \/ FinishLock
  <2>1. \A d \in Clients : pc'[d] = "push" => pc[d] = "push" /\ arg'[d] = arg[d]
    BY <1>0, <1>8 DEF GetLock, Execute, Delete, FinishLock, Goto, Threads
  <2> QED  BY <1>8, <2>1, UniqueKept DEF GetLock, Execute, Delete, FinishLock
<1>9. CASE Get
  <2>1. \A d \in Clients : pc'[d] # "push"
    BY <1>0, <1>9 DEF Get, Goto, Threads, IInv, LockInv
  <2>2. CASE mQueue = <<>>
    BY <1>9, <2>1, <2>2, UniqueKept DEF Get
  <2>3. CASE mQueue # <<>>
    <3>1. /\ DOMAIN mQueue' = 1..(Len(mQueue) - 1) /\ DOMAIN mQueue = 1..Len(mQueue)
          /\ Len(mQueue) \in Nat
          /\ \A i \in DOMAIN mQueue' : mQueue'[i] = mQueue[i + 1]
      BY <1>0, <1>9, <2>3 DEF Get
    <3> QED  BY <2>1, <3>1 DEF UniqueInv, UniqueInQueue
  <2> QED  BY <2>2, <2>3
<1>10. CASE Quiet
  <2>1. \A d \in Clients : pc'[d] = "push" => pc[d] = "push" /\ arg'[d] = arg[d]
    BY <1>0, <1>10 DEF Quiet, Outside, Threads
  <2> QED  BY <1>10, <2>1, UniqueKept DEF Quiet
<1>11. CASE UNCHANGED vars
  BY <1>11, UniqueKept DEF vars
<1> QED
  BY StepCases, <1>1, <1>2, <1>3, <1>4, <1>5, <1>6, <1>7, <1>8, <1>9, <1>10, <1>11
     DEF Cases, IInv, TypeInv

\* A command added with enqueue_unique is never queued behind one of its code.
THEOREM UniqueStaysUnique == Spec => []UniqueInQueue
<1>1. Spec => []UniqueInv
  BY Inductive, UniqueInit, UniqueStep, PTL DEF Spec
<1>2. UniqueInv => UniqueInQueue
  BY DEF UniqueInv
<1> QED  BY <1>1, <1>2, PTL
=============================================================================
