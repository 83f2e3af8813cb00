------------------------------- MODULE Worker -------------------------------
(* peel::Worker (Worker.h): a command queue served by one thread inside      *)
(* run(), with any number of client threads calling its public methods.      *)
(*                                                                           *)
(* Grain of atomicity.  A step is one access to shared memory, or the part   *)
(* of a critical section up to the next access that a thread outside the     *)
(* section can see.  mListMutex is explicit (listLock).  mStatus is read and *)
(* written by run() WITHOUT the mutex, so every evaluation of it there is a  *)
(* step of its own; the two operands of || and && are loaded separately (the *)
(* Makefile's debug build is -O0).                                           *)
(*                                                                           *)
(* The condition (Lock.h) is one flag, "event".  On the "win32" build it is  *)
(* an auto-reset event, which stays set until a wait consumes it.  On the    *)
(* "pthread" build it is a condition variable: a signal reaches              *)
(* only a thread already waiting, and a wait may end spuriously.  The        *)
(* condition's own mutex is held for no more than one step of this model.    *)
EXTENDS Integers, Sequences

CONSTANTS
    Clients,        \* threads that call the public methods
    Runner,         \* the thread that calls run()
    Commands,       \* command objects; each is handed to the worker once
    Unique,         \* those that are handed over with enqueue_unique
    Code,           \* Code[x]: what WorkerCommand::operator== compares
    Controls,       \* the control methods that clients call
    MaxControl,     \* bound on the number of control calls in a behaviour
    Builds,         \* the builds considered, a subset of {"pthread", "win32"}
    NoThread, NoCommand

Threads == Clients \union {Runner}

Status == {"INIT", "RUNNING", "TERM", "PAUSE", "END"}

\* The value each method assigns to mStatus.
StatusOf ==
    [terminate |-> "TERM", stop |-> "END", pause |-> "PAUSE", resume |-> "RUNNING"]

ASSUME ClientsAssumption == Runner \notin Clients /\ NoThread \notin Threads
ASSUME CommandsAssumption == NoCommand \notin Commands /\ Unique \subseteq Commands
ASSUME ControlsAssumption == Controls \subseteq (DOMAIN StatusOf \union {"clear"})
ASSUME MaxControlAssumption == MaxControl \in Nat
ASSUME BuildsAssumption == Builds \subseteq {"pthread", "win32"}

VARIABLES
    build,      \* which API the library was built for
    mStatus,    \* Worker::mStatus
    mQueue,     \* Worker::mQueue
    listLock,   \* holder of Worker::mListMutex
    event,      \* a notification the waiting thread has not consumed
    pc,         \* control point of each thread
    command,    \* run(): the command taken from the queue
    draining,   \* run(): TRUE in the second loop, on line 137
    arg,        \* the command each client is adding
    calls,      \* control calls begun
    freed,      \* history: deleted commands
    refused,    \* history: commands enqueue_unique did not add
    ticket,     \* history: order in which commands were added
    issued,     \* history: number of commands added
    executed,   \* history: commands passed to execute(), in order
    promised    \* history: "issued" when terminate() last set TERM

history == <<refused, ticket, issued, executed, promised>>
local == <<build, command, draining>>
vars == <<mStatus, mQueue, listLock, event, pc, local, arg, calls, freed, history>>

Queued == {mQueue[i] : i \in DOMAIN mQueue}

Init ==
    /\ build \in Builds
    /\ mStatus = "INIT"
    /\ mQueue = <<>>
    /\ listLock = NoThread
    /\ event = FALSE
    /\ pc = [t \in Threads |-> IF t = Runner THEN "born" ELSE "idle"]
    /\ command = NoCommand
    /\ draining = FALSE
    /\ arg = [c \in Clients |-> NoCommand]
    /\ calls = 0
    /\ freed = {}
    /\ refused = {}
    /\ ticket = [x \in Commands |-> 0]
    /\ issued = 0
    /\ executed = <<>>
    /\ promised = 0

Goto(t, label) == pc' = [pc EXCEPT ![t] = label]

\* Faulty variants, named Faulty..., stand before the definition they replace;
\* no specification uses them.  This one forgets the peel::Lock of a method.
FaultyAcquire(t) == listLock' = t

\* Constructor and destructor of peel::Lock on mListMutex.
Acquire(t) == listLock = NoThread /\ listLock' = t
Release == listLock' = NoThread

AutoReset == build = "win32"

\* Condition::notify().
Signal ==
    event' = IF AutoReset \/ pc[Runner] = "waiting" THEN TRUE ELSE event

-----------------------------------------------------------------------------
(* Client threads *)

\* A command the caller still owns: never handed over, and in nobody's hands.
Fresh(x) ==
    /\ ticket[x] = 0
    /\ x \notin refused
    /\ \A c \in Clients : arg[c] # x

CallEnqueue(c, x) ==
    /\ pc[c] = "idle"
    /\ Fresh(x)
    /\ Acquire(c)
    /\ arg' = [arg EXCEPT ![c] = x]
    /\ Goto(c, IF x \in Unique THEN "scan" ELSE "push")
    /\ UNCHANGED <<mStatus, mQueue, event, local, calls, freed, history>>

\* enqueue_unique without the return of line 77.
FaultyRefuse(c) ==
    /\ pc[c] = "scan"
    /\ \E y \in Queued : Code[y] = Code[arg[c]]
    /\ refused' = refused \union {arg[c]}
    /\ arg' = [arg EXCEPT ![c] = NoCommand]
    /\ Goto(c, "push")
    /\ UNCHANGED <<mStatus, mQueue, listLock, event, local, calls, freed,
                   ticket, issued, executed, promised>>

\* The loop of enqueue_unique: a command with the same code is already queued.
Refuse(c) ==
    /\ pc[c] = "scan"
    /\ \E y \in Queued : Code[y] = Code[arg[c]]
    /\ refused' = refused \union {arg[c]}
    /\ arg' = [arg EXCEPT ![c] = NoCommand]
    /\ Release
    /\ Goto(c, "idle")
    /\ UNCHANGED <<mStatus, mQueue, event, local, calls, freed,
                   ticket, issued, executed, promised>>

Admit(c) ==
    /\ pc[c] = "scan"
    /\ \A y \in Queued : Code[y] # Code[arg[c]]
    /\ Goto(c, "push")
    /\ UNCHANGED <<mStatus, mQueue, listLock, event, local, arg, calls, freed, history>>

\* push_front in place of push_back.
FaultyPush(c) ==
    /\ pc[c] = "push"
    /\ mQueue' = <<arg[c]>> \o mQueue
    /\ issued' = issued + 1
    /\ ticket' = [ticket EXCEPT ![arg[c]] = issued + 1]
    /\ arg' = [arg EXCEPT ![c] = NoCommand]
    /\ Goto(c, "notify")
    /\ UNCHANGED <<mStatus, listLock, event, local, calls, freed,
                   refused, executed, promised>>

Push(c) ==
    /\ pc[c] = "push"
    /\ mQueue' = Append(mQueue, arg[c])
    /\ issued' = issued + 1
    /\ ticket' = [ticket EXCEPT ![arg[c]] = issued + 1]
    /\ arg' = [arg EXCEPT ![c] = NoCommand]
    /\ Goto(c, "notify")
    /\ UNCHANGED <<mStatus, listLock, event, local, calls, freed,
                   refused, executed, promised>>

\* terminate(), stop(), pause(), resume() and clear() up to the lock they take.
CallControl(c, op) ==
    /\ pc[c] = "idle"
    /\ calls < MaxControl
    /\ calls' = calls + 1
    /\ Acquire(c)
    /\ Goto(c, op)
    /\ UNCHANGED <<mStatus, mQueue, event, local, arg, freed, history>>

\* The assignment to mStatus; pause() returns without notify().
SetStatus(c) ==
    /\ pc[c] \in DOMAIN StatusOf
    /\ mStatus' = StatusOf[pc[c]]
    /\ promised' = IF pc[c] = "terminate" THEN issued ELSE promised
    /\ IF pc[c] = "pause"
       THEN Release /\ Goto(c, "idle")
       ELSE Goto(c, "notify") /\ UNCHANGED listLock
    /\ UNCHANGED <<mQueue, event, local, arg, calls, freed,
                   refused, ticket, issued, executed>>

\* A method that returns without notify().
FaultyNotify(c) ==
    /\ pc[c] = "notify"
    /\ Release
    /\ Goto(c, "idle")
    /\ UNCHANGED <<mStatus, mQueue, event, local, arg, calls, freed, history>>

Notify(c) ==
    /\ pc[c] = "notify"
    /\ Signal
    /\ Release
    /\ Goto(c, "idle")
    /\ UNCHANGED <<mStatus, mQueue, local, arg, calls, freed, history>>

\* clear(), in a client or at the end of run(): delete every element ...
ClearDelete(t) ==
    /\ pc[t] = "clear"
    /\ freed' = freed \union Queued
    /\ Goto(t, "empty")
    /\ UNCHANGED <<mStatus, mQueue, listLock, event, local, arg, calls, history>>

\* ... then mQueue.clear() and return.
ClearEmpty(t) ==
    /\ pc[t] = "empty"
    /\ mQueue' = <<>>
    /\ Release
    /\ Goto(t, IF t = Runner THEN "done" ELSE "idle")
    /\ UNCHANGED <<mStatus, event, local, arg, calls, freed, history>>

-----------------------------------------------------------------------------
(* The thread inside run() *)

Start ==
    /\ pc[Runner] = "born"
    /\ mStatus' = "RUNNING"
    /\ Goto(Runner, "loop")
    /\ UNCHANGED <<mQueue, listLock, event, local, arg, calls, freed, history>>

\* A jump of run() on what it reads, with no other effect.
Jump(from, to) ==
    /\ pc[Runner] = from
    /\ Goto(Runner, to)
    /\ UNCHANGED <<mStatus, mQueue, listLock, event, local, arg, calls, freed, history>>

\* while (mStatus == RUNNING || mStatus == PAUSE), one load for each operand.
TestRunning ==
    Jump("loop", IF mStatus = "RUNNING" THEN "runone" ELSE "loop2")

TestPause ==
    \/ mStatus = "PAUSE" /\ Jump("loop2", "runone")
    \/ /\ mStatus # "PAUSE"
       /\ pc[Runner] = "loop2"
       /\ draining' = TRUE
       /\ Goto(Runner, "drain")
       /\ UNCHANGED <<build, mStatus, mQueue, listLock, event, command, arg, calls, freed, history>>

\* while (mStatus == TERM && mQueue.size()), size() without the mutex.
TestTerm == Jump("drain", IF mStatus = "TERM" THEN "size" ELSE "finish")
TestSize == Jump("size", IF mQueue # <<>> THEN "runone" ELSE "finish")

LoopLabel == IF draining THEN "drain" ELSE "loop"

\* runone(): if(mStatus == PAUSE) wait().
RunOne == Jump("runone", IF mStatus = "PAUSE" THEN "wait" ELSE "getlock")

GetLock ==
    /\ pc[Runner] = "getlock"
    /\ Acquire(Runner)
    /\ Goto(Runner, "get")
    /\ UNCHANGED <<mStatus, mQueue, event, local, arg, calls, freed, history>>

Get ==
    /\ pc[Runner] = "get"
    /\ Release
    /\ IF mQueue # <<>>
       THEN /\ command' = Head(mQueue)
            /\ mQueue' = Tail(mQueue)
            /\ Goto(Runner, "execute")
       ELSE /\ Goto(Runner, "null")
            /\ UNCHANGED <<command, mQueue>>
    /\ UNCHANGED <<build, mStatus, event, draining, arg, calls, freed, history>>

\* command == NULL: leave if the status is TERM, else block.
TestNull == Jump("null", IF mStatus = "TERM" THEN "setend" ELSE "wait")

SetEnd ==
    /\ pc[Runner] = "setend"
    /\ mStatus' = "END"
    /\ Goto(Runner, LoopLabel)
    /\ UNCHANGED <<mQueue, listLock, event, local, arg, calls, freed, history>>

Execute ==
    /\ pc[Runner] = "execute"
    /\ executed' = Append(executed, command)
    /\ Goto(Runner, "delete")
    /\ UNCHANGED <<mStatus, mQueue, listLock, event, local, arg, calls, freed,
                   refused, ticket, issued, promised>>

\* runone() without the delete of line 173.
FaultyDelete ==
    /\ pc[Runner] = "delete"
    /\ command' = NoCommand
    /\ Goto(Runner, LoopLabel)
    /\ UNCHANGED <<build, mStatus, mQueue, listLock, event, draining, arg, calls, freed, history>>

Delete ==
    /\ pc[Runner] = "delete"
    /\ freed' = freed \union {command}
    /\ command' = NoCommand
    /\ Goto(Runner, LoopLabel)
    /\ UNCHANGED <<build, mStatus, mQueue, listLock, event, draining, arg, calls, history>>

\* ResetEvent before WaitForSingleObject instead of after it.
FaultyWait ==
    /\ pc[Runner] = "wait"
    /\ event' = FALSE
    /\ Goto(Runner, "waiting")
    /\ UNCHANGED <<mStatus, mQueue, listLock, local, arg, calls, freed, history>>

\* Condition::wait(): the thread joins the waiters ...
Wait == Jump("wait", "waiting")

\* ... a notification ends the wait (on Windows ResetEvent follows) ...
Wake ==
    /\ pc[Runner] = "waiting"
    /\ event
    /\ event' = FALSE
    /\ Goto(Runner, IF AutoReset THEN "reset" ELSE LoopLabel)
    /\ UNCHANGED <<mStatus, mQueue, listLock, local, arg, calls, freed, history>>

\* ... pthread_cond_wait may also return without one.
SpuriousWake == ~AutoReset /\ ~event /\ Jump("waiting", LoopLabel)

Reset ==
    /\ pc[Runner] = "reset"
    /\ event' = FALSE
    /\ Goto(Runner, LoopLabel)
    /\ UNCHANGED <<mStatus, mQueue, listLock, local, arg, calls, freed, history>>

FinishLock ==
    /\ pc[Runner] = "finish"
    /\ Acquire(Runner)
    /\ Goto(Runner, "clear")
    /\ UNCHANGED <<mStatus, mQueue, event, local, arg, calls, freed, history>>

-----------------------------------------------------------------------------
ClientCall(c) ==
    \/ \E x \in Commands : CallEnqueue(c, x)
    \/ \E op \in Controls : CallControl(c, op)

ClientStep(c) ==
    \/ Refuse(c) \/ Admit(c) \/ Push(c) \/ SetStatus(c) \/ Notify(c)
    \/ ClearDelete(c) \/ ClearEmpty(c)

RunnerStep ==
    \/ Start \/ TestRunning \/ TestPause \/ TestTerm \/ TestSize
    \/ RunOne \/ GetLock \/ Get \/ TestNull \/ SetEnd \/ Execute \/ Delete
    \/ Wait \/ Wake \/ Reset
    \/ FinishLock \/ ClearDelete(Runner) \/ ClearEmpty(Runner)

Next ==
    \/ \E c \in Clients : ClientCall(c) \/ ClientStep(c)
    \/ RunnerStep
    \/ SpuriousWake

Spec == Init /\ [][Next]_vars

(* A thread inside a method, or inside run(), keeps running: the scheduler   *)
(* does not stop a runnable thread for ever and execute() returns.  Nothing  *)
(* obliges a client to make another call or the system to wake a waiter      *)
(* spuriously.  Weak fairness is enough for the mutex because only finitely  *)
(* many calls (Commands and MaxControl) compete for it.                      *)
Fairness ==
    /\ WF_vars(RunnerStep)
    /\ \A c \in Clients : WF_vars(ClientStep(c))

FairSpec == Spec /\ Fairness

-----------------------------------------------------------------------------
(* Properties *)

ClientLabels == {"idle", "scan", "push", "notify", "empty"} \union Controls
RunnerLabels ==
    {"born", "loop", "loop2", "drain", "size", "runone", "getlock", "get", "null",
     "setend", "execute", "delete", "wait", "waiting", "reset", "finish", "clear",
     "empty", "done"}

\* Type invariant of the worker's members, its run() thread and the history.
TypeOK ==
    /\ build \in {"pthread", "win32"}
    /\ mStatus \in Status
    /\ mQueue \in Seq(Commands)
    /\ listLock \in Threads \union {NoThread}
    /\ event \in BOOLEAN
    /\ pc \in [Threads -> ClientLabels \union RunnerLabels]
    /\ pc[Runner] \in RunnerLabels
    /\ \A c \in Clients : pc[c] \in ClientLabels
    /\ command \in Commands \union {NoCommand}
    /\ draining \in BOOLEAN
    /\ arg \in [Clients -> Commands \union {NoCommand}]
    /\ calls \in 0..MaxControl
    /\ freed \subseteq Commands
    /\ refused \subseteq Commands
    /\ ticket \in [Commands -> Nat]
    /\ issued \in Nat
    /\ executed \in Seq(Commands)
    /\ promised \in Nat

\* A command is deleted only when nobody can reach it any more: run() never
\* holds a deleted one, and the queue holds deleted ones only while the thread
\* that is inside clear() still has mListMutex (Worker.h:102-113 and 171-173).
NoUseAfterFree ==
    /\ command \notin freed
    /\ (\A t \in Threads : pc[t] # "empty") => Queued \cap freed = {}

\* A command that was added is queued, being run, or deleted: clear(), stop()
\* and the end of run() leak none, whatever calls overlap with them.
NoneLeaked ==
    \A x \in Commands : ticket[x] > 0 => x \in Queued \union {command} \union freed

\* "The execute method will recieve the commands in the order they are added"
\* (Worker.h:27-28), each of them at most once.
InOrder ==
    \A i, j \in DOMAIN executed : i < j => ticket[executed[i]] < ticket[executed[j]]

\* enqueue_unique (Worker.h:72-81) never leaves its command behind another one
\* of the same code, although other clients add and the runner takes meanwhile.
UniqueInQueue ==
    \A i, j \in DOMAIN mQueue :
        i < j /\ mQueue[j] \in Unique => Code[mQueue[i]] # Code[mQueue[j]]

\* The worker implements the abstract command queue.
Abstract == INSTANCE CommandQueue WITH
    pending <- Queued \ freed,
    running <- IF pc[Runner] = "execute" THEN command ELSE NoCommand
Implements == Abstract!Spec

\* No command waits for ever in the queue of a worker that is neither paused
\* nor finished: "If the queue empties, the worker will block until a new entry
\* is added" (Worker.h:21-22), and no longer.  So it is with the event, which
\* keeps a notification that comes between get() and wait().
Served ==
    \A x \in Commands :
        []<>(~AutoReset \/ x \notin Queued \/ mStatus = "PAUSE" \/ pc[Runner] = "done")

\* With the event, a worker whose status stays TERM or END leaves run(), from
\* wherever in the loop the call found it (Worker.h:84-99).
Leaves == []<>(AutoReset /\ mStatus \in {"TERM", "END"} => pc[Runner] = "done")

\* The same of both implementations, as the comment has it.
ServedAlways ==
    \A x \in Commands :
        []<>(x \notin Queued \/ mStatus = "PAUSE" \/ pc[Runner] = "done")

\* "Finish all tasks" (Worker.h:84): when terminate() is the only control call,
\* no command queued before it is deleted without being run.
TerminateFinishes ==
    \A x \in Commands :
        ticket[x] \in 1..promised /\ x \in freed => \E i \in DOMAIN executed : executed[i] = x
=============================================================================
