---------------------------- MODULE CommandQueue ----------------------------
(* What peel::Worker promises to the code that queues commands on it         *)
(* (Worker.h:19-33): a command is run at most once, one command runs at a    *)
(* time, and commands start in the order in which they were added.  Pending  *)
(* commands are lost only all together, when the queue is discarded.         *)
EXTENDS Naturals, Sequences

CONSTANTS Commands, NoCommand

VARIABLES
    ticket,     \* position of each command in the order of addition, 0 before
    issued,     \* number of commands added
    pending,    \* the set of commands waiting to run
    running,    \* the command being run, or NoCommand
    executed    \* the commands that ran, in order

vars == <<ticket, issued, pending, running, executed>>

Init ==
    /\ ticket = [x \in Commands |-> 0]
    /\ issued = 0
    /\ pending = {}
    /\ running = NoCommand
    /\ executed = <<>>

Add(x) ==
    /\ ticket[x] = 0
    /\ issued' = issued + 1
    /\ ticket' = [ticket EXCEPT ![x] = issued + 1]
    /\ pending' = pending \union {x}
    /\ UNCHANGED <<running, executed>>

Begin(x) ==
    /\ running = NoCommand
    /\ x \in pending
    /\ \A y \in pending : ticket[x] <= ticket[y]
    /\ pending' = pending \ {x}
    /\ running' = x
    /\ UNCHANGED <<ticket, issued, executed>>

Finish ==
    /\ running # NoCommand
    /\ executed' = Append(executed, running)
    /\ running' = NoCommand
    /\ UNCHANGED <<ticket, issued, pending>>

Discard ==
    /\ pending' = {}
    /\ UNCHANGED <<ticket, issued, running, executed>>

Next ==
    \/ \E x \in Commands : Add(x) \/ Begin(x)
    \/ Finish
    \/ Discard

Spec == Init /\ [][Next]_vars
=============================================================================
