-------------------------------- MODULE Log --------------------------------
(* peel::Log (Log.cpp, Log.h): threads that log through one object, by       *)
(* streamed statements (log << logLock << ... << logMsg) and by calls        *)
(* (write, warn, error, ...), and one thread that redirects it with SetLog.  *)
(*                                                                           *)
(* The mutex is held from logLock to logMsg, logErr or logWarn, and across a *)
(* call's output().  SetLog takes no lock, so each of its accesses to        *)
(* fp_stream and each of _output()'s is a step.  The mutex of the "pthread"  *)
(* build is not recursive, the critical section of the "win32" build is.     *)
(*                                                                           *)
(* A part is one operand of a statement.  Types, times and formatting are    *)
(* the "head" of a line.  Statements are numbered as they begin.             *)
EXTENDS Naturals, Sequences

CONSTANTS
    Writers,        \* threads that log
    NoThread,
    Builds,         \* the builds considered, a subset of {"pthread", "win32"}
    MaxStatements,  \* bound on the statements and calls
    MaxParts,       \* bound on the operands of a statement
    MaxSetLog       \* bound on the calls of SetLog after the constructor

ASSUME WritersAssumption == NoThread \notin Writers
ASSUME BuildsAssumption == Builds \subseteq {"pthread", "win32"}
ASSUME BoundsAssumption ==
    MaxStatements \in Nat /\ MaxParts \in Nat /\ MaxSetLog \in Nat

VARIABLES
    build,      \* which API the library was built for
    m_mutex,    \* holder of m_mutex or of the critical section
    depth,      \* how often the holder has entered the critical section
    m_buffer,   \* the parts in Log::m_buffer
    fp_stream,  \* 0 for NULL, or the number of the stream it points to
    stream,     \* state of the stream of the constructor (1) and of each SetLog
    sink,       \* what was written: to the console (0) and to each stream's file
    pc,         \* control point of each writer
    outer,      \* the streamed statement a writer is in, 0 if none
    inner,      \* the call a writer is in, 0 if none
    spc,        \* control point of the thread that calls SetLog
    crashed,    \* a null or deleted stream was dereferenced
    begun,      \* history: statements and calls begun
    said,       \* history: what each of them was given to write
    done,       \* history: those that have ended
    overlapped, \* history: those during which SetLog ran
    current,    \* history: where the last SetLog that ended sends the lines
    target      \* history: "current" when each of them began

lockVars == <<m_mutex, depth>>
streamVars == <<fp_stream, stream>>
history == <<begun, said, done, overlapped, current, target>>
vars == <<build, lockVars, m_buffer, streamVars, sink, pc, outer, inner, spc,
          crashed, history>>

Ids == 1..MaxStatements
Streams == 1..(MaxSetLog + 1)
Sinks == 0..(MaxSetLog + 1)

Init ==
    /\ build \in Builds
    /\ m_mutex = NoThread
    /\ depth = 0
    /\ m_buffer = <<>>
    \* Log(), or Log(outfile) whose file cannot be opened; Log(outfile); Log("")
    /\ \E opened \in {"none", "open", "unopened"} :
          /\ stream = [k \in Streams |-> IF k = 1 THEN opened ELSE "none"]
          /\ fp_stream = IF opened = "none" THEN 0 ELSE 1
          /\ current = IF opened = "open" THEN 1 ELSE 0
    /\ sink = [k \in Sinks |-> <<>>]
    /\ pc = [t \in Writers |-> "idle"]
    /\ outer = [t \in Writers |-> 0]
    /\ inner = [t \in Writers |-> 0]
    /\ spc = "idle"
    /\ crashed = FALSE
    /\ begun = 0
    /\ said = [s \in Ids |-> <<>>]
    /\ done = {}
    /\ overlapped = {}
    /\ target = [s \in Ids |-> 0]

Goto(t, label) == pc' = [pc EXCEPT ![t] = label]

-----------------------------------------------------------------------------
(* The lock *)

\* waitForLock() of the build without a lock (DONT_USE_CRITICAL_SECTION).
FaultyWaitForLock(t) == m_mutex' = t /\ depth' = depth + 1

\* waitForLock(): the critical section lets its holder in again.
WaitForLock(t) ==
    /\ m_mutex = NoThread \/ (build = "win32" /\ m_mutex = t)
    /\ m_mutex' = t
    /\ depth' = depth + 1

UnLock ==
    /\ depth' = depth - 1
    /\ m_mutex' = IF depth = 1 THEN NoThread ELSE m_mutex

-----------------------------------------------------------------------------
(* A statement or a call *)

\* The history of statement s, which is given text to begin with.
Begin(s, text) ==
    /\ s \in Ids
    /\ spc # "gone"
    /\ begun' = s
    /\ said' = [said EXCEPT ![s] = text]
    /\ target' = [target EXCEPT ![s] = current]
    /\ overlapped' = IF spc = "idle" THEN overlapped ELSE overlapped \union {s}
    /\ UNCHANGED <<done, current>>

BeginStream(t) ==
    /\ pc[t] = "idle"
    /\ Begin(begun + 1, <<>>)
    /\ outer' = [outer EXCEPT ![t] = begun + 1]
    /\ Goto(t, "logLock")
    /\ UNCHANGED <<build, lockVars, m_buffer, streamVars, sink, inner, spc, crashed>>

\* write(), warn(), error() ...: the message is formatted into a local stream.
\* An operand of a streamed statement may make such a call.
BeginCall(t) ==
    /\ pc[t] \in {"idle", "operands"}
    /\ Begin(begun + 1, <<<<begun + 1, 1>>>>)
    /\ inner' = [inner EXCEPT ![t] = begun + 1]
    /\ Goto(t, "output")
    /\ UNCHANGED <<build, lockVars, m_buffer, streamVars, sink, outer, spc, crashed>>

LogLock(t) ==
    /\ pc[t] = "logLock"
    /\ WaitForLock(t)
    /\ Goto(t, "operands")
    /\ UNCHANGED <<build, m_buffer, streamVars, sink, outer, inner, spc, crashed, history>>

\* operator<< of a value.
Operand(t) ==
    /\ pc[t] = "operands"
    /\ Len(said[outer[t]]) < MaxParts
    /\ LET part == <<outer[t], Len(said[outer[t]]) + 1>> IN
       /\ m_buffer' = Append(m_buffer, part)
       /\ said' = [said EXCEPT ![outer[t]] = Append(@, part)]
    /\ UNCHANGED <<build, lockVars, streamVars, sink, pc, outer, inner, spc, crashed,
                   begun, done, overlapped, current, target>>

\* logMsg(), logErr() or logWarn(): endmsg() passes on what is in the buffer.
EndMsg(t) ==
    /\ pc[t] = "operands"
    /\ Goto(t, "test")
    /\ UNCHANGED <<build, lockVars, m_buffer, streamVars, sink, outer, inner, spc,
                   crashed, history>>

\* output()
Output(t) ==
    /\ pc[t] = "output"
    /\ WaitForLock(t)
    /\ Goto(t, "test")
    /\ UNCHANGED <<build, m_buffer, streamVars, sink, outer, inner, spc, crashed, history>>

-----------------------------------------------------------------------------
(* _output() *)

InCall(t) == inner[t] # 0
Statement(t) == IF InCall(t) THEN inner[t] ELSE outer[t]
Message(t) == IF InCall(t) THEN said[inner[t]] ELSE m_buffer

\* Where _output() returns to: output(), or endmsg().
Return(t) == Goto(t, IF InCall(t) THEN "callUnLock" ELSE "clear")

Dangling == fp_stream \notin {k \in Streams : stream[k] # "deleted"}

\* The process ends when fp_stream, read again, is null or deleted.
Crash(t) ==
    /\ pc[t] \in {"isOpen", "head", "text"}
    /\ Dangling
    /\ crashed' = TRUE
    /\ UNCHANGED <<build, lockVars, m_buffer, streamVars, sink, pc, outer, inner, spc, history>>

\* if(fp_stream != NULL && fp_stream->is_open()): two loads of fp_stream.
TestNull(t) ==
    /\ pc[t] = "test"
    /\ Goto(t, IF fp_stream = 0 THEN "console" ELSE "isOpen")
    /\ UNCHANGED <<build, lockVars, m_buffer, streamVars, sink, outer, inner, spc,
                   crashed, history>>

IsOpen(t) ==
    /\ pc[t] = "isOpen"
    /\ ~Dangling
    /\ Goto(t, IF stream[fp_stream] = "open" THEN "head" ELSE "console")
    /\ UNCHANGED <<build, lockVars, m_buffer, streamVars, sink, outer, inner, spc,
                   crashed, history>>

\* *fp_stream << ...: a stream that is not open takes nothing.
Put(token) ==
    sink' = IF stream[fp_stream] = "open"
            THEN [sink EXCEPT ![fp_stream] = Append(@, token)]
            ELSE sink

\* The time, if it is shown, and the type.
LineHead(t) ==
    /\ pc[t] = "head"
    /\ ~Dangling
    /\ Put(<<Statement(t), "head", <<>>>>)
    /\ Goto(t, "text")
    /\ UNCHANGED <<build, lockVars, m_buffer, streamVars, outer, inner, spc, crashed, history>>

Text(t) ==
    /\ pc[t] = "text"
    /\ ~Dangling
    /\ Put(<<Statement(t), "text", Message(t)>>)
    /\ Return(t)
    /\ UNCHANGED <<build, lockVars, m_buffer, streamVars, outer, inner, spc, crashed, history>>

Console(t) ==
    /\ pc[t] = "console"
    /\ sink' = [sink EXCEPT ![0] = Append(@, <<Statement(t), "text", Message(t)>>)]
    /\ Return(t)
    /\ UNCHANGED <<build, lockVars, m_buffer, streamVars, outer, inner, spc, crashed, history>>

-----------------------------------------------------------------------------
(* The end of a statement or a call *)

\* endmsg() that keeps its buffer.
FaultyClear(t) ==
    /\ pc[t] = "clear"
    /\ Goto(t, "unLock")
    /\ UNCHANGED <<build, lockVars, m_buffer, streamVars, sink, outer, inner, spc,
                   crashed, history>>

\* m_buffer.str("")
Clear(t) ==
    /\ pc[t] = "clear"
    /\ m_buffer' = <<>>
    /\ Goto(t, "unLock")
    /\ UNCHANGED <<build, lockVars, streamVars, sink, outer, inner, spc, crashed, history>>

EndStream(t) ==
    /\ pc[t] = "unLock"
    /\ UnLock
    /\ done' = done \union {outer[t]}
    /\ outer' = [outer EXCEPT ![t] = 0]
    /\ Goto(t, "idle")
    /\ UNCHANGED <<build, m_buffer, streamVars, sink, inner, spc, crashed, begun, said,
                   overlapped, current, target>>

EndCall(t) ==
    /\ pc[t] = "callUnLock"
    /\ UnLock
    /\ done' = done \union {inner[t]}
    /\ inner' = [inner EXCEPT ![t] = 0]
    /\ Goto(t, IF outer[t] = 0 THEN "idle" ELSE "operands")
    /\ UNCHANGED <<build, m_buffer, streamVars, sink, outer, spc, crashed, begun, said,
                   overlapped, current, target>>

-----------------------------------------------------------------------------
(* SetLog() and the destructor *)

setLogRest == <<build, lockVars, m_buffer, sink, pc, outer, inner, crashed>>

Active == {outer[t] : t \in Writers} \union {inner[t] : t \in Writers}

Created == {k \in Streams \ {1} : stream[k] # "none"}

\* new fstream(); the stream before is forgotten, and stays open.  With an
\* empty name SetLog returns here.
SetLogNew ==
    /\ spc = "idle"
    /\ \E k \in Streams \ {1} :
          /\ Created = 2..(k - 1)
          /\ stream' = [stream EXCEPT ![k] = "unopened"]
          /\ fp_stream' = k
    /\ spc' \in {"idle", "open"}
    /\ current' = IF spc' = "idle" THEN 0 ELSE current
    /\ overlapped' = overlapped \union (Active \ {0})
    /\ UNCHANGED <<setLogRest, begun, said, done, target>>

\* open() and the test of is_open()
SetLogOpen ==
    /\ spc = "open"
    /\ \/ /\ stream' = [stream EXCEPT ![fp_stream] = "open"]
          /\ spc' = "idle"
          /\ current' = fp_stream
       \/ /\ spc' = "delete"
          /\ UNCHANGED <<stream, current>>
    /\ UNCHANGED <<setLogRest, fp_stream, begun, said, done, overlapped, target>>

SetLogDelete ==
    /\ spc = "delete"
    /\ stream' = [stream EXCEPT ![fp_stream] = "deleted"]
    /\ spc' = "null"
    /\ UNCHANGED <<setLogRest, fp_stream, history>>

\* A failed SetLog that leaves fp_stream where the deleted stream was.
FaultySetLogNull ==
    /\ spc = "null"
    /\ spc' = "idle"
    /\ current' = 0
    /\ UNCHANGED <<setLogRest, streamVars, begun, said, done, overlapped, target>>

SetLogNull ==
    /\ spc = "null"
    /\ fp_stream' = 0
    /\ spc' = "idle"
    /\ current' = 0
    /\ UNCHANGED <<setLogRest, stream, begun, said, done, overlapped, target>>

\* ~Log(), when nobody uses the object any more.
Destroy ==
    /\ spc = "idle"
    /\ \A t \in Writers : pc[t] = "idle"
    /\ stream' = [k \in Streams |-> IF k = fp_stream THEN "deleted" ELSE stream[k]]
    /\ spc' = "gone"
    /\ UNCHANGED <<setLogRest, fp_stream, history>>

-----------------------------------------------------------------------------
WriterStep(t) ==
    \/ LogLock(t) \/ Operand(t) \/ EndMsg(t) \/ Output(t)
    \/ TestNull(t) \/ IsOpen(t) \/ LineHead(t) \/ Text(t) \/ Console(t) \/ Crash(t)
    \/ Clear(t) \/ EndStream(t) \/ EndCall(t)

SetLogStep == SetLogOpen \/ SetLogDelete \/ SetLogNull

Next ==
    /\ ~crashed
    /\ \/ \E t \in Writers : BeginStream(t) \/ BeginCall(t) \/ WriterStep(t)
       \/ SetLogNew \/ SetLogStep
       \/ Destroy

Spec == Init /\ [][Next]_vars

(* A thread inside a statement goes on; nobody need begin one or redirect    *)
(* the log.  Weak fairness is enough for the mutex because only finitely     *)
(* many statements (MaxStatements) compete for it.                           *)
FairSpec == Spec /\ \A t \in Writers : WF_vars(~crashed /\ WriterStep(t))

-----------------------------------------------------------------------------
(* Properties *)

Parts == Ids \X (1..MaxParts \union {1})
Tokens == Ids \X {"head", "text"} \X Seq(Parts)

Labels ==
    {"idle", "logLock", "operands", "output", "test", "isOpen", "head", "text",
     "console", "clear", "unLock", "callUnLock"}

\* Type invariant of the object, its threads and the history.
TypeOK ==
    /\ build \in {"pthread", "win32"}
    /\ m_mutex \in Writers \union {NoThread}
    /\ depth \in Nat
    /\ m_buffer \in Seq(Parts)
    /\ fp_stream \in Sinks
    /\ stream \in [Streams -> {"none", "unopened", "open", "deleted"}]
    /\ sink \in [Sinks -> Seq(Tokens)]
    /\ pc \in [Writers -> Labels]
    /\ outer \in [Writers -> 0..MaxStatements]
    /\ inner \in [Writers -> 0..MaxStatements]
    /\ spc \in {"idle", "open", "delete", "null", "gone"}
    /\ crashed \in BOOLEAN
    /\ begun \in 0..MaxStatements
    /\ said \in [Ids -> Seq(Parts)]
    /\ done \subseteq Ids /\ overlapped \subseteq Ids
    /\ current \in Sinks
    /\ target \in [Ids -> Sinks]

\* The one m_buffer that all threads stream into never holds a part of another
\* statement than the one whose thread holds the lock, and all of its parts
\* ("Lock the log object for writing", Log.h:206), whoever calls write() and
\* SetLog() meanwhile.
BufferPrivate ==
    m_buffer # <<>> =>
        /\ m_mutex \in Writers
        /\ outer[m_mutex] # 0
        /\ m_buffer = said[outer[m_mutex]]

\* The tokens of a line in sink k.
Line(s, k) ==
    (IF k = 0 THEN <<>> ELSE << <<s, "head", <<>>>> >>) \o << <<s, "text", said[s]>> >>

Indices(s, k) == {i \in DOMAIN sink[k] : sink[k][i][1] = s}

\* "All output is thread safe" (Log.h:42): a statement or call that no SetLog
\* overlapped has its line in the sink the last SetLog chose (stdout if that
\* failed, Log.h:54), whole, uninterrupted, once, and nowhere else.
LinesWhole ==
    \A s \in done \ overlapped : \A k \in Sinks :
        IF k = target[s]
        THEN /\ \E i \in DOMAIN sink[k] :
                    SubSeq(sink[k], i, i + Len(Line(s, k)) - 1) = Line(s, k)
             /\ \A i, j \in Indices(s, k) : sink[k][i][2] = sink[k][j][2] => i = j
        ELSE Indices(s, k) = {}

\* A streamed statement whose operand calls write(), on the pthread build.
SelfLocked ==
    build = "pthread" /\ \E t \in Writers : m_mutex = t /\ pc[t] = "output"

\* The process died in a statement that SetLog overlapped.
Killed ==
    /\ crashed
    /\ \E t \in Writers :
          pc[t] \in {"isOpen", "head", "text"} /\ Statement(t) \in overlapped

\* A statement that has begun ends, unless a thread waits for its own lock or
\* SetLog, which takes no lock, pulls the stream from under a line: no path
\* leaves the lock behind, and a SetLog that failed before leaves nothing that
\* a later statement trips over.
LineComes ==
    \A t \in Writers : pc[t] # "idle" ~> (pc[t] = "idle" \/ SelfLocked \/ Killed)
=============================================================================
