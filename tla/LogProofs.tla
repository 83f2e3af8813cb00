----------------------------- MODULE LogProofs -----------------------------
(* Theorems about Log, for any threads, either build and all bounds.         *)
(*                                                                           *)
(* What the buffer holds depends on who holds the lock, so the inductive     *)
(* invariant relates the threads' control points to the lock (LockInv),      *)
(* which on the "win32" build may be entered twice, keeps the numbers of     *)
(* statements apart (NumberInv), and then says what the buffer holds at each *)
(* point (BufferInv).  The lines need more: a number is never used again      *)
(* (IdInv), fp_stream and the stream agree with what SetLog chose last        *)
(* (StreamInv), and the tokens of a statement that no SetLog overlapped are   *)
(* those of its control point, in the sink it was begun for (LineInv).        *)
EXTENDS Log, SequenceTheorems, TLAPS

USE WritersAssumption, BuildsAssumption, BoundsAssumption

-----------------------------------------------------------------------------
(* The inductive invariant *)

\* Thread t is between its first waitForLock() and its last unLock().
Holds(t) ==
    /\ pc[t] \notin {"idle", "logLock"}
    /\ pc[t] = "output" => outer[t] # 0

\* Inside _output().
Outputs == {"test", "isOpen", "head", "text", "console"}

\* How often t has entered the lock.
Level(t) ==
    (IF outer[t] # 0 THEN 1 ELSE 0)
        + (IF inner[t] # 0 /\ pc[t] # "output" THEN 1 ELSE 0)

\* The statement and the call a thread is in, by its control point.
PlaceInv ==
    \A t \in Writers :
        /\ pc[t] = "idle" => outer[t] = 0 /\ inner[t] = 0
        /\ pc[t] \in {"logLock", "operands", "clear", "unLock"} =>
              outer[t] # 0 /\ inner[t] = 0
        /\ pc[t] \in {"output", "callUnLock"} => inner[t] # 0
        /\ pc[t] \in Outputs => outer[t] # 0 \/ inner[t] # 0

LockInv ==
    /\ \A t \in Writers : Holds(t) <=> m_mutex = t
    /\ m_mutex = NoThread => depth = 0
    /\ \A t \in Writers : m_mutex = t => depth = Level(t)

\* No two threads are in the same statement.
NumberInv ==
    /\ \A t \in Writers : outer[t] <= begun
    /\ \A t, u \in Writers : t # u /\ outer[t] = outer[u] => outer[t] = 0

\* A thread fills the buffer, and may write it out: from logLock to endmsg().
Fills(t) == m_mutex = t /\ outer[t] # 0 /\ pc[t] # "unLock"

BufferInv ==
    /\ \A t \in Writers : pc[t] = "logLock" => said[outer[t]] = <<>>
    /\ \A t \in Writers : Fills(t) => m_buffer = said[outer[t]]
    /\ (\A t \in Writers : ~Fills(t)) => m_buffer = <<>>

IInv == TypeOK /\ PlaceInv /\ LockInv /\ NumberInv /\ BufferInv

-----------------------------------------------------------------------------
(* The steps *)

\* The case distinction of the proofs below.
Cases ==
    \/ \E t \in Writers : BeginStream(t) \/ BeginCall(t) \/ LogLock(t) \/ Operand(t)
    \/ \E t \in Writers : EndMsg(t) \/ Output(t) \/ TestNull(t) \/ IsOpen(t) \/ Crash(t)
    \/ \E t \in Writers : LineHead(t) \/ Text(t) \/ Console(t)
    \/ \E t \in Writers : Clear(t) \/ EndStream(t) \/ EndCall(t)
    \/ SetLogNew \/ SetLogOpen \/ SetLogDelete \/ SetLogNull \/ Destroy
    \/ UNCHANGED vars

LEMMA StepCases == [Next]_vars => Cases
BY DEF Next, WriterStep, SetLogStep, Cases

\* A step of the thread that calls SetLog changes nothing the writers own.
LEMMA SetLogSteps ==
    ASSUME SetLogNew \/ SetLogOpen \/ SetLogDelete \/ SetLogNull \/ Destroy
    PROVE  UNCHANGED <<setLogRest, begun, said>>
BY DEF SetLogNew, SetLogOpen, SetLogDelete, SetLogNull, Destroy, history

-----------------------------------------------------------------------------
(* Type correctness *)

LEMMA InitInv == Init => IInv
<1> SUFFICES ASSUME Init PROVE IInv
  OBVIOUS
<1>1. TypeOK
  <2>1. /\ m_buffer \in Seq(Parts)
        /\ sink \in [Sinks -> Seq(Tokens)]
        /\ said \in [Ids -> Seq(Parts)]
    BY DEF Init
  <2>2. /\ stream \in [Streams -> {"none", "unopened", "open", "deleted"}]
        /\ fp_stream \in Sinks /\ current \in Sinks
    <3>1. PICK opened \in {"none", "open", "unopened"} :
              /\ stream = [k \in Streams |-> IF k = 1 THEN opened ELSE "none"]
              /\ fp_stream = IF opened = "none" THEN 0 ELSE 1
              /\ current = IF opened = "open" THEN 1 ELSE 0
      BY DEF Init
    <3>2. 0 \in Sinks /\ 1 \in Sinks
      BY DEF Sinks
    <3> QED  BY <3>1, <3>2
  <2>3. /\ pc \in [Writers -> Labels]
        /\ outer \in [Writers -> 0..MaxStatements]
        /\ inner \in [Writers -> 0..MaxStatements]
        /\ begun \in 0..MaxStatements
    BY DEF Init, Labels
  <2>4. target \in [Ids -> Sinks]
    BY DEF Init, Sinks
  <2> QED  BY <2>1, <2>2, <2>3, <2>4 DEF Init, TypeOK
<1>2. PlaceInv /\ LockInv /\ NumberInv /\ BufferInv
  BY DEF Init, PlaceInv, LockInv, NumberInv, BufferInv, Holds, Outputs, Fills
<1> QED  BY <1>1, <1>2 DEF IInv

\* What _output() works on is typed.
LEMMA MessageTypes ==
    ASSUME TypeOK, PlaceInv, NEW t \in Writers, pc[t] \in Outputs
    PROVE  Statement(t) \in Ids /\ Message(t) \in Seq(Parts)
BY DEF TypeOK, PlaceInv, Outputs, Statement, Message, InCall, Ids

\* Appending a token to a sink keeps the type of all.
LEMMA PutTypes ==
    ASSUME sink \in [Sinks -> Seq(Tokens)],
           NEW k \in Sinks, NEW s \in Ids, NEW kind \in {"head", "text"},
           NEW text \in Seq(Parts)
    PROVE  [sink EXCEPT ![k] = Append(@, <<s, kind, text>>)] \in [Sinks -> Seq(Tokens)]
<1>1. <<s, kind, text>> \in Tokens
  BY DEF Tokens
<1> HIDE DEF Tokens
<1> QED  BY <1>1

\* Every control point is one.
LEMMA LabelNames ==
    /\ "idle" \in Labels /\ "logLock" \in Labels /\ "operands" \in Labels
    /\ "output" \in Labels /\ "test" \in Labels /\ "isOpen" \in Labels
    /\ "head" \in Labels /\ "text" \in Labels /\ "console" \in Labels
    /\ "clear" \in Labels /\ "unLock" \in Labels /\ "callUnLock" \in Labels
BY DEF Labels

LEMMA GotoTypes ==
    ASSUME pc \in [Writers -> Labels], NEW t \in Writers, NEW l \in Labels, Goto(t, l)
    PROVE  pc' \in [Writers -> Labels]
BY DEF Goto

\* Beginning or ending a statement or a call keeps their numbers typed.
LEMMA NumberTypes ==
    ASSUME NEW f \in [Writers -> 0..MaxStatements], NEW t \in Writers,
           NEW n \in Ids \union {0}
    PROVE  [f EXCEPT ![t] = n] \in [Writers -> 0..MaxStatements]
<1>1. n \in 0..MaxStatements
  BY DEF Ids
<1> QED  BY <1>1

\* The holder leaves the lock as often as it entered it.
LEMMA UnLockTypes ==
    ASSUME TypeOK, PlaceInv, LockInv, NEW t \in Writers,
           pc[t] \in {"unLock", "callUnLock"}, UnLock
    PROVE  depth' \in Nat /\ m_mutex' \in Writers \union {NoThread}
<1>1. m_mutex = t /\ depth = Level(t)
  BY DEF PlaceInv, LockInv, Holds
<1>2. Level(t) \in {1, 2}
  BY DEF PlaceInv, Level
<1> QED  BY <1>1, <1>2 DEF UnLock, TypeOK

LEMMA TypeStep == TypeOK /\ PlaceInv /\ LockInv /\ [Next]_vars => TypeOK'
<1> SUFFICES ASSUME TypeOK, PlaceInv, LockInv, [Next]_vars PROVE TypeOK'
  OBVIOUS
<1> USE DEF TypeOK
<1>1. ASSUME NEW t \in Writers, BeginStream(t) \/ BeginCall(t) PROVE TypeOK'
  <2>1. /\ begun + 1 \in Ids /\ begun' = begun + 1
        /\ target' = [target EXCEPT ![begun + 1] = current]
        /\ overlapped' = overlapped \/ overlapped' = overlapped \union {begun + 1}
        /\ UNCHANGED <<done, current>>
    BY <1>1 DEF BeginStream, BeginCall, Begin
  <2>2. said' \in [Ids -> Seq(Parts)]
    <3>1. CASE BeginStream(t)
      BY <3>1, <2>1 DEF BeginStream, Begin
    <3>2. CASE BeginCall(t)
      <4>1. <<begun + 1, 1>> \in Parts
        BY <2>1 DEF Parts
      <4>2. <<<<begun + 1, 1>>>> \in Seq(Parts)
        BY <4>1
      <4> QED  BY <3>2, <4>2, <2>1 DEF BeginCall, Begin
    <3> QED  BY <1>1, <3>1, <3>2
  <2>3. /\ outer' \in [Writers -> 0..MaxStatements]
        /\ inner' \in [Writers -> 0..MaxStatements]
    <3>1. /\ [outer EXCEPT ![t] = begun + 1] \in [Writers -> 0..MaxStatements]
          /\ [inner EXCEPT ![t] = begun + 1] \in [Writers -> 0..MaxStatements]
      BY <2>1, NumberTypes
    <3>2. \/ outer' = [outer EXCEPT ![t] = begun + 1] /\ inner' = inner
          \/ inner' = [inner EXCEPT ![t] = begun + 1] /\ outer' = outer
      BY <1>1 DEF BeginStream, BeginCall
    <3> QED  BY <3>1, <3>2
  <2>4. pc' \in [Writers -> Labels]
    BY <1>1, LabelNames, GotoTypes DEF BeginStream, BeginCall
  <2>5. begun' \in 0..MaxStatements
    BY <2>1 DEF Ids
  <2>6. target' \in [Ids -> Sinks] /\ overlapped' \subseteq Ids
    BY <2>1
  <2>7. UNCHANGED <<build, lockVars, m_buffer, streamVars, sink, spc, crashed>>
    BY <1>1 DEF BeginStream, BeginCall
  <2> QED  BY <2>1, <2>2, <2>3, <2>4, <2>5, <2>6, <2>7 DEF lockVars, streamVars
<1>2. ASSUME NEW t \in Writers, LogLock(t) \/ Output(t) PROVE TypeOK'
  <2>1. pc' \in [Writers -> Labels]
    BY <1>2, LabelNames, GotoTypes DEF LogLock, Output
  <2>2. m_mutex' \in Writers \union {NoThread} /\ depth' \in Nat
    BY <1>2 DEF LogLock, Output, WaitForLock
  <2>3. UNCHANGED <<build, m_buffer, streamVars, sink, outer, inner, spc, crashed,
                    history>>
    BY <1>2 DEF LogLock, Output
  <2> QED  BY <2>1, <2>2, <2>3 DEF streamVars, history
<1>3. ASSUME NEW t \in Writers, Operand(t) PROVE TypeOK'
  <2>1. outer[t] \in Ids
    BY <1>3 DEF Operand, PlaceInv, Ids
  <2> DEFINE part == <<outer[t], Len(said[outer[t]]) + 1>>
  <2>2. Len(said[outer[t]]) \in Nat
    BY <2>1
  <2>3. part \in Parts
    BY <1>3, <2>1, <2>2 DEF Operand, Parts
  <2>4. /\ m_buffer' = Append(m_buffer, part)
        /\ said' = [said EXCEPT ![outer[t]] = Append(@, part)]
        /\ UNCHANGED <<build, lockVars, streamVars, sink, pc, outer, inner, spc,
                       crashed, begun, done, overlapped, current, target>>
    BY <1>3 DEF Operand
  <2> HIDE DEF part
  <2>5. m_buffer' \in Seq(Parts) /\ said' \in [Ids -> Seq(Parts)]
    BY <2>1, <2>3, <2>4
  <2> QED  BY <2>4, <2>5 DEF lockVars, streamVars
<1>4. ASSUME NEW t \in Writers, EndMsg(t) \/ TestNull(t) \/ IsOpen(t) \/ Crash(t)
      PROVE  TypeOK'
  <2>1. pc' \in [Writers -> Labels]
    BY <1>4, LabelNames, GotoTypes DEF EndMsg, TestNull, IsOpen, Crash
  <2>2. crashed' \in BOOLEAN
    BY <1>4 DEF EndMsg, TestNull, IsOpen, Crash
  <2>3. UNCHANGED <<build, lockVars, m_buffer, streamVars, sink, outer, inner, spc,
                    history>>
    BY <1>4 DEF EndMsg, TestNull, IsOpen, Crash
  <2> QED  BY <2>1, <2>2, <2>3 DEF lockVars, streamVars, history
<1>5. ASSUME NEW t \in Writers, LineHead(t) \/ Text(t) \/ Console(t) PROVE TypeOK'
  <2>1. Statement(t) \in Ids /\ Message(t) \in Seq(Parts)
    BY <1>5, MessageTypes DEF LineHead, Text, Console, Outputs
  <2>2. 0 \in Sinks /\ fp_stream \in Sinks /\ <<>> \in Seq(Parts)
    BY DEF Sinks
  <2>3. sink' \in [Sinks -> Seq(Tokens)]
    <3>1. CASE LineHead(t)
      <4>1. [sink EXCEPT ![fp_stream] = Append(@, <<Statement(t), "head", <<>>>>)]
              \in [Sinks -> Seq(Tokens)]
        BY <2>1, <2>2, PutTypes
      <4> QED  BY <3>1, <4>1 DEF LineHead, Put
    <3>2. CASE Text(t)
      <4>1. [sink EXCEPT ![fp_stream] = Append(@, <<Statement(t), "text", Message(t)>>)]
              \in [Sinks -> Seq(Tokens)]
        BY <2>1, <2>2, PutTypes
      <4> QED  BY <3>2, <4>1 DEF Text, Put
    <3>3. CASE Console(t)
      <4>1. [sink EXCEPT ![0] = Append(@, <<Statement(t), "text", Message(t)>>)]
              \in [Sinks -> Seq(Tokens)]
        BY <2>1, <2>2, PutTypes
      <4> QED  BY <3>3, <4>1 DEF Console
    <3> QED  BY <1>5, <3>1, <3>2, <3>3
  <2>4. pc' \in [Writers -> Labels]
    BY <1>5, LabelNames, GotoTypes DEF LineHead, Text, Console, Return
  <2>5. UNCHANGED <<build, lockVars, m_buffer, streamVars, outer, inner, spc, crashed,
                    history>>
    BY <1>5 DEF LineHead, Text, Console
  <2> QED  BY <2>3, <2>4, <2>5 DEF lockVars, streamVars, history
<1>6. ASSUME NEW t \in Writers, Clear(t) PROVE TypeOK'
  <2>1. pc' \in [Writers -> Labels]
    BY <1>6, LabelNames, GotoTypes DEF Clear
  <2> QED  BY <1>6, <2>1 DEF Clear, lockVars, streamVars, history
<1>7. ASSUME NEW t \in Writers, EndStream(t) \/ EndCall(t) PROVE TypeOK'
  <2>1. done' \subseteq Ids
    <3>1. CASE EndStream(t)
      <4>1. outer[t] \in Ids
        BY <3>1 DEF EndStream, PlaceInv, Ids
      <4> QED  BY <3>1, <4>1 DEF EndStream
    <3>2. CASE EndCall(t)
      <4>1. inner[t] \in Ids
        BY <3>2 DEF EndCall, PlaceInv, Ids
      <4> QED  BY <3>2, <4>1 DEF EndCall
    <3> QED  BY <1>7, <3>1, <3>2
  <2>2. pc' \in [Writers -> Labels]
    BY <1>7, LabelNames, GotoTypes DEF EndStream, EndCall
  <2>3. /\ outer' \in [Writers -> 0..MaxStatements]
        /\ inner' \in [Writers -> 0..MaxStatements]
    <3>1. /\ [outer EXCEPT ![t] = 0] \in [Writers -> 0..MaxStatements]
          /\ [inner EXCEPT ![t] = 0] \in [Writers -> 0..MaxStatements]
      BY NumberTypes
    <3>2. \/ outer' = [outer EXCEPT ![t] = 0] /\ inner' = inner
          \/ inner' = [inner EXCEPT ![t] = 0] /\ outer' = outer
      BY <1>7 DEF EndStream, EndCall
    <3> QED  BY <3>1, <3>2
  <2>4. depth' \in Nat /\ m_mutex' \in Writers \union {NoThread}
    BY <1>7, UnLockTypes DEF EndStream, EndCall
  <2>5. UNCHANGED <<build, m_buffer, streamVars, sink, spc, crashed, begun, said,
                    overlapped, current, target>>
    BY <1>7 DEF EndStream, EndCall
  <2> QED  BY <2>1, <2>2, <2>3, <2>4, <2>5 DEF streamVars
<1>8. ASSUME SetLogNew \/ SetLogOpen \/ SetLogDelete \/ SetLogNull \/ Destroy
      PROVE  TypeOK'
  <2>1. UNCHANGED <<setLogRest, begun, said>>
    BY <1>8, SetLogSteps
  <2>2. UNCHANGED <<done, target>>
    BY <1>8 DEF SetLogNew, SetLogOpen, SetLogDelete, SetLogNull, Destroy, history
  <2>3. /\ spc' \in {"idle", "open", "delete", "null", "gone"}
        /\ fp_stream' \in Sinks /\ current' \in Sinks
    <3>1. 0 \in Sinks /\ Streams \subseteq Sinks
      BY DEF Streams, Sinks
    <3>2. CASE SetLogNew BY <3>1, <3>2 DEF SetLogNew
    <3>3. CASE SetLogOpen BY <3>3 DEF SetLogOpen
    <3>4. CASE SetLogDelete BY <3>4 DEF SetLogDelete, history
    <3>5. CASE SetLogNull BY <3>1, <3>5 DEF SetLogNull
    <3>6. CASE Destroy BY <3>6 DEF Destroy, history
    <3> QED  BY <1>8, <3>2, <3>3, <3>4, <3>5, <3>6
  <2>4. stream' \in [Streams -> {"none", "unopened", "open", "deleted"}]
    <3>1. CASE SetLogNew BY <3>1 DEF SetLogNew
    <3>2. CASE SetLogOpen BY <3>2 DEF SetLogOpen
    <3>3. CASE SetLogDelete BY <3>3 DEF SetLogDelete
    <3>4. CASE SetLogNull BY <3>4 DEF SetLogNull
    <3>5. CASE Destroy BY <3>5 DEF Destroy
    <3> QED  BY <1>8, <3>1, <3>2, <3>3, <3>4, <3>5
  <2>5. overlapped' \subseteq Ids
    <3>1. Active \ {0} \subseteq Ids
      BY DEF Active, Ids
    <3>2. overlapped' = overlapped \union (Active \ {0}) \/ overlapped' = overlapped
      BY <1>8 DEF SetLogNew, SetLogOpen, SetLogDelete, SetLogNull, Destroy, history
    <3> QED  BY <3>1, <3>2
  <2> QED  BY <2>1, <2>2, <2>3, <2>4, <2>5 DEF setLogRest, lockVars
<1>9. CASE UNCHANGED vars
  BY <1>9 DEF vars, lockVars, streamVars, history
<1> QED  BY <1>1, <1>2, <1>3, <1>4, <1>5, <1>6, <1>7, <1>8, <1>9, StepCases DEF Cases

-----------------------------------------------------------------------------
(* Who is where *)

\* A thread's step changes its own place only.
LEMMA PlaceStep == TypeOK /\ PlaceInv /\ [Next]_vars => PlaceInv'
<1> SUFFICES ASSUME TypeOK, PlaceInv, [Next]_vars PROVE PlaceInv'
  OBVIOUS
<1>0. /\ outer \in [Writers -> 0..MaxStatements]
      /\ inner \in [Writers -> 0..MaxStatements]
      /\ pc \in [Writers -> Labels]
      /\ begun \in Nat
  BY DEF TypeOK
<1>1. ASSUME NEW t \in Writers, BeginStream(t) \/ BeginCall(t) PROVE PlaceInv'
  <2>1. begun + 1 # 0
    BY <1>0
  <2>2. CASE BeginStream(t)
    BY <1>0, <2>1, <2>2 DEF BeginStream, PlaceInv, Goto, Outputs
  <2>3. CASE BeginCall(t)
    BY <1>0, <2>1, <2>3 DEF BeginCall, PlaceInv, Goto, Outputs
  <2> QED  BY <1>1, <2>2, <2>3
<1>2. ASSUME NEW t \in Writers,
             LogLock(t) \/ Operand(t) \/ EndMsg(t) \/ Output(t) \/ TestNull(t)
                 \/ IsOpen(t) \/ Crash(t)
      PROVE  PlaceInv'
  BY <1>0, <1>2 DEF LogLock, Operand, EndMsg, Output, TestNull, IsOpen, Crash, PlaceInv,
                    Goto, Outputs
<1>3. ASSUME NEW t \in Writers, LineHead(t) \/ Text(t) \/ Console(t) PROVE PlaceInv'
  BY <1>0, <1>3 DEF LineHead, Text, Console, Return, InCall, PlaceInv, Goto, Outputs
<1>4. ASSUME NEW t \in Writers, Clear(t) \/ EndStream(t) \/ EndCall(t) PROVE PlaceInv'
  BY <1>0, <1>4 DEF Clear, EndStream, EndCall, PlaceInv, Goto, Outputs
<1>5. ASSUME SetLogNew \/ SetLogOpen \/ SetLogDelete \/ SetLogNull \/ Destroy
      PROVE  PlaceInv'
  BY <1>5, SetLogSteps DEF setLogRest, PlaceInv
<1>6. CASE UNCHANGED vars
  BY <1>6 DEF vars, PlaceInv
<1> QED  BY <1>1, <1>2, <1>3, <1>4, <1>5, <1>6, StepCases DEF Cases

\* The lock is held between waitForLock() and unLock(), once for a statement and
\* once more for a call one of its operands makes.
LEMMA LockStep == TypeOK /\ PlaceInv /\ LockInv /\ [Next]_vars => LockInv'
<1> SUFFICES ASSUME TypeOK, PlaceInv, LockInv, [Next]_vars PROVE LockInv'
  OBVIOUS
<1>0. /\ outer \in [Writers -> 0..MaxStatements]
      /\ inner \in [Writers -> 0..MaxStatements]
      /\ pc \in [Writers -> Labels]
      /\ begun \in Nat /\ depth \in Nat
      /\ m_mutex \in Writers \union {NoThread}
  BY DEF TypeOK
<1> USE DEF LockInv, Holds, Level
<1>1. ASSUME NEW t \in Writers, BeginStream(t) PROVE LockInv'
  BY <1>0, <1>1 DEF BeginStream, PlaceInv, Goto, lockVars
<1>2. ASSUME NEW t \in Writers, BeginCall(t) PROVE LockInv'
  BY <1>0, <1>2 DEF BeginCall, PlaceInv, Goto, lockVars
<1>3. ASSUME NEW t \in Writers, LogLock(t) PROVE LockInv'
  BY <1>0, <1>3 DEF LogLock, WaitForLock, PlaceInv, Goto
<1>4. ASSUME NEW t \in Writers, Output(t) PROVE LockInv'
  BY <1>0, <1>4 DEF Output, WaitForLock, PlaceInv, Goto
<1>5. ASSUME NEW t \in Writers,
             Operand(t) \/ EndMsg(t) \/ TestNull(t) \/ IsOpen(t) \/ Crash(t)
      PROVE  LockInv'
  BY <1>0, <1>5 DEF Operand, EndMsg, TestNull, IsOpen, Crash, Goto, lockVars
<1>6. ASSUME NEW t \in Writers, LineHead(t) \/ Text(t) \/ Console(t) \/ Clear(t)
      PROVE  LockInv'
  BY <1>0, <1>6 DEF LineHead, Text, Console, Clear, Return, Goto, lockVars
<1>7. ASSUME NEW t \in Writers, EndStream(t) PROVE LockInv'
  <2>1. m_mutex = t /\ depth = 1
    BY <1>0, <1>7 DEF EndStream, PlaceInv
  <2> QED  BY <1>0, <1>7, <2>1 DEF EndStream, UnLock, PlaceInv, Goto
<1>8. ASSUME NEW t \in Writers, EndCall(t) PROVE LockInv'
  <2>1. m_mutex = t /\ depth = IF outer[t] = 0 THEN 1 ELSE 2
    BY <1>0, <1>8 DEF EndCall, PlaceInv
  <2> QED  BY <1>0, <1>8, <2>1 DEF EndCall, UnLock, PlaceInv, Goto
<1>9. ASSUME SetLogNew \/ SetLogOpen \/ SetLogDelete \/ SetLogNull \/ Destroy
      PROVE  LockInv'
  BY <1>9, SetLogSteps DEF setLogRest, lockVars
<1>10. CASE UNCHANGED vars
  BY <1>10 DEF vars, lockVars
<1> QED  BY <1>1, <1>2, <1>3, <1>4, <1>5, <1>6, <1>7, <1>8, <1>9, <1>10, StepCases
         DEF Cases

\* A new statement has a number of its own.
LEMMA NumberStep == TypeOK /\ NumberInv /\ [Next]_vars => NumberInv'
<1> SUFFICES ASSUME TypeOK, NumberInv, [Next]_vars PROVE NumberInv'
  OBVIOUS
<1>0. outer \in [Writers -> 0..MaxStatements] /\ begun \in Nat
  BY DEF TypeOK
<1>1. ASSUME NEW t \in Writers, BeginStream(t) PROVE NumberInv'
  BY <1>0, <1>1 DEF BeginStream, Begin, NumberInv
<1>2. ASSUME NEW t \in Writers, BeginCall(t) PROVE NumberInv'
  BY <1>0, <1>2 DEF BeginCall, Begin, NumberInv
<1>3. ASSUME NEW t \in Writers, EndStream(t) PROVE NumberInv'
  BY <1>0, <1>3 DEF EndStream, NumberInv
<1>4. ASSUME NEW t \in Writers,
             \/ LogLock(t) \/ Operand(t) \/ EndMsg(t) \/ Output(t) \/ TestNull(t)
             \/ IsOpen(t) \/ Crash(t) \/ LineHead(t) \/ Text(t) \/ Console(t)
             \/ Clear(t) \/ EndCall(t)
      PROVE  NumberInv'
  BY <1>4 DEF LogLock, Operand, EndMsg, Output, TestNull, IsOpen, Crash, LineHead, Text,
              Console, Clear, EndCall, NumberInv, history
<1>5. ASSUME SetLogNew \/ SetLogOpen \/ SetLogDelete \/ SetLogNull \/ Destroy
      PROVE  NumberInv'
  BY <1>5, SetLogSteps DEF setLogRest, NumberInv
<1>6. CASE UNCHANGED vars
  BY <1>6 DEF vars, NumberInv, history
<1> QED  BY <1>1, <1>2, <1>3, <1>4, <1>5, <1>6, StepCases DEF Cases

-----------------------------------------------------------------------------
(* The buffer *)

\* The parts of the statement that fills the buffer, at every step of anybody.
LEMMA BufferStep == IInv /\ [Next]_vars => BufferInv'
<1> SUFFICES ASSUME IInv, [Next]_vars PROVE BufferInv'
  OBVIOUS
<1>0. /\ outer \in [Writers -> 0..MaxStatements]
      /\ pc \in [Writers -> Labels]
      /\ said \in [Ids -> Seq(Parts)]
      /\ begun \in Nat
      /\ PlaceInv /\ LockInv /\ NumberInv /\ BufferInv
  BY DEF IInv, TypeOK
<1> USE DEF BufferInv, Fills
<1>1. ASSUME NEW t \in Writers, BeginStream(t) PROVE BufferInv'
  <2>1. /\ outer[t] = 0 /\ m_mutex # t
        /\ outer' = [outer EXCEPT ![t] = begun + 1]
        /\ pc' = [pc EXCEPT ![t] = "logLock"]
        /\ begun + 1 \in Ids
        /\ said' = [said EXCEPT ![begun + 1] = <<>>]
        /\ UNCHANGED <<m_mutex, m_buffer>>
    BY <1>0, <1>1 DEF BeginStream, Begin, Goto, lockVars, PlaceInv, LockInv, Holds
  <2>2. \A u \in Writers : outer[u] # begun + 1
    BY <1>0 DEF NumberInv
  <2>3. \A u \in Writers \ {t} :
            outer'[u] = outer[u] /\ pc'[u] = pc[u] /\ said'[outer[u]] = said[outer[u]]
    BY <1>0, <2>1, <2>2
  <2>4. outer'[t] = begun + 1 /\ said'[begun + 1] = <<>>
    BY <1>0, <2>1
  <2> QED  BY <1>0, <2>1, <2>3, <2>4
<1>2. ASSUME NEW t \in Writers, BeginCall(t) PROVE BufferInv'
  <2>1. /\ pc' = [pc EXCEPT ![t] = "output"] /\ pc[t] # "unLock"
        /\ \E text : said' = [said EXCEPT ![begun + 1] = text]
        /\ UNCHANGED <<m_mutex, m_buffer, outer>>
    BY <1>0, <1>2 DEF BeginCall, Begin, Goto, lockVars
  <2>2. \A u \in Writers : said'[outer[u]] = said[outer[u]]
    BY <1>0, <2>1 DEF NumberInv
  <2> QED  BY <1>0, <2>1, <2>2
<1>3. ASSUME NEW t \in Writers, LogLock(t) PROVE BufferInv'
  BY <1>0, <1>3 DEF LogLock, WaitForLock, Goto, LockInv, Holds, PlaceInv, history
<1>4. ASSUME NEW t \in Writers, Operand(t) PROVE BufferInv'
  <2>1. m_mutex = t /\ outer[t] # 0
    BY <1>0, <1>4 DEF Operand, PlaceInv, LockInv, Holds
  <2>2. PICK part :
            /\ m_buffer' = Append(m_buffer, part)
            /\ said' = [said EXCEPT ![outer[t]] = Append(@, part)]
            /\ UNCHANGED <<m_mutex, outer, pc>>
    BY <1>4 DEF Operand, lockVars
  <2>3. outer[t] \in Ids
    BY <1>0, <2>1 DEF Ids
  <2>4. said'[outer[t]] = Append(said[outer[t]], part)
    BY <1>0, <2>2, <2>3
  <2>5. \A u \in Writers \ {t} : outer[u] # outer[t] /\ said'[outer[u]] = said[outer[u]]
    BY <1>0, <2>1, <2>2 DEF NumberInv
  <2> QED  BY <1>0, <1>4, <2>1, <2>2, <2>4, <2>5 DEF Operand
<1>5. ASSUME NEW t \in Writers, Output(t) PROVE BufferInv'
  BY <1>0, <1>5 DEF Output, WaitForLock, Goto, LockInv, Holds, history
<1>6. ASSUME NEW t \in Writers,
             \/ EndMsg(t) \/ TestNull(t) \/ IsOpen(t) \/ Crash(t)
             \/ LineHead(t) \/ Text(t) \/ Console(t)
      PROVE  BufferInv'
  <2>1. /\ \/ pc' = pc
           \/ \E l \in {"test", "isOpen", "head", "text", "console", "clear",
                        "callUnLock"} : pc' = [pc EXCEPT ![t] = l]
        /\ pc[t] # "unLock"
        /\ UNCHANGED <<m_mutex, m_buffer, outer, said>>
    BY <1>6 DEF EndMsg, TestNull, IsOpen, Crash, LineHead, Text, Console, Return, Goto,
                lockVars, history
  <2> QED  BY <1>0, <2>1
<1>7. ASSUME NEW t \in Writers, Clear(t) PROVE BufferInv'
  BY <1>0, <1>7 DEF Clear, Goto, LockInv, Holds, lockVars, history
<1>8. ASSUME NEW t \in Writers, EndStream(t) PROVE BufferInv'
  <2>1. m_mutex = t /\ m_buffer = <<>>
    BY <1>0, <1>8 DEF EndStream, LockInv, Holds
  <2>2. /\ m_mutex' \in {t, NoThread} /\ m_buffer' = <<>> /\ said' = said
        /\ outer' = [outer EXCEPT ![t] = 0] /\ pc' = [pc EXCEPT ![t] = "idle"]
    BY <1>8, <2>1 DEF EndStream, UnLock, Goto
  <2> QED  BY <1>0, <2>1, <2>2
<1>9. ASSUME NEW t \in Writers, EndCall(t) PROVE BufferInv'
  <2>1. m_mutex = t
    BY <1>0, <1>9 DEF EndCall, LockInv, Holds
  <2>2. /\ pc' = [pc EXCEPT ![t] = IF outer[t] = 0 THEN "idle" ELSE "operands"]
        /\ UNCHANGED <<m_buffer, outer, said>>
    BY <1>9 DEF EndCall, Goto
  <2>3. outer[t] # 0 => m_mutex' = t
    BY <1>0, <1>9, <2>1 DEF EndCall, UnLock, LockInv, Level, PlaceInv
  <2>4. m_mutex' \in {t, NoThread}
    BY <1>9, <2>1 DEF EndCall, UnLock
  <2> QED  BY <1>0, <1>9, <2>1, <2>2, <2>3, <2>4 DEF EndCall
<1>10. ASSUME SetLogNew \/ SetLogOpen \/ SetLogDelete \/ SetLogNull \/ Destroy
       PROVE  BufferInv'
  BY <1>0, <1>10, SetLogSteps DEF setLogRest, lockVars
<1>11. CASE UNCHANGED vars
  BY <1>0, <1>11 DEF vars, lockVars, history
<1> QED  BY <1>1, <1>2, <1>3, <1>4, <1>5, <1>6, <1>7, <1>8, <1>9, <1>10, <1>11,
            StepCases DEF Cases

-----------------------------------------------------------------------------
(* The theorems *)

THEOREM Invariant == Spec => []IInv
<1>1. IInv /\ [Next]_vars => IInv'
  BY TypeStep, PlaceStep, LockStep, NumberStep, BufferStep DEF IInv
<1> QED  BY InitInv, <1>1, PTL DEF Spec

\* Every state of the log has its type: no level of the critical section is left
\* that was not entered, and no statement is numbered beyond those begun.
THEOREM TypeCorrect == Spec => []TypeOK
<1>1. IInv => TypeOK
  BY DEF IInv
<1> QED  BY Invariant, <1>1, PTL

\* What threads stream into the one m_buffer is never mixed, on either build,
\* also when an operand calls write() and whatever SetLog does meanwhile.
THEOREM BufferStaysPrivate == Spec => []BufferPrivate
<1>1. ASSUME IInv, m_buffer # <<>>
      PROVE  m_mutex \in Writers /\ outer[m_mutex] # 0 /\ m_buffer = said[outer[m_mutex]]
  <2>1. PICK t \in Writers : Fills(t)
    BY <1>1 DEF IInv, BufferInv
  <2>2. m_mutex = t /\ outer[t] # 0 /\ m_buffer = said[outer[t]]
    BY <1>1, <2>1 DEF IInv, BufferInv, Fills
  <2> QED  BY <2>2
<1>2. IInv => BufferPrivate
  BY <1>1 DEF BufferPrivate
<1> QED  BY Invariant, <1>2, PTL

-----------------------------------------------------------------------------
(* The lines *)

HeadOf(s) == <<s, "head", <<>>>>
TextOf(s) == <<s, "text", said[s]>>

\* No token of statement s is in any sink.
Untouched(s) == \A k \in Sinks : Indices(s, k) = {}

\* The head of its line is the last thing in its sink.
HeadWritten(s) ==
    \A k \in Sinks :
        IF k = target[s]
        THEN /\ Indices(s, k) = {Len(sink[k])}
             /\ sink[k][Len(sink[k])] = HeadOf(s)
        ELSE Indices(s, k) = {}

\* Its line is in its sink.
Written(s) ==
    \A k \in Sinks :
        IF k = target[s]
        THEN \E i \in DOMAIN sink[k] :
                /\ sink[k][i] = TextOf(s)
                /\ IF k = 0
                   THEN Indices(s, k) = {i}
                   ELSE /\ i - 1 \in DOMAIN sink[k]
                        /\ sink[k][i - 1] = HeadOf(s)
                        /\ Indices(s, k) = {i - 1, i}
        ELSE Indices(s, k) = {}

\* Statements and calls have numbers of their own.
IdInv ==
    /\ \A s \in done : s <= begun
    /\ \A t \in Writers :
          /\ outer[t] <= begun /\ outer[t] \notin done
          /\ inner[t] <= begun /\ inner[t] \notin done
    /\ \A t, u \in Writers :
          /\ t # u /\ inner[t] = inner[u] => inner[t] = 0
          /\ outer[t] = inner[u] => outer[t] = 0

\* Outside of SetLog the lines go where the last one sent them.
StreamInv ==
    /\ spc = "idle" =>
          IF current = 0 THEN fp_stream = 0 \/ stream[fp_stream] # "open"
                         ELSE fp_stream = current /\ stream[current] = "open"
    /\ spc = "open" => fp_stream # 0

\* How far t has come with the line of s, the innermost it is in.
Stage(t, s) ==
    /\ pc[t] \notin {"text", "clear", "unLock", "callUnLock"} => Untouched(s)
    /\ pc[t] = "console" => current = 0
    /\ pc[t] \in {"head", "text"} => current # 0
    /\ pc[t] = "text" => HeadWritten(s)
    /\ pc[t] \in {"clear", "unLock", "callUnLock"} => Written(s)

\* No SetLog has overlapped s, which is in progress.
Alone(s) == s # 0 /\ s \notin overlapped

ThreadLines(t) ==
    /\ Alone(outer[t]) =>
          /\ spc = "idle" /\ target[outer[t]] = current
          /\ IF inner[t] = 0 THEN Stage(t, outer[t]) ELSE Untouched(outer[t])
    /\ Alone(inner[t]) =>
          spc = "idle" /\ target[inner[t]] = current /\ Stage(t, inner[t])

LineInv ==
    /\ \A t \in Writers : ThreadLines(t)
    /\ \A s \in Ids : s > begun => Untouched(s)
    /\ \A s \in done \ overlapped : Written(s)

LInv == IInv /\ IdInv /\ StreamInv /\ LineInv

LEMMA LinesFirst == Init => IdInv /\ StreamInv /\ LineInv
<1> SUFFICES ASSUME Init PROVE IdInv /\ StreamInv /\ LineInv
  OBVIOUS
<1>1. IdInv
  BY DEF Init, IdInv
<1>2. StreamInv
  <2>1. PICK opened \in {"none", "open", "unopened"} :
            /\ stream = [k \in Streams |-> IF k = 1 THEN opened ELSE "none"]
            /\ fp_stream = IF opened = "none" THEN 0 ELSE 1
            /\ current = IF opened = "open" THEN 1 ELSE 0
    BY DEF Init
  <2>2. 1 \in Streams
    BY DEF Streams
  <2>3. spc # "open"
    BY DEF Init
  <2> QED  BY <2>1, <2>2, <2>3 DEF StreamInv
<1>3. \A s : Untouched(s)
  BY DEF Init, Untouched, Indices
<1>4. \A t \in Writers : ~Alone(outer[t]) /\ ~Alone(inner[t])
  BY DEF Init, Alone
<1>5. LineInv
  BY <1>3, <1>4 DEF Init, LineInv, ThreadLines
<1> QED  BY <1>1, <1>2, <1>5

LEMMA IdStep == IInv /\ IdInv /\ [Next]_vars => IdInv'
<1> SUFFICES ASSUME IInv, IdInv, [Next]_vars PROVE IdInv'
  OBVIOUS
<1>0. /\ outer \in [Writers -> 0..MaxStatements]
      /\ inner \in [Writers -> 0..MaxStatements]
      /\ begun \in Nat /\ done \subseteq Ids /\ PlaceInv /\ NumberInv
  BY DEF IInv, TypeOK
<1>1. ASSUME NEW t \in Writers, BeginStream(t) \/ BeginCall(t) PROVE IdInv'
  <2>1. /\ begun' = begun + 1 /\ done' = done /\ begun + 1 \notin done /\ begun + 1 \in Nat
        /\ \A s \in done : s \in Nat
        /\ \/ outer' = [outer EXCEPT ![t] = begun + 1] /\ inner' = inner
           \/ inner' = [inner EXCEPT ![t] = begun + 1] /\ outer' = outer
    BY <1>0, <1>1 DEF BeginStream, BeginCall, Begin, IdInv, Ids
  <2>2. \A u \in Writers : outer[u] < begun + 1 /\ inner[u] < begun + 1
                           /\ outer[u] \in Nat /\ inner[u] \in Nat
    BY <1>0 DEF IdInv
  <2>3. \A s \in done' : s <= begun'
    BY <1>0, <2>1 DEF IdInv
  <2>4. CASE outer' = [outer EXCEPT ![t] = begun + 1] /\ inner' = inner
    BY <1>0, <2>1, <2>2, <2>3, <2>4 DEF IdInv
  <2>5. CASE inner' = [inner EXCEPT ![t] = begun + 1] /\ outer' = outer
    BY <1>0, <2>1, <2>2, <2>3, <2>5 DEF IdInv
  <2> QED  BY <2>1, <2>4, <2>5
<1>2. ASSUME NEW t \in Writers, EndStream(t) PROVE IdInv'
  BY <1>0, <1>2 DEF EndStream, IdInv, PlaceInv, NumberInv, Ids
<1>3. ASSUME NEW t \in Writers, EndCall(t) PROVE IdInv'
  BY <1>0, <1>3 DEF EndCall, IdInv, PlaceInv, Ids
<1>4. ASSUME NEW t \in Writers,
             \/ LogLock(t) \/ Operand(t) \/ EndMsg(t) \/ Output(t) \/ TestNull(t)
             \/ IsOpen(t) \/ Crash(t) \/ LineHead(t) \/ Text(t) \/ Console(t)
             \/ Clear(t)
      PROVE  IdInv'
  BY <1>4 DEF LogLock, Operand, EndMsg, Output, TestNull, IsOpen, Crash, LineHead, Text,
              Console, Clear, IdInv, history
<1>5. ASSUME SetLogNew \/ SetLogOpen \/ SetLogDelete \/ SetLogNull \/ Destroy
      PROVE  IdInv'
  BY <1>5 DEF SetLogNew, SetLogOpen, SetLogDelete, SetLogNull, Destroy, setLogRest, history,
              IdInv
<1>6. CASE UNCHANGED vars
  BY <1>6 DEF vars, IdInv, history
<1> QED  BY <1>1, <1>2, <1>3, <1>4, <1>5, <1>6, StepCases DEF Cases

LEMMA StreamStep == TypeOK /\ StreamInv /\ [Next]_vars => StreamInv'
<1> SUFFICES ASSUME TypeOK, StreamInv, [Next]_vars PROVE StreamInv'
  OBVIOUS
<1>0. /\ fp_stream \in Sinks /\ current \in Sinks
      /\ stream \in [Streams -> {"none", "unopened", "open", "deleted"}]
      /\ \A k \in Sinks : k # 0 => k \in Streams
      /\ \A k \in Streams : k # 0
  BY DEF TypeOK, Sinks, Streams
<1>1. ASSUME NEW t \in Writers,
             \/ BeginStream(t) \/ BeginCall(t)
             \/ LogLock(t) \/ Operand(t) \/ EndMsg(t) \/ Output(t) \/ TestNull(t)
             \/ IsOpen(t) \/ Crash(t) \/ LineHead(t) \/ Text(t) \/ Console(t)
             \/ Clear(t) \/ EndStream(t) \/ EndCall(t)
      PROVE  StreamInv'
  BY <1>1 DEF BeginStream, BeginCall, Begin, LogLock, Operand, EndMsg, Output, TestNull,
              IsOpen, Crash, LineHead, Text, Console, Clear, EndStream, EndCall, StreamInv,
              history, streamVars
<1>2. CASE SetLogNew
  BY <1>0, <1>2 DEF SetLogNew, StreamInv
<1>3. CASE SetLogOpen
  BY <1>0, <1>3 DEF SetLogOpen, StreamInv
<1>4. CASE SetLogDelete \/ SetLogNull \/ Destroy
  BY <1>0, <1>4 DEF SetLogDelete, SetLogNull, Destroy, StreamInv
<1>5. CASE UNCHANGED vars
  BY <1>5 DEF vars, streamVars, history, StreamInv
<1> QED  BY <1>1, <1>2, <1>3, <1>4, <1>5, StepCases DEF Cases

\* A step that leaves s and what is in the sinks alone.
Keeps(s) ==
    /\ target'[s] = target[s] /\ said'[s] = said[s]
    /\ \A k \in Sinks :
          /\ Indices(s, k)' = Indices(s, k)
          /\ \A i \in DOMAIN sink[k] : i \in DOMAIN sink'[k] /\ sink'[k][i] = sink[k][i]

LEMMA SinksSame ==
    ASSUME NEW s, sink' = sink, target'[s] = target[s], said'[s] = said[s]
    PROVE  Keeps(s)
BY DEF Keeps, Indices

LEMMA UntouchedKept ==
    ASSUME NEW s, Untouched(s), \A k \in Sinks : Indices(s, k)' = Indices(s, k)
    PROVE  Untouched(s)'
BY DEF Untouched, Sinks

LEMMA WrittenKept ==
    ASSUME NEW s, Written(s), Keeps(s)
    PROVE  Written(s)'
<1>1. \A k \in Sinks : k \in Sinks' /\ Sinks' = Sinks
  BY DEF Sinks
<1>2. ASSUME NEW k \in Sinks
      PROVE  IF k = target'[s]
             THEN \E i \in DOMAIN sink'[k] :
                     /\ sink'[k][i] = TextOf(s)'
                     /\ IF k = 0
                        THEN Indices(s, k)' = {i}
                        ELSE /\ i - 1 \in DOMAIN sink'[k]
                             /\ sink'[k][i - 1] = HeadOf(s)
                             /\ Indices(s, k)' = {i - 1, i}
             ELSE Indices(s, k)' = {}
  <2>1. /\ TextOf(s)' = TextOf(s) /\ target'[s] = target[s]
        /\ Indices(s, k)' = Indices(s, k)
        /\ \A i \in DOMAIN sink[k] : i \in DOMAIN sink'[k] /\ sink'[k][i] = sink[k][i]
    BY DEF Keeps, TextOf
  <2> QED  BY <2>1 DEF Written
<1> QED  BY <1>1, <1>2 DEF Written, HeadOf

LEMMA HeadKept ==
    ASSUME NEW s, HeadWritten(s), sink' = sink, target'[s] = target[s]
    PROVE  HeadWritten(s)'
BY DEF HeadWritten, HeadOf, Indices, Sinks

\* A thread that a step leaves alone, and its statements with it.
LEMMA ThreadKept ==
    ASSUME NEW u \in Writers, ThreadLines(u),
           UNCHANGED <<spc, current>>, overlapped \subseteq overlapped',
           outer'[u] = outer[u], inner'[u] = inner[u], pc'[u] = pc[u],
           outer[u] # 0 => Keeps(outer[u]), inner[u] # 0 => Keeps(inner[u]),
           sink' = sink \/ pc[u] # "text"
    PROVE  ThreadLines(u)'
<1>1. PICK o, i : o = outer[u] /\ i = inner[u]
  OBVIOUS
<1>2. ASSUME NEW s, Keeps(s), Untouched(s) PROVE Untouched(s)'
  BY <1>2, UntouchedKept DEF Keeps
<1>3. ASSUME NEW s, Keeps(s), Stage(u, s) PROVE Stage(u, s)'
  <2>1. Untouched(s) => Untouched(s)'
    BY <1>2, <1>3
  <2>2. Written(s) => Written(s)'
    BY <1>3, WrittenKept
  <2>3. HeadWritten(s) /\ sink' = sink => HeadWritten(s)'
    BY <1>3, HeadKept DEF Keeps
  <2> QED  BY <1>3, <2>1, <2>2, <2>3 DEF Stage
<1>4. ASSUME Alone(o)' PROVE /\ spc' = "idle" /\ target'[o] = current'
                             /\ IF inner'[u] = 0 THEN Stage(u, o)' ELSE Untouched(o)'
  <2>1. Alone(o) /\ Keeps(o)
    BY <1>1, <1>4 DEF Alone
  <2> QED  BY <1>1, <1>2, <1>3, <2>1 DEF ThreadLines, Keeps
<1>5. ASSUME Alone(i)' PROVE spc' = "idle" /\ target'[i] = current' /\ Stage(u, i)'
  <2>1. Alone(i) /\ Keeps(i)
    BY <1>1, <1>5 DEF Alone
  <2> QED  BY <1>1, <1>3, <2>1 DEF ThreadLines, Keeps
<1> QED  BY <1>1, <1>4, <1>5 DEF ThreadLines, Stage, Untouched, Alone

\* A step that writes nothing.
LEMMA QuietLines ==
    ASSUME LInv, NEW t \in Writers,
           \/ LogLock(t) \/ Operand(t) \/ EndMsg(t) \/ Output(t) \/ TestNull(t)
           \/ IsOpen(t) \/ Crash(t) \/ Clear(t)
    PROVE  LineInv'
<1>0. /\ outer \in [Writers -> 0..MaxStatements]
      /\ inner \in [Writers -> 0..MaxStatements]
      /\ pc \in [Writers -> Labels] /\ current \in Sinks
      /\ said \in [Ids -> Seq(Parts)] /\ done \subseteq Ids
      /\ PlaceInv /\ NumberInv /\ IdInv /\ LineInv /\ StreamInv
      /\ \A u \in Writers : (outer[u] # 0 => outer[u] \in Ids)
                            /\ (inner[u] # 0 => inner[u] \in Ids)
  BY DEF LInv, IInv, TypeOK, Ids
<1>1. /\ UNCHANGED <<sink, outer, inner, spc, begun, done, overlapped, current, target,
                     fp_stream, stream>>
      /\ said' = said \/ (pc[t] = "operands" /\ pc' = pc
                            /\ \E x : said' = [said EXCEPT ![outer[t]] = x])
      /\ \A u \in Writers : u # t => pc'[u] = pc[u]
  BY <1>0 DEF LogLock, Operand, EndMsg, Output, TestNull, IsOpen, Crash, Clear, Goto,
         history, streamVars
<1>2. \A s : Untouched(s) => Untouched(s)'
  BY <1>1 DEF Untouched, Indices, Sinks
<1>3. ASSUME NEW s \in Ids, s # outer[t] \/ pc[t] # "operands" PROVE Keeps(s)
  <2>1. said'[s] = said[s]
    BY <1>0, <1>1, <1>3
  <2> QED  BY <1>1, <2>1, SinksSame
<1>4. ASSUME NEW u \in Writers, u # t PROVE ThreadLines(u)'
  <2>1. outer[u] # 0 => outer[u] # outer[t]
    BY <1>0, <1>4 DEF NumberInv
  <2>2. inner[u] # 0 => inner[u] # outer[t]
    BY <1>0 DEF IdInv
  <2>3. (outer[u] # 0 => Keeps(outer[u])) /\ (inner[u] # 0 => Keeps(inner[u]))
    BY <1>0, <1>3, <2>1, <2>2
  <2>4. ThreadLines(u) /\ pc'[u] = pc[u]
    BY <1>0, <1>1, <1>4 DEF LineInv
  <2> QED  BY <1>1, <2>3, <2>4, ThreadKept
<1>5. ThreadLines(t)'
  <2>1. \/ /\ pc[t] \notin {"text", "clear", "unLock", "callUnLock"}
           /\ pc'[t] \in {"operands", "test", "isOpen"}
        \/ /\ pc'[t] = pc[t] /\ pc[t] \in {"isOpen", "head", "text"}
        \/ /\ pc[t] = "clear" /\ pc'[t] = "unLock"
        \/ /\ pc[t] = "test" /\ pc'[t] = "console" /\ fp_stream = 0
        \/ /\ pc[t] = "isOpen" /\ pc'[t] = "head"
           /\ fp_stream \in Streams /\ stream[fp_stream] = "open"
        \/ /\ pc[t] = "isOpen" /\ pc'[t] = "console"
           /\ fp_stream \in Streams /\ stream[fp_stream] # "open"
    BY <1>0 DEF LogLock, Operand, EndMsg, Output, TestNull, IsOpen, Crash, Clear, Goto,
           Dangling
  <2>2. ASSUME NEW s \in Ids, Stage(t, s), spc = "idle" PROVE Stage(t, s)'
    <3>1. CASE /\ pc[t] \notin {"text", "clear", "unLock", "callUnLock"}
               /\ pc'[t] \in {"operands", "test", "isOpen"}
      <4>1. Untouched(s)'
        BY <1>2, <2>2, <3>1 DEF Stage
      <4> QED  BY <3>1, <4>1 DEF Stage
    <3>2. CASE pc'[t] = pc[t] /\ pc[t] \in {"isOpen", "head", "text"}
      <4>1. Keeps(s) /\ sink' = sink /\ current' = current
        BY <1>1, <1>3, <3>2
      <4>2. HeadWritten(s) => HeadWritten(s)'
        BY <4>1, HeadKept DEF Keeps
      <4> QED  BY <1>2, <2>2, <3>2, <4>1, <4>2 DEF Stage
    <3>3. CASE pc[t] = "clear" /\ pc'[t] = "unLock"
      <4>1. Written(s)'
        BY <1>3, <2>2, <3>3, WrittenKept DEF Stage
      <4> QED  BY <3>3, <4>1 DEF Stage
    <3>4. CASE pc[t] = "test" /\ pc'[t] = "console" /\ fp_stream = 0
      <4>1. Untouched(s)' /\ current' = 0
        BY <1>0, <1>1, <1>2, <2>2, <3>4 DEF Stage, StreamInv
      <4> QED  BY <3>4, <4>1 DEF Stage
    <3>5. CASE /\ pc[t] = "isOpen" /\ pc'[t] = "head"
               /\ fp_stream \in Streams /\ stream[fp_stream] = "open"
      <4>1. Untouched(s)' /\ current' # 0
        <5>1. fp_stream # 0
          BY <3>5 DEF Streams
        <5> QED  BY <1>0, <1>1, <1>2, <2>2, <3>5, <5>1 DEF Stage, StreamInv
      <4> QED  BY <3>5, <4>1 DEF Stage
    <3>6. CASE /\ pc[t] = "isOpen" /\ pc'[t] = "console"
               /\ fp_stream \in Streams /\ stream[fp_stream] # "open"
      <4>1. Untouched(s)' /\ current' = 0
        BY <1>0, <1>1, <1>2, <2>2, <3>6 DEF Stage, StreamInv
      <4> QED  BY <3>6, <4>1 DEF Stage
    <3> QED  BY <2>1, <3>1, <3>2, <3>3, <3>4, <3>5, <3>6
  <2>3. PICK o, i : o = outer[t] /\ i = inner[t]
    OBVIOUS
  <2>4. ThreadLines(t)
    BY <1>0 DEF LineInv
  <2>5. ASSUME Alone(o)' PROVE /\ spc' = "idle" /\ target'[o] = current'
                               /\ IF inner'[t] = 0 THEN Stage(t, o)' ELSE Untouched(o)'
    BY <1>0, <1>1, <1>2, <2>2, <2>3, <2>4, <2>5 DEF ThreadLines, Alone
  <2>6. ASSUME Alone(i)' PROVE spc' = "idle" /\ target'[i] = current' /\ Stage(t, i)'
    BY <1>0, <1>1, <2>2, <2>3, <2>4, <2>6 DEF ThreadLines, Alone
  <2> QED  BY <1>1, <2>3, <2>5, <2>6 DEF ThreadLines, Stage, Untouched, Alone
<1>6. \A s \in Ids : s > begun' => Untouched(s)'
  BY <1>0, <1>1, <1>2 DEF LineInv
<1>7. ASSUME NEW s \in done \ overlapped PROVE Written(s)'
  <2>1. s # outer[t]
    BY <1>0, <1>7 DEF IdInv
  <2> QED  BY <1>0, <1>3, <1>7, <2>1, WrittenKept DEF LineInv
<1> QED  BY <1>1, <1>4, <1>5, <1>6, <1>7 DEF LineInv, Ids

\* SetLog never runs during a statement that it has not overlapped.
LEMMA SetLogLines ==
    ASSUME LInv, SetLogNew \/ SetLogOpen \/ SetLogDelete \/ SetLogNull \/ Destroy
    PROVE  LineInv'
<1>0. PlaceInv /\ LineInv
  BY DEF LInv, IInv
<1>1. UNCHANGED <<sink, pc, outer, inner, begun, said, done, target>>
  BY DEF SetLogNew, SetLogOpen, SetLogDelete, SetLogNull, Destroy, setLogRest, history
<1>2. ASSUME NEW t \in Writers PROVE ~Alone(outer[t])' /\ ~Alone(inner[t])'
  <2>1. CASE SetLogNew
    BY <1>1, <2>1 DEF SetLogNew, Alone, Active
  <2>2. CASE SetLogOpen \/ SetLogDelete \/ SetLogNull
    BY <1>0, <1>1, <2>2 DEF SetLogOpen, SetLogDelete, SetLogNull, LineInv, ThreadLines,
                            Alone, history
  <2>3. CASE Destroy
    BY <1>0, <1>1, <2>3 DEF Destroy, PlaceInv, Alone
  <2> QED  BY <2>1, <2>2, <2>3
<1>3. \A t \in Writers : ThreadLines(t)'
  BY <1>2 DEF ThreadLines
<1>4. \A s : Keeps(s)
  BY <1>1, SinksSame
<1>5. \A s \in Ids : s > begun' => Untouched(s)'
  BY <1>0, <1>1 DEF LineInv, Untouched, Indices, Sinks
<1>6. ASSUME NEW s \in done' \ overlapped' PROVE Written(s)'
  <2>1. s \in done \ overlapped
    BY <1>1, <1>6 DEF SetLogNew, SetLogOpen, SetLogDelete, SetLogNull, Destroy, history
  <2> QED  BY <1>0, <1>4, <2>1, WrittenKept DEF LineInv
<1> QED  BY <1>3, <1>5, <1>6 DEF LineInv, Ids

\* A statement or a call that begins.
LEMMA BeginLines ==
    ASSUME LInv, NEW t \in Writers, BeginStream(t) \/ BeginCall(t)
    PROVE  LineInv'
<1>0. /\ outer \in [Writers -> 0..MaxStatements]
      /\ inner \in [Writers -> 0..MaxStatements]
      /\ pc \in [Writers -> Labels] /\ begun \in Nat /\ overlapped \subseteq Ids
      /\ said \in [Ids -> Seq(Parts)] /\ done \subseteq Ids
      /\ target \in [Ids -> Sinks]
      /\ PlaceInv /\ IdInv /\ LineInv
      /\ \A u \in Writers : (outer[u] # 0 => outer[u] \in Ids)
                            /\ (inner[u] # 0 => inner[u] \in Ids)
      /\ \A s \in Ids : s \in Nat /\ s # 0
  <2>1. TypeOK /\ PlaceInv /\ IdInv /\ LineInv
    BY DEF LInv, IInv
  <2>2. /\ 0..MaxStatements \subseteq Nat
        /\ \A s \in Ids : s \in Nat /\ s # 0
        /\ \A s \in 0..MaxStatements : s # 0 => s \in Ids
    BY DEF Ids
  <2> QED  BY <2>1, <2>2 DEF TypeOK
<1>1. PICK n : n = begun + 1
  OBVIOUS
<1>2. /\ n \in Ids /\ n \in Nat /\ n # 0
      /\ begun' = n /\ (\E text : said' = [said EXCEPT ![n] = text])
      /\ target' = [target EXCEPT ![n] = current]
      /\ overlapped' = (IF spc = "idle" THEN overlapped ELSE overlapped \union {n})
      /\ UNCHANGED <<done, current, spc, sink>>
      /\ \A u \in Writers : u # t => pc'[u] = pc[u]
      /\ \/ /\ outer' = [outer EXCEPT ![t] = n] /\ inner' = inner /\ pc'[t] = "logLock"
            /\ pc[t] = "idle"
         \/ /\ inner' = [inner EXCEPT ![t] = n] /\ outer' = outer /\ pc'[t] = "output"
            /\ pc[t] \in {"idle", "operands"}
  BY <1>0, <1>1 DEF BeginStream, BeginCall, Begin, Goto
<1>3. ASSUME NEW s \in Ids, s <= begun PROVE Keeps(s) /\ s # n
  <2>1. s # n
    BY <1>0, <1>1, <1>3
  <2>2. said'[s] = said[s] /\ target'[s] = target[s]
    BY <1>0, <1>2, <2>1
  <2> QED  BY <1>2, <2>1, <2>2, SinksSame
<1>4. \A s : Untouched(s) => Untouched(s)'
  BY <1>2 DEF Untouched, Indices, Sinks
<1>5. Untouched(n)
  <2>1. n > begun
    BY <1>0, <1>1
  <2> QED  BY <1>0, <1>2, <2>1 DEF LineInv
<1>6. ASSUME NEW u \in Writers, u # t PROVE ThreadLines(u)'
  <2>1. /\ outer'[u] = outer[u] /\ inner'[u] = inner[u] /\ pc'[u] = pc[u]
        /\ overlapped \subseteq overlapped' /\ ThreadLines(u)
    BY <1>0, <1>2, <1>6 DEF LineInv
  <2>2. (outer[u] # 0 => Keeps(outer[u])) /\ (inner[u] # 0 => Keeps(inner[u]))
    BY <1>0, <1>3 DEF IdInv
  <2> QED  BY <1>2, <2>1, <2>2, ThreadKept
<1>7. n \notin overlapped' => spc' = "idle" /\ target'[n] = current' /\ Untouched(n)'
  BY <1>0, <1>2, <1>4, <1>5
<1>8. ThreadLines(t)'
  <2>1. CASE /\ outer' = [outer EXCEPT ![t] = n] /\ inner' = inner /\ pc'[t] = "logLock"
             /\ pc[t] = "idle"
    <3>1. outer'[t] = n /\ inner'[t] = 0
      BY <1>0, <2>1 DEF PlaceInv
    <3> QED  BY <1>7, <2>1, <3>1 DEF ThreadLines, Alone, Stage, Untouched
  <2>2. CASE /\ inner' = [inner EXCEPT ![t] = n] /\ outer' = outer /\ pc'[t] = "output"
             /\ pc[t] \in {"idle", "operands"}
    <3>1. /\ inner'[t] = n /\ inner'[t] # 0
      BY <1>0, <1>2, <2>2
    <3>2. PICK o : o = outer[t]
      OBVIOUS
    <3>3. ASSUME o # 0, o \notin overlapped'
          PROVE  spc' = "idle" /\ target'[o] = current' /\ Untouched(o)'
      <4>1. o \in Ids /\ o <= begun /\ Alone(o) /\ inner[t] = 0 /\ pc[t] = "operands"
        BY <1>0, <1>2, <2>2, <3>2, <3>3 DEF IdInv, PlaceInv, Alone
      <4>2. spc = "idle" /\ target[o] = current /\ Untouched(o)
        BY <1>0, <3>2, <4>1 DEF LineInv, ThreadLines, Stage
      <4>3. target'[o] = target[o]
        BY <1>3, <4>1 DEF Keeps
      <4> QED  BY <1>2, <1>4, <4>2, <4>3
    <3>4. outer'[t] = o
      BY <2>2, <3>2
    <3> QED  BY <1>7, <2>2, <3>1, <3>3, <3>4 DEF ThreadLines, Alone, Stage, Untouched
  <2> QED  BY <1>2, <2>1, <2>2
<1>9. \A s \in Ids : s > begun' => Untouched(s)'
  <2>1. \A s \in Ids : s > n => s > begun
    BY <1>0, <1>1
  <2> QED  BY <1>0, <1>2, <1>4, <2>1 DEF LineInv
<1>10. ASSUME NEW s \in done' \ overlapped' PROVE Written(s)'
  <2>1. s \in done \ overlapped /\ s \in Ids /\ s <= begun
    BY <1>0, <1>2, <1>10 DEF IdInv
  <2> QED  BY <1>0, <1>3, <2>1, WrittenKept DEF LineInv
<1> QED  BY <1>6, <1>8, <1>9, <1>10 DEF LineInv, Ids

\* A statement or a call that ends has its line.
LEMMA EndLines ==
    ASSUME LInv, NEW t \in Writers, EndStream(t) \/ EndCall(t)
    PROVE  LineInv'
<1>0. /\ outer \in [Writers -> 0..MaxStatements]
      /\ inner \in [Writers -> 0..MaxStatements]
      /\ pc \in [Writers -> Labels] /\ PlaceInv /\ IdInv /\ LineInv
  BY DEF LInv, IInv, TypeOK
<1>1. /\ UNCHANGED <<sink, spc, begun, said, overlapped, current, target>>
      /\ \A u \in Writers : u # t =>
            outer'[u] = outer[u] /\ inner'[u] = inner[u] /\ pc'[u] = pc[u]
  BY <1>0 DEF EndStream, EndCall, Goto
<1>2. \A s : Keeps(s)
  BY <1>1, SinksSame
<1>3. \A s : Untouched(s) => Untouched(s)'
  BY <1>1 DEF Untouched, Indices, Sinks
<1>4. ASSUME NEW u \in Writers, u # t PROVE ThreadLines(u)'
  <2>1. ThreadLines(u)
    BY <1>0 DEF LineInv
  <2> QED  BY <1>1, <1>2, <1>4, <2>1, ThreadKept
<1>5. ThreadLines(t) /\ (\A s \in done \ overlapped : Written(s))
  BY <1>0 DEF LineInv
<1>6. ThreadLines(t)'
  <2>1. CASE EndStream(t)
    <3>1. outer'[t] = 0 /\ inner'[t] = 0
      BY <1>0, <2>1 DEF EndStream, PlaceInv
    <3> QED  BY <3>1 DEF ThreadLines, Alone
  <2>2. CASE EndCall(t)
    <3>1. PICK o : o = outer[t]
      OBVIOUS
    <3>2. outer'[t] = o /\ inner'[t] = 0 /\ inner[t] # 0
          /\ (o # 0 => pc'[t] = "operands")
      BY <1>0, <2>2, <3>1 DEF EndCall, Goto, PlaceInv
    <3>3. ASSUME o # 0, o \notin overlapped'
          PROVE  spc' = "idle" /\ target'[o] = current' /\ Untouched(o)'
      BY <1>1, <1>3, <1>5, <3>1, <3>2, <3>3 DEF ThreadLines, Alone
    <3> QED  BY <3>2, <3>3 DEF ThreadLines, Alone, Stage, Untouched
  <2> QED  BY <2>1, <2>2
<1>7. \A s \in Ids : s > begun' => Untouched(s)'
  BY <1>0, <1>1, <1>3 DEF LineInv
<1>8. ASSUME NEW s \in done' \ overlapped' PROVE Written(s)'
  <2>1. Written(s)
    <3>1. CASE EndStream(t)
      BY <1>0, <1>1, <1>5, <1>8, <3>1 DEF EndStream, PlaceInv, ThreadLines, Alone, Stage
    <3>2. CASE EndCall(t)
      BY <1>0, <1>1, <1>5, <1>8, <3>2 DEF EndCall, PlaceInv, ThreadLines, Alone, Stage
    <3> QED  BY <3>1, <3>2
  <2> QED  BY <1>2, <2>1, WrittenKept
<1> QED  BY <1>4, <1>6, <1>7, <1>8 DEF LineInv, Ids

\* v is the last token of k, and the others stay where they are.
Puts(k, v) == sink' = [sink EXCEPT ![k] = Append(@, v)]
Grown(k, v) ==
    /\ Len(sink'[k]) = Len(sink[k]) + 1 /\ sink'[k][Len(sink[k]) + 1] = v
    /\ Len(sink[k]) + 1 \in DOMAIN sink'[k]
    /\ \A j \in Sinks : j # k => sink'[j] = sink[j]
    /\ \A j \in Sinks : \A i \in DOMAIN sink[j] :
          i \in DOMAIN sink'[j] /\ sink'[j][i] = sink[j][i]
    /\ \A s : s # v[1] => \A j \in Sinks : Indices(s, j)' = Indices(s, j)
    /\ \A s : s = v[1] => Indices(s, k)' = Indices(s, k) \union {Len(sink[k]) + 1}
    /\ \A s : \A j \in Sinks : j # k => Indices(s, j)' = Indices(s, j)

LEMMA PutLines ==
    ASSUME TypeOK, NEW k \in Sinks, NEW v \in Tokens, Puts(k, v)
    PROVE  Grown(k, v)
<1>0. PICK n : n = Len(sink[k]) + 1
  OBVIOUS
<1>1. /\ sink[k] \in Seq(Tokens) /\ sink'[k] = Append(sink[k], v) /\ Sinks' = Sinks
      /\ \A j \in Sinks : j # k => sink'[j] = sink[j]
  BY DEF Sinks, TypeOK, Puts
<1> HIDE DEF Tokens
<1>2. /\ Len(sink'[k]) = n /\ sink'[k][n] = v /\ n \in DOMAIN sink'[k]
      /\ \A i \in DOMAIN sink[k] : i \in DOMAIN sink'[k] /\ sink'[k][i] = sink[k][i]
      /\ \A i \in DOMAIN sink'[k] : i \in DOMAIN sink[k] \/ i = n
      /\ n \notin DOMAIN sink[k]
  BY <1>0, <1>1
<1>3. ASSUME NEW s, NEW j \in Sinks, j # k PROVE Indices(s, j)' = Indices(s, j)
  BY <1>1, <1>3 DEF Indices
<1>4. ASSUME NEW s, s # v[1] PROVE Indices(s, k)' = Indices(s, k)
  BY <1>2, <1>4 DEF Indices
<1>5. ASSUME NEW s, s = v[1] PROVE Indices(s, k)' = Indices(s, k) \union {n}
  BY <1>2, <1>5 DEF Indices
<1> QED  BY <1>0, <1>1, <1>2, <1>3, <1>4, <1>5 DEF Grown

\* What _output() writes comes in the order of a line, in the sink of the
\* statement, and nobody comes between, since the lock is held.
LEMMA WriteLines ==
    ASSUME LInv, NEW t \in Writers, LineHead(t) \/ Text(t) \/ Console(t)
    PROVE  LineInv'
<1>0. /\ TypeOK /\ PlaceInv /\ LockInv /\ NumberInv /\ BufferInv /\ IdInv /\ LineInv
      /\ StreamInv /\ sink \in [Sinks -> Seq(Tokens)]
      /\ outer \in [Writers -> 0..MaxStatements]
      /\ inner \in [Writers -> 0..MaxStatements]
      /\ pc \in [Writers -> Labels] /\ current \in Sinks /\ fp_stream \in Sinks
      /\ begun \in Nat /\ done \subseteq Ids
  BY DEF LInv, IInv, TypeOK
<1>1. /\ UNCHANGED <<outer, inner, spc, begun, said, done, overlapped, current, target>>
      /\ \A u \in Writers : u # t => pc'[u] = pc[u]
      /\ pc[t] \in {"head", "text", "console"}
      /\ pc[t] = "head" => pc'[t] = "text"
      /\ pc[t] # "head" => pc'[t] = IF inner[t] # 0 THEN "callUnLock" ELSE "clear"
  BY <1>0 DEF LineHead, Text, Console, Goto, Return, InCall, history
<1>2. PICK s, m : s = Statement(t) /\ m = Message(t)
  OBVIOUS
<1>3. /\ s \in Ids /\ m \in Seq(Parts) /\ s # 0 /\ s <= begun /\ s \notin done
      /\ s = IF inner[t] # 0 THEN inner[t] ELSE outer[t]
      /\ m = said[s]
  <2>1. s \in Ids /\ m \in Seq(Parts) /\ s = IF inner[t] # 0 THEN inner[t] ELSE outer[t]
    BY <1>0, <1>1, <1>2, MessageTypes DEF Outputs, Statement, InCall
  <2>2. s # 0 /\ s <= begun /\ s \notin done
    BY <1>0, <2>1 DEF Ids, IdInv
  <2>3. m = said[s]
    <3>1. CASE inner[t] # 0
      BY <1>2, <2>1, <3>1 DEF Message, InCall
    <3>2. CASE inner[t] = 0
      <4>1. m_mutex = t /\ outer[t] # 0
        BY <1>0, <1>1, <2>1, <2>2, <3>2 DEF LockInv, Holds
      <4>2. Fills(t)
        BY <1>1, <4>1 DEF Fills
      <4> QED  BY <1>0, <1>2, <2>1, <3>2, <4>2 DEF BufferInv, Message, InCall
    <3> QED  BY <3>1, <3>2
  <2> QED  BY <2>1, <2>2, <2>3
\* The statement alone may have another token, and one sink only.
<1>4. /\ \A d : d # s => \A j \in Sinks : Indices(d, j)' = Indices(d, j)
      /\ \A j \in Sinks : \A i \in DOMAIN sink[j] :
            i \in DOMAIN sink'[j] /\ sink'[j][i] = sink[j][i]
  <2>1. HeadOf(s) \in Tokens /\ <<s, "text", m>> \in Tokens
    <3>1. <<>> \in Seq(Parts)
      OBVIOUS
    <3> QED  BY <1>3, <3>1 DEF HeadOf, Tokens
  <2>2. PICK k \in Sinks, v \in Tokens :
            v[1] = s /\ (sink' = sink \/ sink' = [sink EXCEPT ![k] = Append(@, v)])
    <3>1. CASE LineHead(t)
      <4>1. sink' = sink \/ sink' = [sink EXCEPT ![fp_stream] = Append(@, HeadOf(s))]
        BY <1>2, <3>1 DEF LineHead, Put, HeadOf
      <4>2. HeadOf(s)[1] = s
        BY DEF HeadOf
      <4> QED  BY <1>0, <2>1, <4>1, <4>2
    <3>2. CASE Text(t)
      <4>1. sink' = sink \/ sink' = [sink EXCEPT ![fp_stream] = Append(@, <<s, "text", m>>)]
        BY <1>2, <3>2 DEF Text, Put
      <4> QED  BY <1>0, <2>1, <4>1
    <3>3. CASE Console(t)
      <4>1. sink' = [sink EXCEPT ![0] = Append(@, <<s, "text", m>>)] /\ 0 \in Sinks
        BY <1>2, <3>3 DEF Console, Sinks
      <4> QED  BY <2>1, <4>1
    <3> QED  BY <3>1, <3>2, <3>3
  <2>3. CASE sink' = sink
    BY <2>3 DEF Indices
  <2>4. CASE sink' = [sink EXCEPT ![k] = Append(@, v)]
    <3>1. Grown(k, v)
      BY <1>0, <2>2, <2>4, PutLines, Zenon DEF Puts
    <3> QED  BY <2>2, <3>1, Zenon DEF Grown
  <2> QED  BY <2>2, <2>3, <2>4
<1>5. \A d : d # s => Keeps(d)
  BY <1>1, <1>4 DEF Keeps
<1>6. \A d : d # s /\ Untouched(d) => Untouched(d)'
  BY <1>4, UntouchedKept
<1>7. ASSUME NEW u \in Writers, u # t PROVE ThreadLines(u)'
  <2>1. pc[u] # "text"
    BY <1>0, <1>1, <1>7 DEF LockInv, Holds
  <2>2. (outer[u] # 0 => outer[u] # s) /\ (inner[u] # 0 => inner[u] # s)
    BY <1>0, <1>3, <1>7 DEF NumberInv, IdInv
  <2>3. ThreadLines(u)
    BY <1>0 DEF LineInv
  <2> QED  BY <1>1, <1>5, <1>7, <2>1, <2>2, <2>3, ThreadKept
<1>8. ASSUME s \notin overlapped
      PROVE  /\ pc[t] = "head" => HeadWritten(s)'
             /\ pc[t] # "head" => Written(s)'
  <2>1. spc = "idle" /\ target[s] = current /\ Stage(t, s)
    BY <1>0, <1>3, <1>8 DEF LineInv, ThreadLines, Alone
  <2>2. PICK c, n : c = current /\ n = Len(sink[c]) + 1
    OBVIOUS
  <2>3. c \in Sinks /\ target'[s] = c /\ target[s] = c /\ Len(sink[c]) \in Nat
    BY <1>0, <1>1, <2>1, <2>2
  <2>4. ASSUME c # 0 PROVE fp_stream = c /\ stream[c] = "open"
    BY <1>0, <2>1, <2>2, <2>4 DEF StreamInv
  <2>5. HeadOf(s) \in Tokens /\ TextOf(s) \in Tokens
    <3>1. <<>> \in Seq(Parts)
      OBVIOUS
    <3> QED  BY <1>3, <3>1 DEF HeadOf, TextOf, Tokens
  <2>6. HeadOf(s)[1] = s /\ TextOf(s)[1] = s
    BY DEF HeadOf, TextOf
  <2>7. CASE LineHead(t)
    <3>1. pc[t] = "head" /\ c # 0 /\ Untouched(s)
      BY <2>1, <2>2, <2>7 DEF LineHead, Stage
    <3>2. sink' = [sink EXCEPT ![c] = Append(@, HeadOf(s))]
      BY <1>2, <2>4, <2>7, <3>1 DEF LineHead, Put, HeadOf
    <3>3. /\ Len(sink'[c]) = n /\ sink'[c][n] = HeadOf(s)
          /\ Indices(s, c)' = Indices(s, c) \union {n}
          /\ \A j \in Sinks : j # c => Indices(s, j)' = Indices(s, j)
      <4>1. Grown(c, HeadOf(s))
        BY <1>0, <2>3, <2>5, <3>2, PutLines, Zenon DEF Puts
      <4> QED  BY <2>2, <2>3, <2>6, <4>1 DEF Grown
    <3>4. \A j \in Sinks : Indices(s, j) = {}
      BY <3>1 DEF Untouched
    <3>5. HeadWritten(s)'
      BY <2>3, <3>3, <3>4 DEF HeadWritten, HeadOf, Sinks
    <3> QED  BY <3>1, <3>5
  <2>8. CASE Text(t)
    <3>1. pc[t] = "text" /\ c # 0 /\ HeadWritten(s)
      BY <2>1, <2>2, <2>8 DEF Text, Stage
    <3>2. sink' = [sink EXCEPT ![c] = Append(@, TextOf(s))]
      BY <1>2, <1>3, <2>4, <2>8, <3>1 DEF Text, Put, TextOf
    <3>3. /\ sink'[c][n] = TextOf(s) /\ n \in DOMAIN sink'[c]
          /\ Indices(s, c)' = Indices(s, c) \union {n}
          /\ \A j \in Sinks : j # c => Indices(s, j)' = Indices(s, j)
          /\ \A i \in DOMAIN sink[c] : i \in DOMAIN sink'[c] /\ sink'[c][i] = sink[c][i]
      <4>1. PICK v : v = TextOf(s)
        OBVIOUS
      <4>2. v \in Tokens /\ v[1] = s
        BY <2>5, <2>6, <4>1
      <4>3. Grown(c, v)
        BY <1>0, <2>3, <3>2, <4>1, <4>2, PutLines, Zenon DEF Puts
      <4> QED  BY <2>2, <2>3, <4>1, <4>2, <4>3 DEF Grown
    <3>4. /\ Indices(s, c) = {n - 1} /\ sink[c][n - 1] = HeadOf(s)
          /\ \A j \in Sinks : j # c => Indices(s, j) = {}
      BY <2>2, <2>3, <3>1 DEF HeadWritten
    <3>5. n - 1 \in DOMAIN sink[c]
      BY <3>4 DEF Indices
    <3>6. TextOf(s)' = TextOf(s)
      BY <1>1 DEF TextOf
    <3>7. Written(s)'
      BY <2>3, <3>1, <3>3, <3>4, <3>5, <3>6 DEF Written, HeadOf, Sinks
    <3> QED  BY <3>1, <3>7
  <2>9. CASE Console(t)
    <3>1. pc[t] = "console" /\ c = 0 /\ Untouched(s)
      BY <2>1, <2>2, <2>9 DEF Console, Stage
    <3>2. sink' = [sink EXCEPT ![c] = Append(@, TextOf(s))]
      BY <1>2, <1>3, <2>9, <3>1 DEF Console, TextOf
    <3>3. /\ sink'[c][n] = TextOf(s) /\ n \in DOMAIN sink'[c]
          /\ Indices(s, c)' = Indices(s, c) \union {n}
          /\ \A j \in Sinks : j # c => Indices(s, j)' = Indices(s, j)
      <4>1. PICK v : v = TextOf(s)
        OBVIOUS
      <4>2. v \in Tokens /\ v[1] = s
        BY <2>5, <2>6, <4>1
      <4>3. Grown(c, v)
        BY <1>0, <2>3, <3>2, <4>1, <4>2, PutLines, Zenon DEF Puts
      <4> QED  BY <2>2, <2>3, <4>1, <4>2, <4>3 DEF Grown
    <3>4. \A j \in Sinks : Indices(s, j) = {}
      BY <3>1 DEF Untouched
    <3>5. TextOf(s)' = TextOf(s)
      BY <1>1 DEF TextOf
    <3>6. Written(s)'
      BY <2>3, <3>1, <3>3, <3>4, <3>5 DEF Written, Sinks
    <3> QED  BY <3>1, <3>6
  <2> QED  BY <2>7, <2>8, <2>9
<1>9. ThreadLines(t)'
  <2>1. PICK o : o = outer[t]
    OBVIOUS
  <2>2. ThreadLines(t)
    BY <1>0 DEF LineInv
  <2>3. ASSUME s \notin overlapped
        PROVE  spc' = "idle" /\ target'[s] = current' /\ Stage(t, s)'
    <3>1. spc = "idle" /\ target[s] = current /\ Stage(t, s)
      BY <1>3, <2>2, <2>3 DEF ThreadLines, Alone
    <3>2. Stage(t, s)'
      <4>1. CASE pc[t] = "head"
        BY <1>1, <1>8, <2>3, <3>1, <4>1 DEF Stage
      <4>2. CASE pc[t] # "head"
        BY <1>1, <1>8, <2>3, <4>2 DEF Stage
      <4> QED  BY <4>1, <4>2
    <3> QED  BY <1>1, <3>1, <3>2
  <2>4. ASSUME inner[t] # 0, o # 0, o \notin overlapped
        PROVE  spc' = "idle" /\ target'[o] = current' /\ Untouched(o)'
    <3>1. o # s
      BY <1>0, <1>3, <2>1, <2>4 DEF IdInv
    <3>2. spc = "idle" /\ target[o] = current /\ Untouched(o)
      BY <2>1, <2>2, <2>4 DEF ThreadLines, Alone
    <3> QED  BY <1>1, <1>6, <3>1, <3>2
  <2>5. CASE inner[t] # 0
    <3>1. inner'[t] = s /\ outer'[t] = o
      BY <1>1, <1>3, <2>1, <2>5
    <3> QED  BY <1>1, <1>3, <2>3, <2>4, <2>5, <3>1 DEF ThreadLines, Alone, Stage, Untouched
  <2>6. CASE inner[t] = 0
    <3>1. inner'[t] = 0 /\ outer'[t] = s
      BY <1>1, <1>3, <2>6
    <3> QED  BY <1>1, <1>3, <2>3, <3>1 DEF ThreadLines, Alone, Stage, Untouched
  <2> QED  BY <2>5, <2>6
<1>10. ASSUME NEW d \in Ids, d > begun' PROVE Untouched(d)'
  <2>1. d # s /\ d > begun
    BY <1>0, <1>1, <1>3, <1>10 DEF Ids
  <2> QED  BY <1>0, <1>6, <1>10, <2>1 DEF LineInv
<1>11. ASSUME NEW d \in done' \ overlapped' PROVE Written(d)'
  <2>1. d \in done \ overlapped /\ d # s
    BY <1>1, <1>3, <1>11
  <2> QED  BY <1>0, <1>5, <2>1, WrittenKept DEF LineInv
<1> QED  BY <1>7, <1>9, <1>10, <1>11 DEF LineInv, Ids

LEMMA LinesStep == LInv /\ [Next]_vars => LInv'
<1> SUFFICES ASSUME LInv, [Next]_vars PROVE LInv'
  OBVIOUS
<1>1. IInv'
  BY TypeStep, PlaceStep, LockStep, NumberStep, BufferStep DEF LInv, IInv
<1>2. IdInv' /\ StreamInv'
  BY IdStep, StreamStep DEF LInv, IInv
<1>3. LineInv'
  <2>1. CASE UNCHANGED vars
    <3>1. UNCHANGED <<sink, outer, inner, pc, spc, begun, said, done, overlapped,
                      current, target>>
      BY <2>1 DEF vars, history
    <3>2. \A s : Keeps(s)
      BY <3>1, SinksSame
    <3>3. LineInv
      BY DEF LInv
    <3>4. \A t \in Writers : ThreadLines(t)'
      BY <3>1, <3>2, <3>3, ThreadKept DEF LineInv
    <3>5. \A s \in Ids : s > begun' => Untouched(s)'
      BY <3>1, <3>2, <3>3, UntouchedKept DEF LineInv, Keeps
    <3>6. \A s \in done' \ overlapped' : Written(s)'
      BY <3>1, <3>2, <3>3, WrittenKept DEF LineInv
    <3> QED  BY <3>4, <3>5, <3>6 DEF LineInv, Ids
  <2> QED  BY <2>1, StepCases, QuietLines, SetLogLines, BeginLines, EndLines, WriteLines
           DEF Cases
<1> QED  BY <1>1, <1>2, <1>3 DEF LInv

\* Two tokens that follow each other.
LEMMA Follow ==
    ASSUME NEW S, NEW q \in Seq(S), NEW i \in DOMAIN q, i - 1 \in DOMAIN q
    PROVE  SubSeq(q, i - 1, i - 1 + 2 - 1) = <<q[i - 1]>> \o <<q[i]>>
OBVIOUS

LEMMA Single ==
    ASSUME NEW S, NEW q \in Seq(S), NEW i \in DOMAIN q
    PROVE  SubSeq(q, i, i + 1 - 1) = <<>> \o <<q[i]>>
<1>1. i \in Nat /\ i + 1 - 1 = i /\ i \in 1..Len(q)
  OBVIOUS
<1>2. SubSeq(q, i, i) = <<q[i]>>
  <2>1. /\ SubSeq(q, i, i) \in Seq(S) /\ Len(SubSeq(q, i, i)) = 1
        /\ SubSeq(q, i, i)[1] = q[i]
    BY <1>1
  <2>2. /\ <<q[i]>> \in Seq(S) /\ Len(<<q[i]>>) = 1 /\ <<q[i]>>[1] = q[i]
    OBVIOUS
  <2>3. \A j \in 1..Len(SubSeq(q, i, i)) : SubSeq(q, i, i)[j] = <<q[i]>>[j]
    BY <2>1, <2>2
  <2> QED  BY <2>1, <2>2, <2>3, SeqEqual
<1>3. SubSeq(q, i, i + 1 - 1) = <<q[i]>>
  BY <1>1, <1>2, Zenon
<1>4. <<>> \o <<q[i]>> = <<q[i]>>
  OBVIOUS
<1> QED  BY <1>3, <1>4, Zenon

\* Every statement and call that no SetLog overlapped leaves its line in the
\* sink that was chosen last, whole, once and in one piece, however the threads
\* that log come between each other.
THEOREM LinesStayWhole == Spec => []LinesWhole
<1>1. LInv => LinesWhole
  <2> SUFFICES ASSUME LInv, NEW s \in done \ overlapped, NEW k \in Sinks
               PROVE  IF k = target[s]
                      THEN /\ \E i \in DOMAIN sink[k] :
                                 SubSeq(sink[k], i, i + Len(Line(s, k)) - 1) = Line(s, k)
                           /\ \A i, j \in Indices(s, k) :
                                 sink[k][i][2] = sink[k][j][2] => i = j
                      ELSE Indices(s, k) = {}
    BY DEF LinesWhole
  <2>1. Written(s) /\ sink[k] \in Seq(Tokens)
    BY DEF LInv, IInv, TypeOK, LineInv
  <2>2. CASE k # target[s]
    BY <2>1, <2>2 DEF Written
  <2>3. CASE k = target[s]
    <3>1. PICK i \in DOMAIN sink[k] :
              /\ sink[k][i] = TextOf(s)
              /\ IF k = 0
                 THEN Indices(s, k) = {i}
                 ELSE /\ i - 1 \in DOMAIN sink[k]
                      /\ sink[k][i - 1] = HeadOf(s)
                      /\ Indices(s, k) = {i - 1, i}
      BY <2>1, <2>3 DEF Written
    <3>2. TextOf(s)[2] # HeadOf(s)[2]
      BY DEF TextOf, HeadOf
    <3>3. CASE k = 0
      <4>1. Line(s, k) = <<>> \o <<TextOf(s)>> /\ Len(Line(s, k)) = 1
        BY <3>3 DEF Line, TextOf
      <4>2. SubSeq(sink[k], i, i + Len(Line(s, k)) - 1) = Line(s, k)
        BY <2>1, <3>1, <4>1, Single
      <4> QED  BY <2>3, <3>1, <3>3, <4>2
    <3>4. CASE k # 0
      <4>1. Line(s, k) = <<HeadOf(s)>> \o <<TextOf(s)>> /\ Len(Line(s, k)) = 2
        BY <3>4 DEF Line, TextOf, HeadOf
      <4>2. SubSeq(sink[k], i - 1, i - 1 + Len(Line(s, k)) - 1) = Line(s, k)
        BY <2>1, <3>1, <3>4, <4>1, Follow
      <4> QED  BY <2>3, <3>1, <3>2, <3>4, <4>2
    <3> QED  BY <3>3, <3>4
  <2> QED  BY <2>2, <2>3
<1> QED  BY InitInv, LinesFirst, LinesStep, <1>1, PTL DEF Spec, LInv

=============================================================================
