-------------------------- MODULE ListenThreadProofs --------------------------
(* Theorems about ListenThread, for any peers, both classes and builds, and  *)
(* all bounds: when join() has returned the thread is gone, on the pthread   *)
(* build, and a stop that is not overwritten is followed by one connection   *)
(* at most.                                                                  *)
(*                                                                           *)
(* Neither property is inductive.  What join() waits for depends on the      *)
(* handle it read, so JoinInv says at every control point of the owner what  *)
(* a null handle means; and what may still be handed over depends on where   *)
(* the loop was when the stop came, so LateInv says how much the thread has  *)
(* handed over while it may yet do so.                                       *)
EXTENDS ListenThread, TLAPS

USE PeersAssumption, KindsAssumption, BuildsAssumption, BoundsAssumption

-----------------------------------------------------------------------------
(* The inductive invariant *)

ThreadPoints == {"none", "listen", "setrunning", "test", "accept", "handle",
                 "disconnect", "setend", "proc", "clear", "exited"}

OwnerPoints == {"idle", "starting", "running", "joining", "joined", "deleted"}

Fates == {"away", "waiting", "taken", "closed", "leaked", "reset"}

TypeOK ==
    /\ kind \in Kinds /\ build \in Builds
    /\ m_status \in {"INIT", "RUNNING", "TERM", "END"}
    /\ sock \in {"fresh", "bound", "listening", "shut", "closed"}
    /\ peer \in [Peers -> Fates]
    /\ conn \in Peers \union {NoPeer}
    /\ tpc \in ThreadPoints /\ opc \in OwnerPoints
    /\ starts \in 0..MaxStarts
    /\ stop \in {"none", "asked", "overwritten"} /\ late \in Nat

FlagsOK ==
    /\ portFree \in BOOLEAN
    /\ m_handle \in BOOLEAN
    /\ handleOpen \in BOOLEAN
    /\ joinArg \in BOOLEAN

\* The thread holds the connection operator() is handling, and no other.
ConnInv ==
    /\ conn # NoPeer <=> tpc = "handle"
    /\ \A p \in Peers : peer[p] = "taken" <=> conn = p

\* A null handle was cleared by the thread's last step: once start() has stored
\* the handle, and as long as the owner goes by what join() read.
JoinInv ==
    /\ opc = "running" /\ ~m_handle => tpc = "exited"
    /\ opc = "joining" /\ ~joinArg => tpc = "exited"
    /\ JoinWaits

\* A stop that was not overwritten is still in m_status, or the loop has ended;
\* the loop is handed one connection at most, and none as long as it is on its
\* way to the one it may still handle.
LateInv ==
    /\ AtMostOneLate
    /\ stop = "none" => late = 0
    /\ stop = "asked" => m_status \in {"TERM", "END"}
    /\ stop = "asked" /\ tpc \in {"accept", "handle"} => late = 0

IInv == TypeOK /\ FlagsOK /\ ConnInv /\ JoinInv /\ LateInv

-----------------------------------------------------------------------------
(* The steps *)

\* The case distinction of the proofs below.
Cases ==
    \/ Listen \/ SetRunning \/ Test \/ Accept \/ Poll \/ Handle \/ Disconnect
    \/ SetEnd \/ CloseHandle \/ ClearHandle \/ AcceptError
    \/ Start \/ StoreHandle \/ StopListening \/ JoinRead \/ JoinReturn
    \/ SeeNotRunning \/ Destroy
    \/ PortChange \/ (\E p \in Peers : Arrive(p))
    \/ UNCHANGED vars

LEMMA StepCases == [Next]_vars => Cases
BY DEF Next, ThreadStep, OwnerStep, Cases

LEMMA InitInv == Init => IInv
<1> SUFFICES ASSUME Init PROVE IInv
  OBVIOUS
<1> USE DEF Init
<1>1. TypeOK
  BY DEF TypeOK, ThreadPoints, OwnerPoints, Fates
<1>2. FlagsOK /\ ConnInv
  BY Zenon DEF FlagsOK, ConnInv
<1>3. JoinInv /\ LateInv
  BY DEF JoinInv, JoinWaits, LateInv, AtMostOneLate
<1> QED BY <1>1, <1>2, <1>3 DEF IInv

\* Every step keeps the types.
LEMMA TypeStep == TypeOK /\ [Next]_vars => TypeOK'
<1> SUFFICES ASSUME TypeOK, Cases PROVE TypeOK'
  BY StepCases
<1> USE DEF TypeOK, ThreadPoints, OwnerPoints, Fates, env, vars
<1>1. CASE Listen \/ SetRunning BY <1>1 DEF Listen, SetRunning
<1>2. CASE Test \/ Poll \/ AcceptError BY <1>2 DEF Test, Poll, AcceptError, Goto
<1>3. CASE Accept BY <1>3 DEF Accept, Waiting
<1>4. CASE Handle
  <2>1. PICK fate \in {"closed", "leaked"} : peer' = [peer EXCEPT ![conn] = fate]
    BY <1>4 DEF Handle
  <2>2. peer' \in [Peers -> Fates]
    BY <2>1
  <2>3. late' \in Nat
    BY <1>4 DEF Handle
  <2> QED BY <1>4, <2>2, <2>3 DEF Handle
<1>5. CASE Disconnect BY <1>5 DEF Disconnect, Waiting
<1>6. CASE SetEnd \/ CloseHandle \/ ClearHandle
  BY <1>6 DEF SetEnd, CloseHandle, ClearHandle
<1>7. CASE Start \/ StoreHandle \/ StopListening \/ JoinRead
  BY <1>7 DEF Start, StoreHandle, StopListening, JoinRead
<1>8. CASE JoinReturn \/ SeeNotRunning \/ Destroy \/ PortChange
  BY <1>8 DEF JoinReturn, SeeNotRunning, Destroy, PortChange
<1>9. CASE \E p \in Peers : Arrive(p) BY <1>9 DEF Arrive
<1>10. CASE UNCHANGED vars BY <1>10
<1> QED BY <1>1, <1>2, <1>3, <1>4, <1>5, <1>6, <1>7, <1>8, <1>9, <1>10 DEF Cases

LEMMA FlagsStep == FlagsOK /\ [Next]_vars => FlagsOK'
<1> SUFFICES ASSUME FlagsOK, Cases PROVE FlagsOK'
  BY StepCases
<1> USE DEF FlagsOK, env
<1>1. CASE PortChange BY <1>1, Zenon DEF PortChange
<1>2. CASE CloseHandle BY <1>2, Zenon DEF CloseHandle
<1>3. CASE ClearHandle BY <1>3, Zenon DEF ClearHandle
<1>4. CASE Start \/ StoreHandle \/ JoinRead BY <1>4, Zenon DEF Start, StoreHandle, JoinRead
<1>5. Listen \/ SetRunning \/ Test \/ Accept \/ Poll \/ Handle \/ Disconnect \/ SetEnd
        \/ AcceptError \/ StopListening \/ JoinReturn \/ SeeNotRunning \/ Destroy
        \/ (\E p \in Peers : Arrive(p)) \/ UNCHANGED vars
      => UNCHANGED <<portFree, m_handle, handleOpen, joinArg>>
  BY DEF Listen, SetRunning, Test, Accept, Poll, Handle, Disconnect, SetEnd, AcceptError,
         Goto, StopListening, JoinReturn, SeeNotRunning, Destroy, Arrive, vars
<1> QED BY <1>1, <1>2, <1>3, <1>4, <1>5 DEF Cases

\* Only Accept takes a connection, at a point where the thread has none, and
\* only Handle lets go of it.
LEMMA ConnStep == TypeOK /\ ConnInv /\ [Next]_vars => ConnInv'
<1> SUFFICES ASSUME TypeOK, ConnInv, Cases PROVE ConnInv'
  BY StepCases
<1> USE DEF ConnInv
<1>0. peer \in [Peers -> Fates] /\ conn \in Peers \union {NoPeer}
  BY DEF TypeOK
<1>1. CASE Accept
  BY <1>0, <1>1 DEF Accept, Waiting
<1>2. CASE Handle
  <2>1. PICK fate \in {"closed", "leaked"} : peer' = [peer EXCEPT ![conn] = fate]
    BY <1>2 DEF Handle
  <2> QED BY <1>0, <1>2, <2>1 DEF Handle
<1>3. CASE Disconnect
  BY <1>0, <1>3 DEF Disconnect, Waiting
<1>4. CASE \E p \in Peers : Arrive(p)
  BY <1>0, <1>4 DEF Arrive
<1>5. CASE UNCHANGED <<peer, conn>> /\ tpc # "handle" /\ tpc' # "handle"
  BY <1>5
<1>6. CASE UNCHANGED <<peer, conn, tpc>>
  BY <1>6
<1>7. Listen \/ SetRunning \/ Test \/ Poll \/ SetEnd \/ CloseHandle \/ ClearHandle
        \/ AcceptError \/ Start
      => UNCHANGED <<peer, conn>> /\ tpc # "handle" /\ tpc' # "handle"
  BY DEF Listen, SetRunning, Test, Poll, SetEnd, CloseHandle, ClearHandle, AcceptError,
         Start, Goto
<1>8. StoreHandle \/ StopListening \/ JoinRead \/ JoinReturn \/ SeeNotRunning \/ Destroy
        \/ PortChange \/ UNCHANGED vars
      => UNCHANGED <<peer, conn, tpc>>
  BY DEF StoreHandle, StopListening, JoinRead, JoinReturn, SeeNotRunning, Destroy,
         PortChange, vars
<1> QED BY <1>1, <1>2, <1>3, <1>4, <1>5, <1>6, <1>7, <1>8 DEF Cases

\* A thread that has exited takes no step, and clears its handle last.
LEMMA JoinStep == TypeOK /\ JoinInv /\ [Next]_vars => JoinInv'
<1> SUFFICES ASSUME TypeOK, JoinInv, Cases PROVE JoinInv'
  BY StepCases
<1> USE DEF JoinInv, JoinWaits, env
<1>1. CASE Listen \/ SetRunning \/ Test \/ Accept \/ Poll \/ Handle \/ AcceptError
  BY <1>1 DEF Listen, SetRunning, Test, Accept, Poll, Handle, AcceptError, Goto
<1>2. CASE Disconnect \/ SetEnd \/ CloseHandle
  BY <1>2 DEF Disconnect, SetEnd, CloseHandle
<1>3. CASE ClearHandle BY <1>3 DEF ClearHandle
<1>4. CASE Start \/ StoreHandle \/ StopListening
  BY <1>4 DEF Start, StoreHandle, StopListening
<1>5. CASE JoinRead BY <1>5 DEF JoinRead
<1>6. CASE JoinReturn BY <1>6 DEF JoinReturn, TypeOK
<1>7. CASE SeeNotRunning \/ Destroy BY <1>7 DEF SeeNotRunning, Destroy
<1>8. CASE PortChange \/ (\E p \in Peers : Arrive(p)) BY <1>8 DEF PortChange, Arrive
<1>9. CASE UNCHANGED vars BY <1>9 DEF vars
<1> QED BY <1>1, <1>2, <1>3, <1>4, <1>5, <1>6, <1>7, <1>8, <1>9 DEF Cases

\* The first stop finds a count of 0 wherever the loop is; a connection that is
\* counted takes the loop back to its test, which a stop makes it leave.
LEMMA LateStep == TypeOK /\ LateInv /\ [Next]_vars => LateInv'
<1> SUFFICES ASSUME TypeOK, LateInv, Cases PROVE LateInv'
  BY StepCases
<1> USE DEF LateInv, AtMostOneLate
<1>0. late \in Nat /\ stop \in {"none", "asked", "overwritten"}
  BY DEF TypeOK
<1>1. CASE Test BY <1>1 DEF Test, Goto
<1>2. CASE Accept BY <1>2 DEF Accept
<1>3. CASE Handle BY <1>0, <1>3 DEF Handle
<1>4. CASE StopListening BY <1>0, <1>4 DEF StopListening
<1>5. CASE Listen \/ SetRunning \/ Poll \/ AcceptError \/ Disconnect \/ SetEnd
  BY <1>0, <1>5 DEF Listen, SetRunning, Poll, AcceptError, Goto, Disconnect, SetEnd
<1>6. CASE CloseHandle \/ ClearHandle \/ Start
  BY <1>6 DEF CloseHandle, ClearHandle, Start
<1>7. StoreHandle \/ JoinRead \/ JoinReturn \/ SeeNotRunning \/ Destroy \/ PortChange
        \/ (\E p \in Peers : Arrive(p)) \/ UNCHANGED vars
      => UNCHANGED <<m_status, tpc, stop, late>>
  BY DEF StoreHandle, JoinRead, JoinReturn, SeeNotRunning, Destroy, PortChange, Arrive, vars
<1> QED BY <1>1, <1>2, <1>3, <1>4, <1>5, <1>6, <1>7 DEF Cases

-----------------------------------------------------------------------------
(* The theorems *)

\* IInv is an inductive invariant of the listening thread and its owner.
THEOREM Invariant == Spec => []IInv
<1>1. IInv /\ [Next]_vars => IInv'
  BY TypeStep, FlagsStep, ConnStep, JoinStep, LateStep DEF IInv
<1> QED BY InitInv, <1>1, PTL DEF Spec

\* Thread.h:84, 45: when join() has returned, or isRunning() was seen false, the
\* thread is gone, whenever the handle is stored, read and cleared.
THEOREM JoinWaitsForThread == Spec => []JoinWaits
<1>1. IInv => JoinWaits
  BY DEF IInv, JoinInv
<1> QED BY Invariant, <1>1, PTL

\* stopListening() writes m_status without a lock, and unless the assignment of
\* RUNNING overwrites it the loop hands over one connection more at most, counted
\* from the call, whichever step it was about to take.
THEOREM OneLateAtMost == Spec => []AtMostOneLate
<1>1. IInv => AtMostOneLate
  BY DEF IInv, LateInv
<1> QED BY Invariant, <1>1, PTL

\* A connection operator() took is handled before another is taken: one peer at
\* a time, and the thread does not leave its loop with one.
THEOREM OneConnection == Spec => []ConnInv
<1>1. IInv => ConnInv
  BY DEF IInv
<1> QED BY Invariant, <1>1, PTL
=============================================================================
