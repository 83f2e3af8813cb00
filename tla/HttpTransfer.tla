---------------------------- MODULE HttpTransfer ----------------------------
(* The static functions of HttpSocket that carry a whole exchange on a local *)
(* HttpSocket (HttpSocket.cpp:54-67, 95-179), SendGet and SendFile with      *)
(* SendFileForm, among other threads that use Socket objects as they like    *)
(* (SocketHandle), or, in other runs of the program, the functions over      *)
(* WinInet, which share nothing with them.                                   *)
(*                                                                           *)
(* Lengths are in units: the parts before and after the file count one each, *)
(* the 2048 bytes of SendFileForm's buffer one.                              *)
EXTENDS SocketHandle

CONSTANTS
    MaxFile,    \* bound on the file that is sent
    Word,       \* a DWORD's and a long's, see WinInet
    SizeT,      \* a size_t's, 2^32 or 2^64
    MaxReply

ASSUME LengthAssumption == MaxFile \in Nat
ASSUME WordAssumption == Word \in Nat /\ Word > 3 /\ SizeT \in Nat /\ SizeT >= Word
ASSUME ReplyAssumption == MaxReply \in Nat

VARIABLES
    api,        \* "sockets" or "wininet", what the program uses
    flow,       \* the static function each object is a local of, or "none"
    step,       \* its control point
    announced,  \* the Content-Length it has sent
    length,     \* length of the file when it was measured
    file,       \* length of the file as it is read, -1 if it cannot be opened
    sent,       \* units of the body that Send() has put on the wire
    function, at, outcome, handles, size, position, total, sum, written, replies

flowVars == <<flow, step, announced, length, file, sent>>
inetVars == <<function, at, outcome, handles, size, position, total, sum, written, replies>>
vars == <<api, handleVars, flowVars, inetVars>>

Inet == INSTANCE WinInet

Init ==
    /\ HandleInit
    /\ Inet!Init
    /\ api \in IF build = "windows" THEN {"sockets", "wininet"} ELSE {"sockets"}
    /\ flow = [o \in Objects |-> "none"]
    /\ step = [o \in Objects |-> "none"]
    /\ announced = [o \in Objects |-> 0]
    /\ length = [o \in Objects |-> 0]
    /\ file = [o \in Objects |-> 0]
    /\ sent = [o \in Objects |-> 0]

\* The function of object o is about to do l, with no exception under way.
At(o, l) == flow[o] # "none" /\ step[o] = l /\ pc[o] = "ready" /\ ~threw[o]

Step(o, l) == step' = [step EXCEPT ![o] = l]

\* A step that leaves the object alone, and one in which a method of it throws.
Go(o, l) == Step(o, l) /\ UNCHANGED handleVars
Raise(o) ==
    /\ Threw(o, TRUE)
    /\ UNCHANGED <<step, build, osVars, m_socket, pc, caller>>

body == <<announced, length, file, sent>>

-----------------------------------------------------------------------------
(* HttpSocket s; s.Connect(host, port) *)

BeginFlow(o, f) ==
    /\ flow[o] = "none"
    /\ build = "windows"
    /\ Construct(o)
    /\ flow' = [flow EXCEPT ![o] = f]
    /\ Step(o, "connect")
    /\ UNCHANGED body

ConnectFlow(o) ==
    /\ At(o, "connect")
    /\ CallConnect(o)
    /\ Step(o, IF flow[o] = "SendGet" THEN "send" ELSE "measure")
    /\ UNCHANGED <<flow, body>>

-----------------------------------------------------------------------------
(* SendGet *)

SendRequest(o) ==
    /\ At(o, "send")
    /\ Go(o, "shutdown") \/ Raise(o)
    /\ UNCHANGED <<flow, body>>

\* DisconnectSend()
ShutDown(o) ==
    /\ At(o, "shutdown")
    /\ Go(o, "reply") \/ Raise(o)
    /\ UNCHANGED <<flow, body>>

\* s.DestroySocket()
DestroyFlow(o) ==
    /\ At(o, "destroy")
    /\ CallDestroySocket(o)
    /\ Step(o, "return")
    /\ UNCHANGED <<flow, body>>

-----------------------------------------------------------------------------
(* SendFileForm *)

\* The file as File::fileSize(filename) finds it; one it cannot open is as an
\* empty one to it.
Measure(o) ==
    /\ At(o, "measure")
    /\ \E n \in 0..MaxFile : length' = [length EXCEPT ![o] = n]
    /\ Go(o, "open")
    /\ UNCHANGED <<flow, announced, file, sent>>

\* File::fileSize() of n units: a DWORD returned as a long of the same width,
\* negative from half of Word on, and 0 for what no DWORD but
\* INVALID_FILE_SIZE holds.
fileSize(n) ==
    CASE n >= Word - 1 -> 0
      [] n < Word - 1 /\ 2 * n >= Word -> n - Word
      [] OTHER -> n

\* A length without what follows the file.
FaultyAnnounce(o) == (1 + fileSize(length[o])) % SizeT

\* message + fileSize + message_end, the long extended to a size_t.
Announce(o) == (2 + fileSize(length[o])) % SizeT

\* pf.open("rb"): 0 is returned at once if it fails.  From here on the file
\* is not written to, but it may have been since it was measured.
OpenFlow(o) ==
    /\ At(o, "open")
    /\ \E n \in -1..MaxFile :
          /\ file' = [file EXCEPT ![o] = n]
          /\ Go(o, IF n = -1 THEN "reply" ELSE "head")
    /\ announced' = [announced EXCEPT ![o] = IF file'[o] = -1 THEN 0 ELSE Announce(o)]
    /\ sent' = [sent EXCEPT ![o] = 0]
    /\ UNCHANGED <<flow, length>>

\* Send() of a unit, which throws if not all of it is taken.
SendUnit(o, l) ==
    /\ \/ sent' = [sent EXCEPT ![o] = @ + 1] /\ Go(o, l)
       \/ Raise(o) /\ UNCHANGED sent
    /\ UNCHANGED <<flow, announced, length, file>>

SendHead(o) == At(o, "head") /\ SendUnit(o, "body")

\* The loop over pf.read() and Send(), and the end of the file.
SendBody(o) == At(o, "body") /\ sent[o] <= file[o] /\ SendUnit(o, "body")

SendEnd(o) == At(o, "body") /\ sent[o] > file[o] /\ SendUnit(o, "reply")

-----------------------------------------------------------------------------
(* The reply and the end *)

\* ReceiveHttp() if the caller wants the data; SendFile catches what it throws
\* and returns 0.
Reply(o) ==
    /\ At(o, "reply")
    /\ \/ Go(o, IF flow[o] = "SendGet" THEN "destroy" ELSE "disconnect")
       \/ flow[o] = "SendGet" /\ Raise(o)
       \/ flow[o] = "SendFile" /\ Go(o, "return")
    /\ UNCHANGED <<flow, body>>

\* Disconnect() of SendFile
DisconnectFlow(o) ==
    /\ At(o, "disconnect")
    /\ Go(o, "return") \/ Raise(o)
    /\ UNCHANGED <<flow, body>>

\* Returning, or unwinding after an exception, destroys s.
Leave(o) ==
    /\ flow[o] # "none" /\ pc[o] = "ready"
    /\ threw[o] \/ step[o] = "return"
    /\ Destruct(o)
    /\ Step(o, "gone")
    /\ UNCHANGED <<flow, body>>

\* s is destroyed, or its constructor threw.
EndFlow(o) ==
    /\ flow[o] # "none" /\ pc[o] = "none"
    /\ flow' = [flow EXCEPT ![o] = "none"]
    /\ Step(o, "none")
    /\ announced' = [announced EXCEPT ![o] = 0]
    /\ length' = [length EXCEPT ![o] = 0]
    /\ file' = [file EXCEPT ![o] = 0]
    /\ sent' = [sent EXCEPT ![o] = 0]
    /\ UNCHANGED handleVars

-----------------------------------------------------------------------------
FlowStep(o) ==
    \/ ConnectFlow(o) \/ SendRequest(o) \/ ShutDown(o) \/ DestroyFlow(o)
    \/ Measure(o) \/ OpenFlow(o) \/ SendHead(o) \/ SendBody(o) \/ SendEnd(o)
    \/ Reply(o) \/ DisconnectFlow(o) \/ Leave(o) \/ EndFlow(o)

\* A thread that calls the methods of its object as it likes.
Free(o) == flow[o] = "none" /\ (Method(o) \/ \E p \in Objects : flow[p] = "none" /\ Accept(o, p))

Next ==
    \/ /\ api = "sockets"
       /\ \E o \in Objects :
             \/ BeginFlow(o, "SendGet") \/ BeginFlow(o, "SendFile") \/ FlowStep(o)
             \/ (Free(o) \/ Inside(o)) /\ UNCHANGED flowVars
       /\ UNCHANGED <<api, inetVars>>
    \/ /\ api = "wininet"
       /\ (\E f \in Inet!Functions : Inet!Begin(f)) \/ Inet!Step
       /\ UNCHANGED <<api, handleVars, flowVars>>

Spec == Init /\ [][Next]_vars

-----------------------------------------------------------------------------
(* Properties *)

\* When SendFile waits for the reply, and when it returns without an
\* exception, the request on the wire is as long as its Content-Length said
\* (HttpSocket.cpp:134-171), else the server would wait for the rest; or there
\* is no request since the file could not be opened.  Only a file that changed
\* since it was measured, or one of 2 GB or more, which fileSize() gives as a
\* negative number or as 0, breaks this.
\* The same of SendFileFormInet, whose system call counts.
RequestWhole ==
    /\ \A o \in Objects :
          step[o] \in {"reply", "disconnect", "return"} /\ ~threw[o]
             /\ flow[o] = "SendFile" /\ file[o] \in {-1, length[o]} /\ 2 * length[o] < Word =>
                sent[o] = announced[o]
    /\ Inet!AnnouncedIsWritten

\* No open socket or WinInet handle without an owner that will close it, once
\* the methods and functions that opened it have returned or thrown, for all
\* the ways in which they can.
NothingLost == SocketsHeld /\ Inet!HandlesClosed
=============================================================================
