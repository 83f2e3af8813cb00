------------------------------ MODULE SocketIO ------------------------------
(* The transfer methods of a connected peel::Socket (Socket.cpp): Receive    *)
(* with a length and into a vector, ReceiveToToken, ReceiveRaw, Send and     *)
(* PutFile, over a TCP connection whose recv() and send() may move fewer     *)
(* bytes than asked, block, or fail.                                         *)
(*                                                                           *)
(* A byte is an element of Bytes; the file PutFile reads holds the bytes     *)
(* 1..fileLen, each its own position.  One step is one system call together  *)
(* with what the method does up to the next one.                             *)
EXTENDS Integers, Sequences, SequencesExt

CONSTANTS
    Bytes, Token,   \* what travels; the token ReceiveToToken looks for
    MaxStream,      \* bound on the bytes the peer sends
    MaxLen,         \* bound on the caller's buffer
    MaxFile,        \* bound on the file PutFile reads
    BufSize,        \* PutFile's buffer, 4096 in the code
    RECEIVE_BUFF_SIZE,  \* Receive(vector)'s own buffer, 1024 in the code
    MaxCalls        \* bound on the calls made on the socket

ASSUME TokenAssumption == Token \in Bytes
ASSUME BoundsAssumption ==
    /\ MaxStream \in Nat /\ MaxFile \in Nat /\ MaxCalls \in Nat
    /\ MaxLen \in Nat \ {0} /\ BufSize \in Nat \ {0}
ASSUME ReceiveBuffAssumption == RECEIVE_BUFF_SIZE \in Nat \ {0, 1}

VARIABLES
    blocking,   \* the mode SetBlocking or Listen gave the descriptor
    stream,     \* the bytes the peer sends
    arrived,    \* how many of them have arrived
    fin,        \* "open", or how the peer's side ended
    taken,      \* how many of them recv() has returned
    fileLen,    \* length of the file PutFile opens, -1 if it cannot be opened
    wire,       \* file positions send() has accepted
    call,       \* the method running or last run
    result,     \* "running", "ok" or "false" (returned), the exception thrown,
                \* or "crash", one outcome of a write past the buffer's end
    calls,      \* calls made
    len,        \* the buffer's length, the vector's size, or PutFile's offset
    count,      \* Receive: count; ReceiveToToken: ptr - data; PutFile: file position
    recd,       \* the variable recv()'s result is stored to
    c,          \* ReceiveToToken's char
    mem,        \* what the method wrote to the caller's buffer, by position
    base        \* history: "taken" when the call began

peerVars == <<stream, arrived, fin>>
vars == <<blocking, peerVars, taken, fileLen, wire, call, result, calls, len,
          count, recd, c, mem, base>>

Available == arrived - taken

Init ==
    /\ blocking \in BOOLEAN
    /\ stream \in BoundedSeq(Bytes, MaxStream)
    /\ arrived = 0
    /\ fin = "open"
    /\ taken = 0
    /\ fileLen \in -1..MaxFile
    /\ wire = <<>>
    /\ call = "none"
    /\ result = "ok"
    /\ calls = 0
    /\ len = 0
    /\ count = 0
    /\ recd = 0
    /\ c = Token
    /\ mem = <<>>
    /\ base = 0

-----------------------------------------------------------------------------
(* The peer and the network *)

Deliver ==
    /\ fin = "open"
    /\ \E n \in (arrived + 1)..Len(stream) : arrived' = n
    /\ UNCHANGED <<blocking, stream, fin, taken, fileLen, wire, call, result, calls,
                   len, count, recd, c, mem, base>>

\* The peer closes after its last byte, or the connection breaks.
End ==
    /\ fin = "open"
    /\ \/ arrived = Len(stream) /\ fin' = "closed"
       \/ fin' = "broken"
    /\ UNCHANGED <<blocking, stream, arrived, taken, fileLen, wire, call, result,
                   calls, len, count, recd, c, mem, base>>

-----------------------------------------------------------------------------
(* The methods *)

Enter(method, n) ==
    /\ result \notin {"running", "crash"}
    /\ calls < MaxCalls
    /\ call' = method
    /\ len' = n
    /\ calls' = calls + 1
    /\ count' = IF method = "PutFile" THEN n ELSE 0
    /\ recd' = 0
    /\ mem' = <<>>
    /\ base' = taken
    /\ wire' = <<>>
    /\ UNCHANGED <<peerVars, taken, fileLen, c>>

Call(method, n) == Enter(method, n) /\ result' = "running" /\ UNCHANGED blocking

\* ReceiveRaw makes the socket non-blocking for good, once its file is created.
CallRaw(n) ==
    /\ Enter("ReceiveRaw", n)
    /\ \/ result' = "running" /\ blocking' = FALSE
       \/ result' = "error" /\ UNCHANGED blocking

\* mem after the bytes "new" were stored behind position "at".
Store(at, new) ==
    [i \in DOMAIN mem \union (at + 1)..(at + Len(new)) |->
        IF i > at /\ i <= at + Len(new) THEN new[i - at] ELSE mem[i]]

\* recv() returns n of the bytes that have arrived.
Recv(n) ==
    /\ result = "running"
    /\ n \in 1..Available
    /\ taken' = taken + n

\* recv() fails with SOCKET_WOULDBLOCK.
WouldBlock == result = "running" /\ ~blocking /\ Available = 0 /\ fin = "open"

\* Does not take 0 for the end of the connection.
FaultyThrow ==
    /\ result = "running"
    /\ call \in {"Receive", "ReceiveToToken"}
    /\ fin = "broken"
    /\ result' = "error"
    /\ UNCHANGED <<blocking, peerVars, taken, fileLen, wire, call, calls, len, count,
                   recd, c, mem, base>>

\* recv() returns 0 or another error: Receive throws a SocketException, which
\* passes through the methods that call it.
Throw ==
    /\ result = "running"
    /\ call \in {"Receive", "ReceiveToToken", "ReceiveVector", "ReceiveRaw"}
    /\ \/ fin = "closed" /\ Available = 0 /\ result' = "closed"
       \/ fin = "broken" /\ result' = "error"
    /\ UNCHANGED <<blocking, peerVars, taken, fileLen, wire, call, calls, len, count,
                   recd, c, mem, base>>

\* A caller that offers recv() its whole buffer every time.
FaultyRoom == len

\* What Receive(void*, int) offers recv() at buf + count.
Room == len - count

\* Stores every chunk at the start of the buffer.
FaultyReceiveSome ==
    /\ call = "Receive"
    /\ \E n \in 1..Room :
          /\ Recv(n)
          /\ recd' = n
          /\ mem' = Store(0, SubSeq(stream, taken + 1, taken + n))
          /\ count' = count + n
    /\ result' = IF count' >= len THEN "ok" ELSE "running"
    /\ UNCHANGED <<blocking, peerVars, fileLen, wire, call, calls, len, c, base>>

ReceiveSome ==
    /\ call = "Receive"
    /\ \E n \in 1..Room :
          /\ Recv(n)
          /\ recd' = n
          /\ mem' = Store(count, SubSeq(stream, taken + 1, taken + n))
          /\ count' = count + n
    /\ result' = IF count' >= len THEN "ok" ELSE "running"
    /\ UNCHANGED <<blocking, peerVars, fileLen, wire, call, calls, len, c, base>>

\* Receive(buf, len, recd) returns without setting *recd, and the loop adds
\* the value the previous chunk left there.
ReceiveNone ==
    /\ call = "Receive"
    /\ WouldBlock
    /\ count' = count + recd
    /\ result' = IF count' >= len THEN "ok" ELSE "running"
    /\ UNCHANGED <<blocking, peerVars, taken, fileLen, wire, call, calls, len, recd,
                   c, mem, base>>

\* Returns what fits instead of throwing.
FaultyKeep(b) ==
    /\ mem' = Store(count, <<b>>)
    /\ count' = count + 1
    /\ result' = IF b = Token \/ count' = len THEN "ok" ELSE "running"

\* ReceiveToToken stores a character, then looks for overflow and the token.
Keep(b) ==
    /\ mem' = Store(count, <<b>>)
    /\ count' = count + 1
    /\ result' = IF count' = len THEN "overflow" ELSE IF b = Token THEN "ok" ELSE "running"

TokenByte ==
    /\ call = "ReceiveToToken"
    /\ Recv(1)
    /\ c' = stream[taken + 1]
    /\ recd' = 1
    /\ Keep(c')
    /\ UNCHANGED <<blocking, peerVars, fileLen, wire, call, calls, len, base>>

\* After SOCKET_WOULDBLOCK bytesRecv still holds the last count: c is stored again.
TokenNone ==
    /\ call = "ReceiveToToken"
    /\ WouldBlock
    /\ IF recd > 0 THEN Keep(c) ELSE UNCHANGED <<mem, count, result>>
    /\ UNCHANGED <<blocking, peerVars, taken, fileLen, wire, call, calls, len, recd,
                   c, base>>

\* Receive(vector): each chunk is copied to the beginning of the vector, whatever
\* its size.  What follows a write past its end is undefined.
VectorChunk ==
    /\ call = "ReceiveVector"
    /\ \E n \in 1..(RECEIVE_BUFF_SIZE - 1) :
          /\ Recv(n)
          /\ recd' = n
          /\ mem' = Store(0, SubSeq(stream, taken + 1, taken + n))
          /\ result' \in {"running"} \union (IF n > len THEN {"crash"} ELSE {})
    /\ UNCHANGED <<blocking, peerVars, fileLen, wire, call, calls, len, count, c, base>>

\* ReceiveRaw: whatever has arrived, beyond the file's end too, is written to
\* the file.  A write of all of it is taken for a failure, a short one is not.
RawChunk ==
    /\ call = "ReceiveRaw"
    /\ \E n \in 1..Available : \E written \in 0..n :
          /\ Recv(n)
          /\ mem' = Store(count, SubSeq(stream, taken + 1, taken + written))
          /\ count' = IF written = n THEN count ELSE count + written
          /\ result' = IF written = n \/ count' > len THEN "error"
                       ELSE IF count' = len THEN "ok" ELSE "running"
    /\ UNCHANGED <<blocking, peerVars, fileLen, wire, call, calls, len, recd, c, base>>

\* TIMEOUT seconds are over: Receive(vector) returns whether the vector has a
\* size, ReceiveRaw throws.
Timeout ==
    /\ result = "running"
    /\ \/ call = "ReceiveVector" /\ (blocking => recd > 0)
          /\ result' = IF len > 0 THEN "ok" ELSE "false"
       \/ call = "ReceiveRaw" /\ result' = "timeout"
    /\ UNCHANGED <<blocking, peerVars, taken, fileLen, wire, call, calls, len, count,
                   recd, c, mem, base>>

\* What fread() puts in PutFile's buffer, and the end of the file.
Chunk == {i \in 1..fileLen : i > count /\ i <= count + BufSize}
ChunkEnd == IF count + BufSize < fileLen THEN count + BufSize ELSE fileLen

\* Send() accepts that send() took less than it was given.
FaultyPutChunk ==
    /\ call = "PutFile" /\ result = "running"
    /\ Chunk # {}
    /\ \E n \in 1..(ChunkEnd - count) : wire' = wire \o [i \in 1..n |-> count + i]
    /\ count' = ChunkEnd
    /\ UNCHANGED <<blocking, peerVars, taken, fileLen, call, result, calls, len, recd,
                   c, mem, base>>

\* One turn of PutFile's loop: read a chunk, Send it.  Send throws when send()
\* fails or takes only part, and returns when the socket would block.
PutChunk ==
    /\ call = "PutFile" /\ result = "running"
    /\ Chunk # {}
    /\ \/ /\ wire' = wire \o [i \in 1..(ChunkEnd - count) |-> count + i]
          /\ UNCHANGED result
       \/ /\ \E n \in 0..(ChunkEnd - count - 1) :
                wire' = wire \o [i \in 1..n |-> count + i]
          /\ result' = "error"
       \/ ~blocking /\ UNCHANGED <<wire, result>>
    /\ count' = ChunkEnd
    /\ UNCHANGED <<blocking, peerVars, taken, fileLen, call, calls, len, recd, c,
                   mem, base>>

\* The end of the file, or a file that could not be opened.
PutEnd ==
    /\ call = "PutFile" /\ result = "running"
    /\ Chunk = {}
    /\ result' = IF fileLen < 0 THEN "false" ELSE "ok"
    /\ UNCHANGED <<blocking, peerVars, taken, fileLen, wire, call, calls, len, count,
                   recd, c, mem, base>>

-----------------------------------------------------------------------------
Method ==
    \/ ReceiveSome \/ ReceiveNone \/ TokenByte \/ TokenNone \/ VectorChunk \/ RawChunk
    \/ Timeout \/ Throw \/ PutChunk \/ PutEnd

Next ==
    \/ Deliver
    \/ End
    \/ \E n \in 1..MaxLen :
          Call("Receive", n) \/ Call("ReceiveToToken", n) \/ CallRaw(n)
    \/ \E n \in 0..MaxLen : Call("ReceiveVector", n)
    \/ \E n \in 0..MaxFile : Call("PutFile", n)
    \/ Method

Spec == Init /\ [][Next]_vars

FairSpec == Spec /\ WF_vars(Method)

-----------------------------------------------------------------------------
(* Properties *)

\* Receive and ReceiveToToken do not write outside the caller's buffer, although
\* in non-blocking mode count runs ahead of what was received (Socket.cpp:662-666)
\* and ReceiveToToken looks for the end after it has stored (790-792).  Receive
\* into a vector does not if the vector is as large as what one recv() may give;
\* a smaller one it writes past the end of (761-765).
InBounds ==
    /\ call \in {"Receive", "ReceiveToToken"} => DOMAIN mem \subseteq 1..len
    /\ call = "ReceiveVector" /\ len >= RECEIVE_BUFF_SIZE - 1 => DOMAIN mem \subseteq 1..len

\* On a blocking socket a method that returns has stored exactly the bytes it
\* took from the connection, none lost, doubled or reordered, however recv()
\* cut them: len of them for Receive, up to the token for ReceiveToToken.
ReceivedIsSent ==
    blocking /\ result = "ok" /\ call \in {"Receive", "ReceiveToToken"} =>
        /\ mem = SubSeq(stream, base + 1, taken)
        /\ call = "Receive" => taken - base = len

\* In both modes ReceiveToToken returns at the first token and counts it.
TokenIsLast ==
    result = "ok" /\ call = "ReceiveToToken" =>
        \A i \in 1..count : mem[i] = Token <=> i = count

\* "Put a file directly on the socket ... from offset value to end of file"
\* (Socket.h:181-182), on a blocking socket.
PutWhole ==
    blocking /\ result = "ok" /\ call = "PutFile" =>
        wire = [i \in 1..(fileLen - len) |-> len + i]

\* A receiving method returns or throws once the connection has ended.
Returns == (fin # "open") ~> (result # "running")
=============================================================================
