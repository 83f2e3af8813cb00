-------------------------- MODULE HttpSocketProofs --------------------------
(* Theorems about HttpSocket, which contains SocketIO, for any bytes, any    *)
(* stream, and all bounds: what the receiving methods store is what was      *)
(* sent, within the caller's buffer, and a response is cut where it should   *)
(* be.                                                                       *)
(*                                                                           *)
(* The inductive invariant says for each method how its buffer, its counter  *)
(* and the bytes taken from the connection belong together while its loop    *)
(* runs; it says nothing of the other methods.                               *)
EXTENDS HttpSocket, SequenceTheorems, TLAPS

USE TokenAssumption, BoundsAssumption

-----------------------------------------------------------------------------
(* Sequences *)

\* A segment of a sequence: its length and its elements.
LEMMA Segment ==
    ASSUME NEW S, NEW s \in Seq(S), NEW a \in Nat, NEW b \in Nat, a <= b, b <= Len(s)
    PROVE  /\ SubSeq(s, a + 1, b) \in Seq(S)
           /\ Len(SubSeq(s, a + 1, b)) = b - a
           /\ DOMAIN SubSeq(s, a + 1, b) = 1..(b - a)
           /\ \A i \in 1..(b - a) : SubSeq(s, a + 1, b)[i] = s[a + i]
<1>1. \A i \in (a + 1)..b : s[i] \in S
  BY LenProperties
<1> QED BY <1>1, SubSeqProperties, LenProperties

\* A segment that ends one later has one more element.
LEMMA SegmentAppend ==
    ASSUME NEW S, NEW s \in Seq(S), NEW a \in Nat, NEW b \in Nat, a <= b, b < Len(s)
    PROVE  Append(SubSeq(s, a + 1, b), s[b + 1]) = SubSeq(s, a + 1, b + 1)
<1>1. a + 1 \in 1..(Len(s) + 1) /\ b + 1 \in (a + 1)..Len(s)
  BY LenProperties
<1> QED BY <1>1, SubSeqRecursiveSecond

\* Two sequences that agree on a common domain are one, also where one of them
\* was built as a function.
LEMMA SameSequence ==
    ASSUME NEW S, NEW s \in Seq(S), NEW n \in Nat, Len(s) = n,
           NEW f, f = [i \in 1..n |-> f[i]], \A i \in 1..n : f[i] = s[i]
    PROVE  f = s
<1>1. s = [i \in 1..n |-> s[i]]
  BY LenProperties
<1> QED BY <1>1

-----------------------------------------------------------------------------
(* The inductive invariant *)

\* What has arrived and what was taken, now and when the call began.
StreamInv ==
    /\ stream \in Seq(Bytes) /\ arrived \in Nat /\ taken \in Nat /\ base \in Nat
    /\ base <= taken /\ taken <= arrived /\ arrived <= Len(stream)
    /\ fin = "closed" => arrived = Len(stream)

CounterTypes ==
    /\ len \in Nat /\ count \in Nat /\ recd \in Nat /\ c \in Bytes
    /\ fileLen \in Int /\ fileLen >= -1

\* Receive: count is at most len; on a blocking socket it is what was taken.
ReceiveInv ==
    call = "Receive" =>
        /\ DOMAIN mem \subseteq 1..len
        /\ result = "running" => count < len
        /\ blocking /\ result \in {"running", "ok"} =>
              /\ mem = SubSeq(stream, base + 1, taken)
              /\ count = taken - base
              /\ count <= len /\ (result = "ok" => count = len)

\* ReceiveToToken: the loop goes on below len and before the token, and the
\* character it may store again is none.
TokenInv ==
    call = "ReceiveToToken" =>
        /\ DOMAIN mem = 1..count /\ count <= len
        /\ result = "running" =>
              /\ count < len
              /\ \A i \in 1..count : mem[i] # Token
              /\ recd > 0 => c # Token
        /\ result = "ok" => count > 0 /\ \A i \in 1..count : mem[i] = Token <=> i = count
        /\ blocking /\ result \in {"running", "ok"} =>
              mem = SubSeq(stream, base + 1, taken) /\ count = taken - base

\* Receive(vector): what one recv() may give, at the beginning of the vector.
VectorInv == call = "ReceiveVector" => DOMAIN mem \subseteq 1..(RECEIVE_BUFF_SIZE - 1)

\* PutFile: the wire has the file from the offset to the position.
PutInv ==
    call = "PutFile" /\ blocking /\ result \in {"running", "ok"} =>
        /\ count = len \/ (len < count /\ count <= fileLen)
        /\ wire = [i \in 1..(count - len) |-> len + i]
        /\ result = "ok" => fileLen <= count

SocketInv == StreamInv /\ CounterTypes /\ ReceiveInv /\ TokenInv /\ VectorInv /\ PutInv

HttpTypes == header \in Seq(Bytes) /\ data \in Seq(Bytes) /\ announced \in -1..MaxStream

\* ReceiveHttp: header and data are a cut of what was taken, behind the first
\* blank line, or where the connection ended; the body's loop goes on below the
\* announced length and ends at it, or at the end of the connection.
CutInv ==
    call = "ReceiveHttp" =>
        /\ header \o data = SubSeq(stream, base + 1, taken)
        /\ \A i \in 2..(Len(header) - 1) : header[i] # Token
        /\ reading = "header" =>
              /\ data = <<>>
              /\ result = "running" => announced = -1 /\ \A i \in 2..Len(header) : header[i] # Token
        /\ reading # "header" =>
              \/ Len(header) > 1 /\ header[Len(header)] = Token
              \/ data = <<>> /\ fin = "closed" /\ taken = arrived

BodyInv ==
    call = "ReceiveHttp" /\ announced > 0 =>
        /\ Len(data) <= announced
        /\ result = "running" => Len(data) < announced
        /\ result = "ok" /\ reading = "body" =>
              \/ Len(data) = announced
              \/ fin = "broken"
              \/ Len(stream) < base + Len(header) + announced

IInv == SocketInv /\ HttpTypes /\ CutInv /\ BodyInv

-----------------------------------------------------------------------------
(* The steps *)

\* The case distinction of the proofs below.
Cases ==
    \/ (Deliver \/ End) /\ UNCHANGED httpVars
    \/ \E method \in {"Receive", "ReceiveToToken", "ReceiveVector", "ReceiveRaw", "PutFile"},
          n \in Nat :
          /\ Enter(method, n) /\ (method \in {"Receive", "ReceiveToToken"} => n > 0)
          /\ result' \in {"running", "error"}
          /\ UNCHANGED httpVars
    \/ ReceiveSome /\ UNCHANGED httpVars
    \/ ReceiveNone /\ UNCHANGED httpVars
    \/ TokenByte /\ UNCHANGED httpVars
    \/ TokenNone /\ UNCHANGED httpVars
    \/ (VectorChunk \/ RawChunk) /\ UNCHANGED httpVars
    \/ (Timeout \/ Throw) /\ UNCHANGED httpVars
    \/ PutChunk /\ UNCHANGED httpVars
    \/ PutEnd /\ UNCHANGED httpVars
    \/ \E method \in {"ReceiveHeader", "ReceiveHttp"} : CallHttp(method)
    \/ HttpHeaderByte
    \/ HttpHeaderEof
    \/ HttpHeaderError \/ HttpTimeout
    \/ HttpBodyByte
    \/ HttpBodyEnd
    \/ HeaderByte
    \/ HeaderStop
    \/ UNCHANGED allVars

LEMMA StepCases == [HttpNext]_allVars => Cases
<1> SUFFICES ASSUME [HttpNext]_allVars PROVE Cases
  OBVIOUS
<1>1. CASE Next /\ UNCHANGED httpVars
  <2>1. ASSUME NEW n \in 1..MaxLen,
               Call("Receive", n) \/ Call("ReceiveToToken", n) \/ CallRaw(n)
        PROVE  Cases
    BY <1>1, <2>1 DEF Call, CallRaw, Cases
  <2>2. ASSUME NEW n \in Nat, Call("PutFile", n) \/ Call("ReceiveVector", n)
        PROVE  Cases
    BY <1>1, <2>2 DEF Call, Cases
  <2>3. CASE Method
    BY <1>1, <2>3 DEF Method, Cases
  <2>4. CASE Deliver \/ End
    BY <1>1, <2>4 DEF Cases
  <2> QED BY <1>1, <2>1, <2>2, <2>3, <2>4 DEF Next
<1>2. CASE HttpMethod
  BY <1>2 DEF HttpMethod, Cases
<1> QED BY <1>1, <1>2 DEF HttpNext, Cases

\* A step in the middle of a call of another method, or outside of calls, that
\* takes nothing: it may let bytes arrive or end the call.
Still ==
    /\ UNCHANGED <<stream, taken, base>>
    /\ arrived' \in Nat /\ arrived <= arrived' /\ arrived' <= Len(stream)
    /\ fin' # fin => fin = "open" /\ (fin' = "closed" => arrived' = Len(stream))
    /\ arrived' # arrived => fin = "open" /\ fin' = "open"

\* A step that takes n bytes which have arrived.
Takes(n) ==
    /\ n \in 1..(arrived - taken)
    /\ taken' = taken + n
    /\ UNCHANGED <<peerVars, base>>

Begins == base' = taken /\ UNCHANGED <<peerVars, taken>>

\* What a step does to the connection.
LEMMA StreamSteps == StreamInv /\ Cases => Still \/ Begins \/ \E n \in Nat : Takes(n)
<1> SUFFICES ASSUME StreamInv, Cases PROVE Still \/ Begins \/ \E n \in Nat : Takes(n)
  OBVIOUS
<1> USE DEF StreamInv, Still, Begins, Takes, peerVars
<1>1. CASE Deliver \/ End
  BY <1>1 DEF Deliver, End
<1>2. ASSUME NEW method, NEW n, Enter(method, n)
      PROVE  Begins
  BY <1>2 DEF Enter
<1>3. ASSUME NEW method, CallHttp(method)
      PROVE  Begins
  BY <1>3 DEF CallHttp, Call, Enter
<1>4. CASE ReceiveSome \/ TokenByte \/ VectorChunk \/ RawChunk
  <2>1. PICK n \in Int : Recv(n)
    BY <1>4 DEF ReceiveSome, TokenByte, VectorChunk, RawChunk
  <2>2. UNCHANGED <<peerVars, base>>
    BY <1>4 DEF ReceiveSome, TokenByte, VectorChunk, RawChunk
  <2>3. n \in Nat /\ Takes(n)
    BY <2>1, <2>2 DEF Recv, Available
  <2> QED BY <2>3
<1>5. CASE HttpHeaderByte \/ HttpBodyByte \/ HeaderByte
  BY <1>5 DEF HttpHeaderByte, HttpBodyByte, HeaderByte, Recv, Available, socketRest
<1>6. ReceiveNone \/ TokenNone \/ Timeout \/ Throw \/ PutChunk \/ PutEnd
        => UNCHANGED <<peerVars, taken, base>>
  BY DEF ReceiveNone, TokenNone, Timeout, Throw, PutChunk, PutEnd
<1>7. HttpHeaderEof \/ HttpHeaderError \/ HttpTimeout \/ HttpBodyEnd \/ HeaderStop
        \/ UNCHANGED allVars => UNCHANGED <<peerVars, taken, base>>
  BY DEF HttpHeaderEof, HttpHeaderError, HttpTimeout, HttpBodyEnd, HeaderStop, socketRest,
         allVars, vars
<1> QED BY <1>1, <1>2, <1>3, <1>4, <1>5, <1>6, <1>7 DEF Cases

LEMMA StreamStep == StreamInv /\ Cases => StreamInv'
<1> SUFFICES ASSUME StreamInv, Cases PROVE StreamInv'
  OBVIOUS
<1>1. Len(stream) \in Nat
  BY LenProperties DEF StreamInv
<1>2. CASE Still BY <1>1, <1>2 DEF Still, StreamInv
<1>3. CASE Begins BY <1>3 DEF Begins, StreamInv, peerVars
<1>4. ASSUME NEW n \in Nat, Takes(n) PROVE StreamInv'
  BY <1>1, <1>4 DEF Takes, StreamInv, peerVars
<1> QED BY <1>2, <1>3, <1>4, StreamSteps

LEMMA CounterStep == StreamInv /\ CounterTypes /\ Cases => CounterTypes'
<1> SUFFICES ASSUME StreamInv, CounterTypes, Cases PROVE CounterTypes'
  OBVIOUS
<1> USE DEF CounterTypes
<1>1. ASSUME NEW method, NEW n \in Nat, Enter(method, n)
      PROVE  CounterTypes'
  BY <1>1 DEF Enter
<1>2. ASSUME NEW method, CallHttp(method)
      PROVE  CounterTypes'
  BY <1>2 DEF CallHttp, Call, Enter
<1>3. CASE ReceiveSome \/ ReceiveNone
  BY <1>3 DEF ReceiveSome, ReceiveNone
<1>4. CASE TokenByte
  <2>1. stream[taken + 1] \in Bytes
    BY <1>4, LenProperties DEF TokenByte, Recv, Available, StreamInv
  <2> QED BY <1>4, <2>1 DEF TokenByte, Keep
<1>5. CASE TokenNone
  BY <1>5 DEF TokenNone, Keep
<1>6. CASE VectorChunk
  BY <1>6 DEF VectorChunk
<1>7. CASE RawChunk
  BY <1>7 DEF RawChunk
<1>8. CASE PutChunk
  <2>1. ChunkEnd \in Nat
    BY <1>8 DEF PutChunk, Chunk, ChunkEnd
  <2> QED BY <1>8, <2>1 DEF PutChunk
<1>9. Deliver \/ End \/ Timeout \/ Throw \/ PutEnd => UNCHANGED <<len, count, recd, c, fileLen>>
  BY DEF Deliver, End, Timeout, Throw, PutEnd
<1>10. HttpHeaderByte \/ HttpHeaderEof \/ HttpHeaderError \/ HttpTimeout \/ HttpBodyByte
         \/ HttpBodyEnd \/ HeaderByte \/ HeaderStop \/ UNCHANGED allVars
         => UNCHANGED <<len, count, recd, c, fileLen>>
  BY DEF HttpHeaderByte, HttpHeaderEof, HttpHeaderError, HttpTimeout, HttpBodyByte,
         HttpBodyEnd, HeaderByte, HeaderStop, socketRest, allVars, vars
<1> QED BY <1>1, <1>2, <1>3, <1>4, <1>5, <1>6, <1>7, <1>8, <1>9, <1>10 DEF Cases

-----------------------------------------------------------------------------
(* The receiving methods *)

\* Bytes stored behind what was received so far continue the segment.
LEMMA StoreSegment ==
    ASSUME StreamInv, mem = SubSeq(stream, base + 1, taken),
           NEW n \in Nat, taken + n <= Len(stream)
    PROVE  Store(taken - base, SubSeq(stream, taken + 1, taken + n))
             = SubSeq(stream, base + 1, taken + n)
<1> DEFINE k == taken - base
           new == SubSeq(stream, taken + 1, taken + n)
           all == SubSeq(stream, base + 1, taken + n)
           m == Store(k, new)
<1>0. k \in Nat /\ base + k = taken
  BY DEF StreamInv
<1>1. DOMAIN mem = 1..k /\ \A i \in 1..k : mem[i] = stream[base + i]
  BY Segment DEF StreamInv
<1>2. Len(new) = n /\ \A i \in 1..n : new[i] = stream[taken + i]
  <2>1. PICK end \in Nat : end = taken + n
    BY DEF StreamInv
  <2>2. stream \in Seq(Bytes) /\ taken \in Nat /\ taken <= end /\ end <= Len(stream)
    BY <2>1 DEF StreamInv
  <2>3. end - taken = n /\ new = SubSeq(stream, taken + 1, end)
    BY <2>1, <2>2
  <2> HIDE DEF new
  <2> QED BY <2>2, <2>3, Segment
<1>3. all \in Seq(Bytes) /\ Len(all) = k + n /\ \A i \in 1..(k + n) : all[i] = stream[base + i]
  BY Segment DEF StreamInv
<1> HIDE DEF k, new, all
<1>4. m = [i \in 1..(k + n) |-> IF i > k THEN new[i - k] ELSE mem[i]]
  <2>1. 1..k \union (k + 1)..(k + n) = 1..(k + n)
    BY <1>0
  <2>2. \A i \in 1..(k + n) : (i > k /\ i <= k + n) <=> i > k
    BY <1>0
  <2>3. m = [i \in DOMAIN mem \union (k + 1)..(k + n) |->
               IF i > k /\ i <= k + n THEN new[i - k] ELSE mem[i]]
    BY <1>2 DEF Store
  <2>4. m = [i \in 1..(k + n) |-> IF i > k /\ i <= k + n THEN new[i - k] ELSE mem[i]]
    BY <1>1, <2>1, <2>3
  <2> HIDE DEF m
  <2> QED BY <2>2, <2>4
<1> HIDE DEF m
<1>5. \A i \in 1..(k + n) : m[i] = all[i]
  <2> SUFFICES ASSUME NEW i \in 1..(k + n) PROVE m[i] = all[i]
    OBVIOUS
  <2>1. CASE i <= k
    <3>1. i \in 1..k /\ ~(i > k)
      BY <1>0, <2>1
    <3>2. m[i] = mem[i]
      BY <1>4, <3>1
    <3> QED BY <1>1, <1>3, <3>1, <3>2
  <2>2. CASE i > k
    <3>1. i - k \in 1..n /\ taken + (i - k) = base + i
      BY <1>0, <2>2 DEF StreamInv
    <3> QED BY <1>2, <1>3, <1>4, <2>2, <3>1
  <2> QED BY <1>0, <2>1, <2>2
<1>6. m = [i \in 1..(k + n) |-> m[i]]
  BY <1>4
<1>7. m = all
  BY <1>0, <1>3, <1>5, <1>6, SameSequence
<1> QED BY <1>7 DEF m, all, k, new

\* The domain after a store.
LEMMA StoreDomain ==
    ASSUME NEW at \in Nat, NEW new, Len(new) \in Nat
    PROVE  DOMAIN Store(at, new) = DOMAIN mem \union (at + 1)..(at + Len(new))
BY DEF Store

\* Steps that leave a call as it is, or end it with an exception.
Leaves ==
    /\ UNCHANGED <<blocking, stream, taken, fileLen, wire, call, len, count, recd, c, mem, base>>
    /\ result' = result \/ result' \in {"closed", "error", "timeout"}

Mine == {"Receive", "ReceiveToToken", "PutFile"}

\* Steps of a method that is none of these, which has its own invariant.
Others == call' \notin Mine

\* Which steps concern a call of Receive, ReceiveToToken or PutFile.
SocketCases ==
    \/ Leaves
    \/ Others
    \/ \E method \in Mine, n \in Nat :
          /\ Enter(method, n) /\ (method \in {"Receive", "ReceiveToToken"} => n > 0)
          /\ result' \in {"running", "error"}
    \/ ReceiveSome \/ ReceiveNone \/ TokenByte \/ TokenNone \/ PutChunk \/ PutEnd

LEMMA SocketSteps == Cases => SocketCases
<1> SUFFICES ASSUME Cases PROVE SocketCases
  OBVIOUS
<1> USE DEF Mine
<1>1. CASE Deliver \/ End \/ UNCHANGED allVars
  <2>1. Leaves
    BY <1>1 DEF Deliver, End, allVars, vars, Leaves, peerVars
  <2> QED BY <2>1 DEF SocketCases
<1>2. CASE Throw
  BY <1>2 DEF Throw, Leaves, SocketCases, peerVars
<1>3. ASSUME NEW method, NEW n \in Nat, Enter(method, n), result' \in {"running", "error"},
             method \in {"Receive", "ReceiveToToken"} => n > 0
      PROVE  SocketCases
  <2>1. CASE method \in Mine
    BY <1>3, <2>1 DEF SocketCases
  <2>2. CASE method \notin Mine
    BY <1>3, <2>2 DEF Enter, Others, SocketCases
  <2> QED BY <2>1, <2>2
<1>4. CASE VectorChunk \/ RawChunk \/ Timeout
  BY <1>4 DEF VectorChunk, RawChunk, Timeout, Others, SocketCases
<1>5. ASSUME NEW method \in {"ReceiveHeader", "ReceiveHttp"}, CallHttp(method)
      PROVE  SocketCases
  BY <1>5 DEF CallHttp, Call, Enter, Others, SocketCases
<1>6. CASE HttpHeaderByte \/ HttpHeaderEof \/ HttpHeaderError \/ HttpTimeout \/ HttpBodyByte
             \/ HttpBodyEnd \/ HeaderByte \/ HeaderStop
  <2>1. call' \in {"ReceiveHeader", "ReceiveHttp"}
    BY <1>6 DEF HttpHeaderByte, HttpHeaderEof, HttpHeaderError, HttpTimeout, HttpBodyByte,
                HttpBodyEnd, HeaderByte, HeaderStop, Running, socketRest
  <2> QED BY <2>1 DEF Others, SocketCases
<1> QED BY <1>1, <1>2, <1>3, <1>4, <1>5, <1>6 DEF Cases, SocketCases

\* Receive: what recv() returns continues the segment, and Room keeps it within
\* the buffer.
LEMMA ReceiveStep == SocketInv /\ Cases => ReceiveInv'
<1> SUFFICES ASSUME StreamInv, CounterTypes, ReceiveInv, SocketCases PROVE ReceiveInv'
  BY SocketSteps DEF SocketInv
<1> USE DEF ReceiveInv
<1>1. CASE Leaves
  BY <1>1 DEF Leaves
<1>2. CASE Others
  BY <1>2 DEF Others, Mine
<1>3. ASSUME NEW method \in Mine, NEW n \in Nat, Enter(method, n), method \in {"Receive", "ReceiveToToken"} => n > 0,
             result' \in {"running", "error"}
      PROVE  ReceiveInv'
  <2>1. mem' = <<>> /\ DOMAIN mem' = {}
    BY <1>3 DEF Enter
  <2>2. SubSeq(stream, taken + 1, taken) = <<>>
    BY Segment, EmptySeq DEF StreamInv
  <2> QED BY <1>3, <2>1, <2>2 DEF Enter, CounterTypes, StreamInv, peerVars
<1>4. CASE ReceiveSome
  <2>1. PICK n \in 1..Room :
           /\ Recv(n)
           /\ mem' = Store(count, SubSeq(stream, taken + 1, taken + n))
           /\ count' = count + n
    BY <1>4 DEF ReceiveSome
  <2>2. /\ call = "Receive" /\ UNCHANGED <<blocking, stream, len, base, call>>
        /\ result = "running" /\ result' = IF count' >= len THEN "ok" ELSE "running"
        /\ n \in Nat /\ taken + n <= Len(stream) /\ count + n <= len /\ taken' = taken + n
    BY <1>4, <2>1, LenProperties DEF ReceiveSome, Recv, Room, Available, peerVars, StreamInv,
                                    CounterTypes
  <2>3. Len(SubSeq(stream, taken + 1, taken + n)) = n
    BY <2>2, Segment DEF StreamInv
  <2>4. DOMAIN mem' = DOMAIN mem \union (count + 1)..(count + n)
    <3> DEFINE new == SubSeq(stream, taken + 1, taken + n)
    <3>1. Len(new) = n /\ mem' = Store(count, new) /\ count \in Nat
      BY <2>1, <2>3 DEF CounterTypes
    <3> HIDE DEF new
    <3> QED BY <2>2, <3>1, StoreDomain
  <2>5. DOMAIN mem' \subseteq 1..len
    BY <2>2, <2>4 DEF CounterTypes
  <2>6. ASSUME blocking
        PROVE  mem' = SubSeq(stream, base + 1, taken + n) /\ count = taken - base
    BY <2>1, <2>2, <2>6, StoreSegment
  <2> QED BY <2>1, <2>2, <2>5, <2>6 DEF CounterTypes, StreamInv
<1>5. CASE ReceiveNone
  BY <1>5 DEF ReceiveNone, WouldBlock, CounterTypes
<1>6. CASE TokenByte \/ TokenNone \/ PutChunk \/ PutEnd
  BY <1>6 DEF TokenByte, TokenNone, PutChunk, PutEnd
<1> QED BY <1>1, <1>2, <1>3, <1>4, <1>5, <1>6 DEF SocketCases

\* Keep: the character is stored at the next place.
LEMMA KeepStores ==
    ASSUME CounterTypes, NEW b, Keep(b), DOMAIN mem = 1..count
    PROVE  /\ DOMAIN mem' = 1..(count + 1)
           /\ \A i \in 1..count : mem'[i] = mem[i]
           /\ mem'[count + 1] = b
<1>1. mem' = Store(count, <<b>>) /\ count \in Nat
  BY DEF Keep, CounterTypes
<1>2. DOMAIN mem \union (count + 1)..(count + Len(<<b>>)) = 1..(count + 1)
  BY <1>1
<1>3. mem' = [i \in 1..(count + 1) |->
                 IF i > count /\ i <= count + 1 THEN <<b>>[i - count] ELSE mem[i]]
  BY <1>1, <1>2 DEF Store
<1> QED BY <1>1, <1>3

LEMMA TokenStep == SocketInv /\ Cases => TokenInv'
<1> SUFFICES ASSUME StreamInv, CounterTypes, TokenInv, SocketCases PROVE TokenInv'
  BY SocketSteps DEF SocketInv
<1> USE DEF TokenInv
<1>1. CASE Leaves
  BY <1>1 DEF Leaves
<1>2. CASE Others
  BY <1>2 DEF Others, Mine
<1>3. ASSUME NEW method \in Mine, NEW n \in Nat, Enter(method, n), method \in {"Receive", "ReceiveToToken"} => n > 0,
             result' \in {"running", "error"}
      PROVE  TokenInv'
  <2>1. mem' = <<>> /\ DOMAIN mem' = {}
    BY <1>3 DEF Enter
  <2>2. SubSeq(stream, taken + 1, taken) = <<>>
    BY Segment, EmptySeq DEF StreamInv
  <2>3. call' = "ReceiveToToken" => count' = 0 /\ recd' = 0 /\ len' > 0
    BY <1>3 DEF Enter
  <2> QED BY <1>3, <2>1, <2>2, <2>3 DEF Enter, CounterTypes, StreamInv, peerVars
<1>4. CASE TokenByte
  <2>1. /\ call = "ReceiveToToken" /\ result = "running" /\ Recv(1)
        /\ c' = stream[taken + 1] /\ Keep(c')
        /\ UNCHANGED <<blocking, stream, len, base, call>>
    BY <1>4 DEF TokenByte, Recv, peerVars
  <2>2. taken + 1 <= Len(stream) /\ taken' = taken + 1
    BY <2>1, LenProperties DEF Recv, Available, StreamInv
  <2>3. /\ DOMAIN mem' = 1..(count + 1)
        /\ \A i \in 1..count : mem'[i] = mem[i]
        /\ mem'[count + 1] = c'
    BY <2>1, KeepStores
  <2>4. ASSUME blocking
        PROVE  mem' = SubSeq(stream, base + 1, taken + 1) /\ count = taken - base
    <3>1. SubSeq(stream, taken + 1, taken + 1) = <<stream[taken + 1]>>
      <4>1. SubSeq(stream, taken + 1, taken) = <<>>
        BY Segment, EmptySeq DEF StreamInv
      <4>2. taken \in Nat /\ taken < Len(stream) /\ stream \in Seq(Bytes)
        BY <2>2, LenProperties DEF StreamInv
      <4>3. Append(<<>>, stream[taken + 1]) = SubSeq(stream, taken + 1, taken + 1)
        BY <4>1, <4>2, SegmentAppend
      <4>4. stream[taken + 1] \in Bytes
        BY <4>2, LenProperties
      <4>5. <<stream[taken + 1]>> \in Seq(Bytes)
        BY <4>4
      <4>6. <<>> \o <<stream[taken + 1]>> = <<stream[taken + 1]>>
        BY <4>5, ConcatEmptySeq
      <4>7. Append(<<>>, stream[taken + 1]) = <<>> \o <<stream[taken + 1]>>
        BY <4>4, EmptySeq, AppendIsConcat
      <4> QED BY <4>3, <4>6, <4>7
    <3> QED BY <2>1, <2>2, <2>4, <3>1, StoreSegment DEF Keep
  <2>5. count' = count + 1
          /\ result' = IF count' = len THEN "overflow" ELSE IF c' = Token THEN "ok" ELSE "running"
    BY <2>1 DEF Keep
  <2> QED BY <2>1, <2>2, <2>3, <2>4, <2>5 DEF CounterTypes, StreamInv
<1>5. CASE TokenNone
  <2>1. /\ call = "ReceiveToToken" /\ result = "running" /\ ~blocking
        /\ UNCHANGED <<blocking, len, call, recd, c>>
    BY <1>5 DEF TokenNone, WouldBlock
  <2>2. CASE recd > 0
    <3>1. Keep(c) /\ c # Token
      BY <1>5, <2>1, <2>2 DEF TokenNone
    <3>2. /\ DOMAIN mem' = 1..(count + 1)
          /\ \A i \in 1..count : mem'[i] = mem[i]
          /\ mem'[count + 1] = c
      BY <2>1, <3>1, KeepStores
    <3> QED BY <2>1, <3>1, <3>2 DEF Keep, CounterTypes
  <2>3. CASE ~(recd > 0)
    BY <1>5, <2>1, <2>3 DEF TokenNone
  <2> QED BY <2>2, <2>3
<1>6. CASE ReceiveSome \/ ReceiveNone \/ PutChunk \/ PutEnd
  BY <1>6 DEF ReceiveSome, ReceiveNone, PutChunk, PutEnd
<1> QED BY <1>1, <1>2, <1>3, <1>4, <1>5, <1>6 DEF SocketCases

\* A chunk of the file at the end of what is on the wire.
LEMMA WireAppend ==
    ASSUME NEW a \in Nat, NEW k \in Nat, NEW n \in Nat
    PROVE  [i \in 1..k |-> a + i] \o [i \in 1..n |-> (a + k) + i] = [i \in 1..(k + n) |-> a + i]
<1> DEFINE s == [i \in 1..k |-> a + i]
           t == [i \in 1..n |-> (a + k) + i]
           u == [i \in 1..(k + n) |-> a + i]
<1>1. s \in Seq(Nat) /\ Len(s) = k
  OBVIOUS
<1>2. t \in Seq(Nat) /\ Len(t) = n
  OBVIOUS
<1>3. u \in Seq(Nat) /\ Len(u) = k + n
  OBVIOUS
<1>4. \A i \in 1..(k + n) : (s \o t)[i] = u[i]
  <2> SUFFICES ASSUME NEW i \in 1..(k + n) PROVE (s \o t)[i] = u[i]
    OBVIOUS
  <2>1. (s \o t)[i] = IF i <= k THEN s[i] ELSE t[i - k]
    BY <1>1, <1>2, ConcatProperties
  <2>2. CASE i <= k
    BY <2>1, <2>2
  <2>3. CASE i > k
    BY <2>1, <2>3
  <2> QED BY <2>2, <2>3
<1>5. s \o t \in Seq(Nat) /\ Len(s \o t) = k + n
  BY <1>1, <1>2, ConcatProperties
<1> HIDE DEF s, t, u
<1>6. s \o t = u
  BY <1>3, <1>4, <1>5, SeqEqual
<1> QED BY <1>6 DEF s, t, u

\* PutFile: each turn continues what is on the wire, and the loop ends at the
\* end of the file, or at once if the offset is beyond it.
LEMMA PutStep == SocketInv /\ Cases => PutInv'
<1> SUFFICES ASSUME StreamInv, CounterTypes, PutInv, SocketCases PROVE PutInv'
  BY SocketSteps DEF SocketInv
<1> USE DEF PutInv
<1>1. CASE Leaves
  BY <1>1 DEF Leaves
<1>2. CASE Others
  BY <1>2 DEF Others, Mine
<1>3. ASSUME NEW method \in Mine, NEW n \in Nat, Enter(method, n), method \in {"Receive", "ReceiveToToken"} => n > 0,
             result' \in {"running", "error"}
      PROVE  PutInv'
  <2>1. call' = "PutFile" => count' = len' /\ len' \in Nat /\ wire' = <<>>
    BY <1>3 DEF Enter
  <2>2. \A m \in Nat : [i \in 1..(m - m) |-> m + i] = <<>>
    OBVIOUS
  <2> QED BY <1>3, <2>1, <2>2
<1>4. CASE PutChunk
  <2>1. /\ call = "PutFile" /\ result = "running" /\ Chunk # {} /\ count' = ChunkEnd
        /\ UNCHANGED <<blocking, fileLen, call, len>>
    BY <1>4 DEF PutChunk
  <2>2. count \in Nat /\ fileLen \in Nat /\ count < ChunkEnd /\ ChunkEnd <= fileLen /\ ChunkEnd \in Nat
    BY <2>1 DEF Chunk, ChunkEnd, CounterTypes
  <2>3. ASSUME blocking, result' \in {"running", "ok"}
        PROVE  wire' = [i \in 1..(ChunkEnd - len) |-> len + i] /\ result' = "running"
    <3>1. wire' = wire \o [i \in 1..(ChunkEnd - count) |-> count + i] /\ result' = "running"
      BY <1>4, <2>1, <2>3 DEF PutChunk
    <3>2. wire = [i \in 1..(count - len) |-> len + i]
      BY <2>1, <2>3
    <3>3. count - len \in Nat /\ ChunkEnd - count \in Nat /\ len \in Nat
            /\ len + (count - len) = count /\ (count - len) + (ChunkEnd - count) = ChunkEnd - len
      BY <2>1, <2>2, <2>3 DEF CounterTypes
    <3>4. [i \in 1..(count - len) |-> len + i] \o [i \in 1..(ChunkEnd - count) |-> (len + (count - len)) + i]
            = [i \in 1..((count - len) + (ChunkEnd - count)) |-> len + i]
      BY <3>3, WireAppend
    <3> QED BY <3>1, <3>2, <3>3, <3>4
  <2> QED BY <2>1, <2>2, <2>3 DEF CounterTypes
<1>5. CASE PutEnd
  <2>1. count < fileLen => count + 1 \in Chunk
    BY DEF Chunk, CounterTypes
  <2> QED BY <1>5, <2>1 DEF PutEnd, CounterTypes
<1>6. CASE ReceiveSome \/ ReceiveNone \/ TokenByte \/ TokenNone
  BY <1>6 DEF ReceiveSome, ReceiveNone, TokenByte, TokenNone
<1> QED BY <1>1, <1>2, <1>3, <1>4, <1>5, <1>6 DEF SocketCases

\* Receive(vector): each chunk is stored at the beginning, whatever came before.
LEMMA VectorStep == SocketInv /\ Cases => VectorInv'
<1> SUFFICES ASSUME StreamInv, VectorInv, Cases PROVE VectorInv'
  BY DEF SocketInv
<1> USE DEF VectorInv
<1>1. CASE VectorChunk
  <2>1. PICK n \in 1..(RECEIVE_BUFF_SIZE - 1) :
           /\ Recv(n)
           /\ mem' = Store(0, SubSeq(stream, taken + 1, taken + n))
    BY <1>1 DEF VectorChunk
  <2>2. n \in Nat /\ taken + n <= Len(stream)
    BY <2>1, LenProperties DEF Recv, Available, StreamInv
  <2>3. Len(SubSeq(stream, taken + 1, taken + n)) = n
    BY <2>2, Segment DEF StreamInv
  <2>4. DOMAIN mem' = DOMAIN mem \union (0 + 1)..(0 + n)
    <3> DEFINE new == SubSeq(stream, taken + 1, taken + n)
    <3>1. Len(new) = n /\ mem' = Store(0, new) /\ 0 \in Nat
      BY <2>1, <2>3
    <3> HIDE DEF new
    <3> QED BY <2>2, <3>1, StoreDomain
  <2> QED BY <1>1, <2>1, <2>4, ReceiveBuffAssumption DEF VectorChunk
<1>2. ASSUME NEW method, NEW n, Enter(method, n)
      PROVE  VectorInv'
  BY <1>2 DEF Enter
<1>3. ASSUME NEW method, CallHttp(method)
      PROVE  VectorInv'
  BY <1>3, <1>2 DEF CallHttp, Call
<1>4. ReceiveSome \/ ReceiveNone \/ TokenByte \/ TokenNone \/ RawChunk
        => call' # "ReceiveVector"
  BY DEF ReceiveSome, ReceiveNone, TokenByte, TokenNone, RawChunk
<1>5. Deliver \/ End \/ Timeout \/ Throw \/ PutChunk \/ PutEnd => UNCHANGED <<call, mem>>
  BY DEF Deliver, End, Timeout, Throw, PutChunk, PutEnd
<1>6. HttpHeaderByte \/ HttpHeaderEof \/ HttpHeaderError \/ HttpTimeout \/ HttpBodyByte
        \/ HttpBodyEnd \/ HeaderByte \/ HeaderStop \/ UNCHANGED allVars
        => UNCHANGED <<call, mem>>
  BY DEF HttpHeaderByte, HttpHeaderEof, HttpHeaderError, HttpTimeout, HttpBodyByte,
         HttpBodyEnd, HeaderByte, HeaderStop, socketRest, allVars, vars
<1> QED BY <1>1, <1>2, <1>3, <1>4, <1>5, <1>6 DEF Cases

LEMMA SocketStep == SocketInv /\ Cases => SocketInv'
BY StreamStep, CounterStep, ReceiveStep, TokenStep, VectorStep, PutStep DEF SocketInv

-----------------------------------------------------------------------------
(* ReceiveHttp *)

\* Steps that leave what was read, and the loop that reads, as it is.
Rests ==
    /\ UNCHANGED <<call, header, data, announced, reading, stream, taken, base>>
    /\ result' = result
    /\ fin' = fin \/ fin = "open"
    /\ fin = "closed" => arrived' = arrived

Parsed ==
    \/ result' \notin {"running"} /\ UNCHANGED <<announced, reading>>
    \/ announced' \in -1..MaxStream /\ reading' = "body" /\ result' = result

LEMMA ParseCases == ASSUME NEW h, result = "running", ParseHeader(h) PROVE Parsed
<1>1. \A v \in Verdicts(h) : v # "running"
  BY DEF Verdicts
<1> QED BY <1>1 DEF ParseHeader, Parsed

\* What a step does to ReceiveHttp.
HttpCases ==
    \/ Rests
    \/ call' # "ReceiveHttp" /\ UNCHANGED httpVars
    \/ \E method \in {"ReceiveHeader", "ReceiveHttp"} : CallHttp(method)
    \/ HttpHeaderByte \/ HttpHeaderEof \/ HttpHeaderError \/ HttpTimeout
    \/ HttpBodyByte \/ HttpBodyEnd \/ HeaderByte \/ HeaderStop

LEMMA HttpSteps == StreamInv /\ Cases => HttpCases
<1> SUFFICES ASSUME StreamInv, Cases PROVE HttpCases
  OBVIOUS
<1> USE DEF HttpCases
<1>1. CASE (Deliver \/ End) /\ UNCHANGED httpVars
  <2>1. Rests
    BY <1>1 DEF Deliver, End, httpVars, Rests, StreamInv
  <2> QED BY <2>1
<1>2. CASE UNCHANGED allVars
  <2>1. Rests
    BY <1>2 DEF allVars, vars, peerVars, httpVars, Rests
  <2> QED BY <2>1
<1>3. ASSUME NEW method \in {"Receive", "ReceiveToToken", "ReceiveVector", "ReceiveRaw", "PutFile"},
             NEW n \in Nat, Enter(method, n), UNCHANGED httpVars
      PROVE  HttpCases
  BY <1>3 DEF Enter
<1>4. CASE (ReceiveSome \/ ReceiveNone \/ TokenByte \/ TokenNone) /\ UNCHANGED httpVars
  BY <1>4 DEF ReceiveSome, ReceiveNone, TokenByte, TokenNone
<1>5. CASE (VectorChunk \/ RawChunk \/ Timeout \/ Throw) /\ UNCHANGED httpVars
  BY <1>5 DEF VectorChunk, RawChunk, Timeout, Throw
<1>6. CASE (PutChunk \/ PutEnd) /\ UNCHANGED httpVars
  BY <1>6 DEF PutChunk, PutEnd
<1> QED BY <1>1, <1>2, <1>3, <1>4, <1>5, <1>6 DEF Cases

LEMMA HttpTypesStep == StreamInv /\ HttpTypes /\ Cases => HttpTypes'
<1> SUFFICES ASSUME StreamInv, HttpTypes, HttpCases PROVE HttpTypes'
  BY HttpSteps
<1> USE DEF HttpTypes, httpVars
<1>1. CASE Rests \/ (call' # "ReceiveHttp" /\ UNCHANGED httpVars)
  BY <1>1 DEF Rests
<1>2. ASSUME NEW method, CallHttp(method)
      PROVE  HttpTypes'
  BY <1>2, EmptySeq DEF CallHttp
<1>3. CASE HttpHeaderByte \/ HttpBodyByte \/ HeaderByte
  <2>1. stream[taken + 1] \in Bytes
    BY <1>3, LenProperties DEF HttpHeaderByte, HttpBodyByte, HeaderByte, Recv, Available, StreamInv
  <2>2. Append(header, stream[taken + 1]) \in Seq(Bytes) /\ Append(data, stream[taken + 1]) \in Seq(Bytes)
    BY <2>1, AppendProperties
  <2> QED BY <1>3, <2>2 DEF HttpHeaderByte, HttpBodyByte, HeaderByte, ParseHeader
<1>4. CASE HttpHeaderEof
  BY <1>4 DEF HttpHeaderEof, ParseHeader
<1>5. CASE HttpHeaderError \/ HttpTimeout \/ HttpBodyEnd \/ HeaderStop
  BY <1>5 DEF HttpHeaderError, HttpTimeout, HttpBodyEnd, HeaderStop
<1> QED BY <1>1, <1>2, <1>3, <1>4, <1>5 DEF HttpCases

\* An element appended to the second of two sequences, shown by elements.
LEMMA AppendToSecond ==
    ASSUME NEW S, NEW s \in Seq(S), NEW t \in Seq(S), NEW x \in S
    PROVE  s \o Append(t, x) = Append(s \o t, x)
<1>1. /\ s \o t \in Seq(S) /\ Len(s \o t) = Len(s) + Len(t)
      /\ Append(t, x) \in Seq(S) /\ Len(Append(t, x)) = Len(t) + 1
      /\ Len(s) \in Nat /\ Len(t) \in Nat
  BY ConcatProperties, AppendProperties, LenProperties
<1>2. /\ s \o Append(t, x) \in Seq(S) /\ Len(s \o Append(t, x)) = Len(s) + Len(t) + 1
      /\ Append(s \o t, x) \in Seq(S) /\ Len(Append(s \o t, x)) = Len(s) + Len(t) + 1
  BY <1>1, ConcatProperties, AppendProperties
<1>3. \A i \in 1..(Len(s) + Len(t) + 1) : (s \o Append(t, x))[i] = Append(s \o t, x)[i]
  BY <1>1, ConcatProperties, AppendProperties
<1> QED BY <1>2, <1>3, SeqEqual

LEMMA AppendData ==
    ASSUME HttpTypes, NEW x \in Bytes
    PROVE  header \o Append(data, x) = Append(header \o data, x)
BY AppendToSecond DEF HttpTypes

\* The header, and the data behind it, continue the segment that was taken.
LEMMA NextByte ==
    ASSUME StreamInv, HttpTypes, header \o data = SubSeq(stream, base + 1, taken), Recv(1)
    PROVE  /\ taken' = taken + 1 /\ stream[taken + 1] \in Bytes
           /\ data = <<>> => Append(header, stream[taken + 1]) \o data = SubSeq(stream, base + 1, taken + 1)
           /\ header \o Append(data, stream[taken + 1]) = SubSeq(stream, base + 1, taken + 1)
<1> DEFINE x == stream[taken + 1]
<1>1. taken < Len(stream) /\ taken' = taken + 1 /\ x \in Bytes
  BY LenProperties DEF Recv, Available, StreamInv
<1>2. Append(header \o data, x) = SubSeq(stream, base + 1, taken + 1)
  BY <1>1, SegmentAppend DEF StreamInv
<1> HIDE DEF x
<1>3. /\ header \in Seq(Bytes) /\ data \in Seq(Bytes)
      /\ header \o data \in Seq(Bytes) /\ Append(header, x) \in Seq(Bytes)
  <2>1. header \in Seq(Bytes) /\ data \in Seq(Bytes)
    BY <1>1 DEF HttpTypes
  <2>2. header \o data \in Seq(Bytes)
    BY <2>1, ConcatProperties
  <2>3. Append(header, x) \in Seq(Bytes)
    BY <1>1, <2>1, AppendProperties
  <2> QED BY <2>1, <2>2, <2>3
<1>4. header \o Append(data, x) = Append(header \o data, x)
  BY <1>1, AppendData
<1>5. data = <<>> => header \o data = header /\ Append(header, x) \o data = Append(header, x)
  BY <1>3, ConcatEmptySeq
<1> QED BY <1>1, <1>2, <1>4, <1>5 DEF x

\* The loop of the header keeps tokens out of it but at the start and the end.
LEMMA CutStep == StreamInv /\ HttpTypes /\ CutInv /\ Cases => CutInv'
<1> SUFFICES ASSUME StreamInv, HttpTypes, CutInv, HttpCases PROVE CutInv'
  BY HttpSteps
<1> USE DEF CutInv, httpVars
<1>0. Len(header) \in Nat /\ Len(data) \in Nat /\ taken \in Nat /\ arrived \in Nat
  BY LenProperties DEF HttpTypes, StreamInv
<1>1. CASE Rests
  BY <1>1 DEF Rests
<1>2. CASE call' # "ReceiveHttp"
  BY <1>2
<1>3. ASSUME NEW method, CallHttp(method)
      PROVE  CutInv'
  <2>1. SubSeq(stream, taken + 1, taken) = <<>>
    BY Segment, EmptySeq DEF StreamInv
  <2>2. <<>> \o <<>> = <<>>
    BY EmptySeq, ConcatEmptySeq
  <2>3. /\ header' = <<>> /\ data' = <<>> /\ announced' = -1 /\ reading' = "header"
        /\ stream' = stream /\ taken' = taken /\ base' = taken
    BY <1>3 DEF CallHttp, Call, Enter, peerVars
  <2>4. Len(header') = 0 /\ header' \o data' = SubSeq(stream', base' + 1, taken')
    BY <2>1, <2>2, <2>3, EmptySeq
  <2> QED BY <2>3, <2>4
<1>4. CASE HttpHeaderByte
  <2>1. /\ call = "ReceiveHttp" /\ result = "running" /\ reading = "header" /\ Recv(1)
        /\ header' = Append(header, stream[taken + 1]) /\ data' = data
        /\ UNCHANGED <<call, stream, base>>
    BY <1>4 DEF HttpHeaderByte, Running, socketRest, peerVars
  <2>2. header' \o data' = SubSeq(stream', base' + 1, taken') /\ stream[taken + 1] \in Bytes
    BY <2>1, NextByte
  <2>3. /\ Len(header') = Len(header) + 1
        /\ \A i \in 1..Len(header) : header'[i] = header[i]
    BY <2>1, <2>2, AppendProperties DEF HttpTypes
  <2>4. \A i \in 2..(Len(header') - 1) : header'[i] # Token
    BY <1>0, <2>1, <2>3
  <2>5. CASE HeaderEnds(header')
    <3>1. Parsed
      BY <1>4, <2>1, <2>5, ParseCases DEF HttpHeaderByte
    <3>2. Len(header') > 1 /\ header'[Len(header')] = Token
      BY <2>5 DEF HeaderEnds, Last
    <3> QED BY <2>1, <2>2, <2>4, <3>1, <3>2 DEF Parsed
  <2>6. CASE ~HeaderEnds(header')
    <3>1. UNCHANGED <<result, announced, reading>>
      BY <1>4, <2>6 DEF HttpHeaderByte
    <3>2. Len(header') > 1 => header'[Len(header')] # Token
      BY <2>6 DEF HeaderEnds, Last
    <3>3. \A i \in 2..Len(header') : header'[i] # Token
      BY <1>0, <2>3, <2>4, <3>2
    <3> QED BY <2>1, <2>2, <2>4, <3>1, <3>3
  <2> QED BY <2>5, <2>6
<1>5. CASE HttpHeaderEof
  <2>1. /\ call = "ReceiveHttp" /\ result = "running" /\ reading = "header"
        /\ fin = "closed" /\ Available = 0
        /\ UNCHANGED <<call, stream, arrived, fin, taken, base, header, data>>
    BY <1>5 DEF HttpHeaderEof, Running, socketRest, peerVars
  <2>2. Parsed
    BY <1>5, <2>1, ParseCases DEF HttpHeaderEof
  <2>3. taken = arrived /\ data = <<>>
    BY <1>0, <2>1 DEF Available
  <2>4. CASE result' # "running" /\ UNCHANGED <<announced, reading>>
    BY <2>1, <2>4
  <2>5. CASE reading' = "body"
    BY <2>1, <2>3, <2>5
  <2> QED BY <2>2, <2>4, <2>5 DEF Parsed
<1>6. CASE HttpHeaderError \/ HttpTimeout \/ HttpBodyEnd
  <2>1. result' # "running" /\ UNCHANGED <<call, header, data, announced, reading, stream,
                                           arrived, fin, taken, base>>
    BY <1>6 DEF HttpHeaderError, HttpTimeout, HttpBodyEnd, Verdicts, socketRest, peerVars
  <2> QED BY <2>1
<1>7. CASE HttpBodyByte
  <2>1. /\ call = "ReceiveHttp" /\ reading # "header" /\ Recv(1)
        /\ data' = Append(data, stream[taken + 1])
        /\ UNCHANGED <<call, stream, base, header, announced, reading, arrived, fin>>
    BY <1>7 DEF HttpBodyByte, Running, socketRest, peerVars
  <2>2. header' \o data' = SubSeq(stream', base' + 1, taken')
    BY <2>1, NextByte
  <2>3. taken # arrived
    BY <1>0, <2>1 DEF Recv, Available
  <2> QED BY <2>1, <2>2, <2>3
<1>8. CASE HeaderByte \/ HeaderStop
  BY <1>8 DEF HeaderByte, HeaderStop, Running, socketRest
<1> QED BY <1>1, <1>2, <1>3, <1>4, <1>5, <1>6, <1>7, <1>8 DEF HttpCases

\* The loop of the body starts with nothing, and ends at the announced length.
LEMMA BodyStep == StreamInv /\ HttpTypes /\ CutInv /\ BodyInv /\ Cases => BodyInv'
<1> SUFFICES ASSUME StreamInv, HttpTypes, CutInv, BodyInv, HttpCases PROVE BodyInv'
  BY HttpSteps
<1> USE DEF BodyInv, httpVars
<1>0. /\ Len(header) \in Nat /\ Len(data) \in Nat /\ Len(stream) \in Nat /\ announced \in Int
      /\ taken \in Nat /\ arrived \in Nat /\ base \in Nat
      /\ data = <<>> => Len(data) = 0
  BY LenProperties, EmptySeq DEF HttpTypes, StreamInv
<1>1. CASE Rests
  BY <1>1 DEF Rests
<1>2. CASE call' # "ReceiveHttp"
  BY <1>2
<1>3. ASSUME NEW method, CallHttp(method)
      PROVE  BodyInv'
  BY <1>3 DEF CallHttp
<1>4. CASE HttpHeaderByte \/ HttpHeaderEof
  <2>1. /\ call = "ReceiveHttp" /\ result = "running" /\ reading = "header" /\ data' = data
    BY <1>4 DEF HttpHeaderByte, HttpHeaderEof, Running
  <2>2. Len(data') = 0 /\ announced = -1
    BY <1>0, <2>1 DEF CutInv
  <2>3. Parsed \/ UNCHANGED <<result, announced, reading>>
    BY <1>4, <2>1, ParseCases DEF HttpHeaderByte, HttpHeaderEof
  <2>4. announced' \in Int
    BY <2>2, <2>3 DEF Parsed
  <2> QED BY <2>1, <2>2, <2>3, <2>4 DEF Parsed
<1>5. CASE HttpHeaderError
  <2>1. /\ call = "ReceiveHttp" /\ result = "running" /\ reading = "header"
        /\ UNCHANGED <<call, announced>>
    BY <1>5 DEF HttpHeaderError, Running, socketRest
  <2> QED BY <2>1 DEF CutInv
<1>6. CASE HttpTimeout
  BY <1>6 DEF HttpTimeout, socketRest
<1>7. CASE HttpBodyEnd
  <2>1. /\ call = "ReceiveHttp" /\ result = "running" /\ reading = "body"
        /\ fin = "broken" \/ (fin = "closed" /\ Available = 0)
        /\ UNCHANGED <<call, stream, fin, base, header, data, announced, reading>>
    BY <1>7 DEF HttpBodyEnd, Running, socketRest, peerVars
  <2>2. ASSUME fin = "closed", Available = 0
        PROVE  Len(header) + Len(data) = Len(stream) - base
    <3>1. taken = Len(stream)
      BY <1>0, <2>2 DEF Available, StreamInv
    <3>2. Len(header \o data) = Len(header) + Len(data)
      BY ConcatProperties DEF HttpTypes
    <3>3. Len(SubSeq(stream, base + 1, taken)) = taken - base
      BY Segment DEF StreamInv
    <3> QED BY <2>1, <3>1, <3>2, <3>3 DEF CutInv
  <2> QED BY <1>0, <2>1, <2>2
<1>8. CASE HttpBodyByte
  <2>1. /\ call = "ReceiveHttp" /\ result = "running" /\ reading = "body" /\ Recv(1)
        /\ data' = Append(data, stream[taken + 1])
        /\ result' = IF BodyEnds(data') THEN "ok" ELSE "running"
        /\ UNCHANGED <<call, stream, base, header, announced, reading>>
    BY <1>8 DEF HttpBodyByte, Running, socketRest, peerVars
  <2>2. stream[taken + 1] \in Bytes
    BY <2>1, NextByte DEF CutInv
  <2>3. Len(data') = Len(data) + 1
    BY <2>1, <2>2, AppendProperties DEF HttpTypes
  <2> QED BY <1>0, <2>1, <2>3 DEF BodyEnds
<1>9. CASE HeaderByte \/ HeaderStop
  BY <1>9 DEF HeaderByte, HeaderStop, Running, socketRest
<1> QED BY <1>1, <1>2, <1>3, <1>4, <1>5, <1>6, <1>7, <1>8, <1>9 DEF HttpCases

-----------------------------------------------------------------------------
(* The theorems *)

LEMMA InitInv == HttpInit => IInv
<1> SUFFICES ASSUME HttpInit PROVE IInv
  OBVIOUS
<1> USE DEF HttpInit, Init
<1>1. stream \in Seq(Bytes) /\ Len(stream) \in Nat
  <2>1. PICK n \in 0..MaxStream : stream \in [1..n -> Bytes]
    BY DEF BoundedSeq, SeqOf
  <2>2. stream \in Seq(Bytes)
    BY <2>1
  <2> QED BY <2>2, LenProperties
<1>2. StreamInv /\ CounterTypes
  BY <1>1 DEF StreamInv, CounterTypes
<1>3. ReceiveInv /\ TokenInv /\ VectorInv /\ PutInv
  BY DEF ReceiveInv, TokenInv, VectorInv, PutInv
<1>4. HttpTypes
  BY EmptySeq DEF HttpTypes
<1>5. CutInv /\ BodyInv
  BY DEF CutInv, BodyInv
<1> QED BY <1>2, <1>3, <1>4, <1>5 DEF IInv, SocketInv

\* IInv is an inductive invariant of the socket and its methods.
THEOREM Invariant == HttpSpec => []IInv
<1>1. IInv /\ [HttpNext]_allVars => IInv'
  BY StepCases, SocketStep, HttpTypesStep, CutStep, BodyStep DEF IInv, SocketInv
<1> QED BY InitInv, <1>1, PTL DEF HttpSpec

\* Socket.cpp:662-666, 790-792, 761-765: Receive and ReceiveToToken write inside
\* the buffer they were given, in either mode, and Receive(vector) inside every
\* vector of at least RECEIVE_BUFF_SIZE - 1 elements.
THEOREM StoresInBounds == HttpSpec => []InBounds
<1>1. IInv => InBounds
  <2>1. SocketInv /\ call = "ReceiveToToken" => 1..count \subseteq 1..len
    BY DEF SocketInv, TokenInv, CounterTypes
  <2>2. VectorInv /\ call = "ReceiveVector" /\ len >= RECEIVE_BUFF_SIZE - 1 /\ len \in Nat
          => DOMAIN mem \subseteq 1..len
    BY ReceiveBuffAssumption DEF VectorInv
  <2> QED BY <2>1, <2>2 DEF IInv, SocketInv, CounterTypes, ReceiveInv, TokenInv, InBounds
<1> QED BY Invariant, <1>1, PTL

\* What a blocking receive returns is what was sent, however recv() cut it.
THEOREM ReceivesWhatIsSent == HttpSpec => []ReceivedIsSent
<1>1. IInv => ReceivedIsSent
  BY DEF IInv, SocketInv, ReceiveInv, TokenInv, ReceivedIsSent
<1> QED BY Invariant, <1>1, PTL

\* ReceiveToToken returns at the first token, in either mode.
THEOREM StopsAtToken == HttpSpec => []TokenIsLast
<1>1. IInv => TokenIsLast
  BY DEF IInv, SocketInv, TokenInv, TokenIsLast
<1> QED BY Invariant, <1>1, PTL

\* PutFile on a blocking socket puts the whole file, from the offset on, on the
\* wire, whatever the sizes of file and buffer.
THEOREM PutsWholeFile == HttpSpec => []PutWhole
<1>1. IInv => PutWhole
  <2> SUFFICES ASSUME SocketInv, blocking, result = "ok", call = "PutFile"
               PROVE  wire = [i \in 1..(fileLen - len) |-> len + i]
    BY DEF IInv, PutWhole
  <2>1. /\ count = len \/ (len < count /\ count <= fileLen)
        /\ wire = [i \in 1..(count - len) |-> len + i]
        /\ fileLen <= count
        /\ count \in Nat /\ len \in Nat /\ fileLen \in Int
    BY DEF SocketInv, PutInv, CounterTypes
  <2>2. 1..(count - len) = 1..(fileLen - len)
    BY <2>1
  <2> QED BY <2>1, <2>2
<1> QED BY Invariant, <1>1, PTL

\* HttpSocket.h:74: header and data are what was taken, cut behind the first
\* blank line that has a header.
THEOREM CutsAtBlankLine == HttpSpec => []SplitAtBlankLine
<1>1. IInv => SplitAtBlankLine
  BY DEF IInv, CutInv, SplitAtBlankLine, Last
<1> QED BY Invariant, <1>1, PTL

\* ReceiveHttp reads no byte behind the body that a positive Content-Length
\* announces (HttpSocket.cpp:672-675).
THEOREM StopsAtLength == HttpSpec => []NeverOverreads
<1>1. IInv => NeverOverreads
  BY DEF IInv, BodyInv, NeverOverreads
<1> QED BY Invariant, <1>1, PTL

\* ReceiveHttp returns the whole body that is announced, if it all arrives.
THEOREM ReadsWholeBody == HttpSpec => []CompleteBody
<1>1. IInv => CompleteBody
  <2>1. IInv => Len(stream) \in Nat /\ Len(header) \in Nat /\ base \in Nat /\ announced \in Int
    BY LenProperties DEF IInv, SocketInv, StreamInv, HttpTypes
  <2> QED BY <2>1 DEF IInv, BodyInv, CompleteBody
<1> QED BY Invariant, <1>1, PTL
=============================================================================
