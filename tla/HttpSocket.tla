----------------------------- MODULE HttpSocket -----------------------------
(* peel::HttpSocket's receiving methods (HttpSocket.cpp) on top of the       *)
(* transfers of SocketIO, as the class derives from Socket.  Both read one   *)
(* byte at a time.  Token stands for the four bytes CR LF CR LF that end a   *)
(* header, every other byte for a byte of the header or the body.            *)
(*                                                                           *)
(* What a header says is chosen when it is parsed: that it is malformed or a *)
(* 404, or its Content-Length, or that the caller wants no data.             *)
EXTENDS SocketIO

VARIABLES
    announced,  \* value of Content-Length, -1 when absent
    reading,    \* the loop that is running: "header" or "body"
    header,     \* header_data, or ReceiveHeader's data
    data        \* *data

httpVars == <<announced, reading, header, data>>
allVars == <<vars, httpVars>>

socketRest == <<blocking, peerVars, fileLen, wire, call, calls, len, count, recd, c,
                mem, base>>

HttpInit ==
    /\ Init
    /\ announced = -1
    /\ reading = "header"
    /\ header = <<>>
    /\ data = <<>>

Running(method, loop) == call = method /\ result = "running" /\ reading = loop

CallHttp(method) ==
    /\ Call(method, 0)
    /\ announced' = -1
    /\ reading' = "header"
    /\ header' = <<>>
    /\ data' = <<>>

-----------------------------------------------------------------------------
(* ReceiveHttp *)

\* A status line needs a blank, which the blank lines do not have.
HasText(h) == \E i \in DOMAIN h : h[i] # Token

\* Lines 609-627: the ends that come before the second loop.
Verdicts(h) == {"ok", "malformed"} \union (IF HasText(h) THEN {"notfound"} ELSE {})

ParseHeader(h) ==
    \/ result' \in Verdicts(h) /\ UNCHANGED <<announced, reading>>
    \/ /\ HasText(h)
       /\ announced' \in -1..MaxStream
       /\ reading' = "body"
       /\ UNCHANGED result

\* Stops at a blank line only if it stands where it is expected.
FaultyHeaderEnds(h) == Last(h) = Token /\ Len(h) = 3

\* The loop stops at CR LF CR LF if anything stands before it.
HeaderEnds(h) == Last(h) = Token /\ Len(h) > 1

HttpHeaderByte ==
    /\ Running("ReceiveHttp", "header")
    /\ Recv(1)
    /\ header' = Append(header, stream[taken + 1])
    /\ IF HeaderEnds(header')
       THEN ParseHeader(header')
       ELSE UNCHANGED <<result, announced, reading>>
    /\ UNCHANGED <<socketRest, data>>

\* recv() returns 0: the header ends here, and the second loop runs.
HttpHeaderEof ==
    /\ Running("ReceiveHttp", "header")
    /\ fin = "closed" /\ Available = 0
    /\ ParseHeader(header)
    /\ UNCHANGED <<socketRest, taken, header, data>>

\* recv() returns -1: the header ends here, and the second loop does not run.
HttpHeaderError ==
    /\ Running("ReceiveHttp", "header")
    /\ fin = "broken"
    /\ result' \in Verdicts(header)
    /\ UNCHANGED <<socketRest, taken, httpVars>>

\* select() returns 0: the time left of TIMEOUT, which the loops share, is over.
HttpTimeout ==
    /\ call = "ReceiveHttp" /\ result = "running"
    /\ fin = "open" /\ Available = 0
    /\ result' = "timeout"
    /\ UNCHANGED <<socketRest, taken, httpVars>>

\* Compares with > where the code compares with ==.
FaultyBodyEnds(d) == announced >= 0 /\ Len(d) > announced

\* Counts the bytes from 0.
FaultyBodyShort(d) == announced >= 0 /\ Len(d) + 1 >= announced

\* hasLen && content == nbytes, tested after each byte.
BodyEnds(d) == announced >= 0 /\ Len(d) = announced

HttpBodyByte ==
    /\ Running("ReceiveHttp", "body")
    /\ Recv(1)
    /\ data' = Append(data, stream[taken + 1])
    /\ result' = IF BodyEnds(data') THEN "ok" ELSE "running"
    /\ UNCHANGED <<socketRest, announced, reading, header>>

\* Neither the end of the connection nor an error is reported.
HttpBodyEnd ==
    /\ Running("ReceiveHttp", "body")
    /\ \/ fin = "closed" /\ Available = 0
       \/ fin = "broken"
    /\ result' = "ok"
    /\ UNCHANGED <<socketRest, taken, httpVars>>

-----------------------------------------------------------------------------
(* ReceiveHeader *)

HeaderByte ==
    /\ Running("ReceiveHeader", "header")
    /\ Recv(1)
    /\ header' = Append(header, stream[taken + 1])
    /\ result' = IF stream[taken + 1] = Token THEN "ok" ELSE "running"
    /\ UNCHANGED <<socketRest, announced, reading, data>>

\* The connection ended, the socket would block, or TIMEOUT seconds are over:
\* whatever was read is the header.  That c[bytesRecv] is written before the
\* array when recv() returned -1 (513) is left out: c[-1] is no part of the header.
HeaderStop ==
    /\ Running("ReceiveHeader", "header")
    /\ \/ fin # "open" /\ Available = 0
       \/ fin = "broken"
       \/ WouldBlock
       \/ header # <<>>
    /\ result' = IF header # <<>> THEN "ok" ELSE "false"
    /\ UNCHANGED <<socketRest, taken, httpVars>>

-----------------------------------------------------------------------------
HttpMethod ==
    \/ HttpHeaderByte \/ HttpHeaderEof \/ HttpHeaderError \/ HttpTimeout
    \/ HttpBodyByte \/ HttpBodyEnd \/ HeaderByte \/ HeaderStop

HttpNext ==
    \/ Next /\ UNCHANGED httpVars
    \/ CallHttp("ReceiveHeader")
    \/ CallHttp("ReceiveHttp")
    \/ HttpMethod

HttpSpec == HttpInit /\ [][HttpNext]_allVars

(* A method that can go on does; nobody need call, send or close.            *)
HttpFairSpec ==
    HttpSpec /\ WF_allVars(Method /\ UNCHANGED httpVars) /\ WF_allVars(HttpMethod)

-----------------------------------------------------------------------------
(* Properties *)

\* "Read an incoming http stream from a server and split it up by header and
\* data" (HttpSocket.h:74): header and data are together what was taken from the
\* connection, and the cut is behind the first blank line that has a header.
SplitAtBlankLine ==
    call = "ReceiveHttp" =>
        /\ header \o data = SubSeq(stream, base + 1, taken)
        /\ \A i \in 2..(Len(header) - 1) : header[i] # Token
        /\ data # <<>> => Len(header) > 1 /\ Last(header) = Token

\* A response with a positive Content-Length is never read beyond its end, so
\* that the next response on the connection stays whole.
NeverOverreads == call = "ReceiveHttp" /\ announced > 0 => Len(data) <= announced

\* A response whose bytes all arrive and whose header announces a positive
\* length is returned whole, unless the connection broke.
CompleteBody ==
    /\ call = "ReceiveHttp" /\ result = "ok" /\ reading = "body"
    /\ announced > 0 /\ fin # "broken"
    /\ Len(stream) >= base + Len(header) + announced
    /\ header # <<>> /\ Last(header) = Token
    => Len(data) = announced
=============================================================================
