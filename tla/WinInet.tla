------------------------------ MODULE WinInet ------------------------------
(* The static functions of HttpSocket over WinInet (HttpSocket.cpp:181-487): *)
(* SendFileFormInet, SendGetInet and GetFileInet, each call of the system    *)
(* succeeding or failing.  InternetCloseHandle closes the handles opened     *)
(* from its argument too.                                                    *)
(*                                                                           *)
(* Lengths are in units: a request's header and footer are one each, the     *)
(* buffer of the copying loops holds one, and a DWORD wraps at Word.         *)
EXTENDS Naturals

CONSTANTS
    Word,       \* 2^32 in the program
    MaxReply    \* bound on the buffers a reply or a file comes in

VARIABLES
    function,   \* the function running or last run
    at,         \* its control point, "idle" outside of a call
    outcome,    \* how it ended: "ok" or "threw"
    handles,    \* which of its locals hFile, hNet, hCon, hReq are open
    size,       \* size_low
    position,   \* bytes read from hFile
    total,      \* BufferIn.dwBufferTotal, which becomes the Content-Length
    sum,        \* bytes counted as written
    written,    \* bytes that InternetWriteFile took
    replies     \* buffers read of a reply or file

transfer == <<size, position, total, sum, written, replies>>
vars == <<function, at, outcome, handles, transfer>>

Functions == {"SendFileFormInet", "SendGetInet", "GetFileInet"}

Init ==
    /\ function = "none"
    /\ at = "idle"
    /\ outcome = "ok"
    /\ handles = {}
    /\ size = 0 /\ position = 0 /\ total = 0 /\ sum = 0 /\ written = 0 /\ replies = 0

\* What InternetCloseHandle(h) or CloseHandle(h) closes.
Closes(h) ==
    CASE h = "hNet" -> {"hNet", "hCon", "hReq"}
      [] h = "hCon" -> {"hCon", "hReq"}
      [] OTHER -> {h}

CloseAll(S) == handles \ UNION {Closes(h) : h \in S}

\* GetFileInet closes hNet and hCon, and nothing when the read fails; the file
\* stays open.
ClosedOnError ==
    CASE function = "SendFileFormInet" -> {"hFile", "hNet", "hCon", "hReq"}
      [] function = "GetFileInet" /\ at = "read" -> {}
      [] OTHER -> {"hNet", "hCon"}

\* SendFileFormInetError that leaves the request to itself.
FaultyFail ==
    /\ handles' = CloseAll(ClosedOnError \ {"hNet"})
    /\ outcome' = "threw"
    /\ at' = "idle"
    /\ UNCHANGED <<function, transfer>>

\* SendFileFormInetError, or the throw of the other two.
Fail ==
    /\ handles' = CloseAll(ClosedOnError)
    /\ outcome' = "threw"
    /\ at' = "idle"
    /\ UNCHANGED <<function, transfer>>

Continue(label) == at' = label /\ UNCHANGED <<function, outcome, handles>>

-----------------------------------------------------------------------------
(* Opening *)

Begin(f) ==
    /\ at = "idle"
    /\ function' = f
    /\ at' = IF f = "SendGetInet" THEN "open" ELSE "file"
    /\ outcome' = "ok"
    /\ size' = 0 /\ position' = 0 /\ total' = 0 /\ sum' = 0 /\ written' = 0 /\ replies' = 0
    /\ handles' = {}

\* A call that gives a handle, or fails.
Open(label, h, next) ==
    /\ at = label
    /\ \/ /\ handles' = handles \union {h}
          /\ at' = next
          /\ UNCHANGED <<function, outcome, transfer>>
       \/ Fail

\* CreateFile
OpenFile == Open("file", "hFile", IF function = "SendFileFormInet" THEN "size" ELSE "open")
InternetOpen == Open("open", "hNet", "connect")
InternetConnect == Open("connect", "hCon", "request")
HttpOpenRequest ==
    Open("request", "hReq", IF function = "SendFileFormInet" THEN "headers" ELSE "send")

\* GetFileSize: empty, unknown and too large files are refused.
FileSize ==
    /\ at = "size"
    /\ \/ /\ size' \in 1..(Word - 2)
          /\ Continue("open")
          /\ UNCHANGED <<position, total, sum, written, replies>>
       \/ Fail

\* HttpSendRequest of the other two.
SendRequest ==
    /\ at = "send"
    /\ \/ Continue("read") /\ UNCHANGED transfer
       \/ Fail

-----------------------------------------------------------------------------
(* SendFileFormInet *)

\* size_low + header + footer, a DWORD.
Total == (size + 2) % Word

\* HttpAddRequestHeaders, HttpSendRequestEx
SendHeaders ==
    /\ at = "headers"
    /\ \/ /\ total' = Total
          /\ Continue("header")
          /\ UNCHANGED <<size, position, sum, written, replies>>
       \/ Fail

\* InternetWriteFile of n units takes no more than that, and says how much.
Write(n, next) ==
    /\ \E w \in 0..n : written' = written + w /\ sum' = (sum + w) % Word
    /\ Continue(next)
    /\ UNCHANGED <<size, total, replies>>

WriteHeader ==
    /\ at = "header"
    /\ \/ Write(1, "chunk") /\ UNCHANGED position
       \/ Fail

\* One turn of the loop: ReadFile, InternetWriteFile; a read that does not
\* fill the buffer is the last one.
WriteChunk ==
    /\ at = "chunk"
    /\ LET n == IF position < size THEN 1 ELSE 0 IN
       \/ position' = position + n /\ Write(n, IF n = 1 THEN "chunk" ELSE "footer")
       \/ Fail

WriteFooter ==
    /\ at = "footer"
    /\ \/ Write(1, "check") /\ UNCHANGED position
       \/ Fail

\* No look at what was written.
FaultyCheck ==
    /\ at = "check"
    /\ Continue("read")
    /\ UNCHANGED transfer

\* if(sum != BufferIn.dwBufferTotal)
Check ==
    /\ at = "check"
    /\ IF sum # total THEN Fail ELSE Continue("read") /\ UNCHANGED transfer

-----------------------------------------------------------------------------
(* The reply, or the file that is fetched *)

\* InternetReadFile gives a buffer, which GetFileInet writes.
ReadBuffer ==
    /\ at = "read"
    /\ replies < MaxReply
    /\ replies' = replies + 1
    /\ UNCHANGED <<function, at, outcome, handles, size, position, total, sum, written>>

\* InternetReadFile fails: only GetFileInet throws, the others stop reading.
ReadFailed ==
    /\ at = "read"
    /\ function = "GetFileInet"
    /\ Fail

\* The end of the data, or a WriteFile that failed, or nobody wants it.
Return ==
    /\ at = "read"
    /\ handles' = CloseAll(IF function = "SendGetInet" THEN {"hNet", "hCon"}
                           ELSE {"hNet", "hCon", "hReq", "hFile"})
    /\ at' = "idle"
    /\ UNCHANGED <<function, outcome, transfer>>

Step ==
    \/ OpenFile \/ InternetOpen \/ InternetConnect \/ HttpOpenRequest \/ FileSize
    \/ SendRequest \/ SendHeaders \/ WriteHeader \/ WriteChunk \/ WriteFooter \/ Check
    \/ ReadBuffer \/ ReadFailed \/ Return

-----------------------------------------------------------------------------
(* Properties *)

\* A function that ends has closed what it opened.  GetFileInet that throws
\* after CreateFile does not: the file stays open, and after a failed read all.
HandlesClosed ==
    at = "idle" /\ ~(function = "GetFileInet" /\ outcome = "threw") => handles = {}

\* SendFileFormInet returns only if WinInet took exactly what was announced:
\* the file between header and footer.  (A file that the DWORD sum wraps on is
\* announced short.)
AnnouncedIsWritten ==
    function = "SendFileFormInet" /\ outcome = "ok" /\ at \in {"read", "idle"}
        /\ size + 2 < Word =>
            written = total /\ written = size + 2
=============================================================================
