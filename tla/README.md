# Verification of peellib

peellib (`src/include/peel`, `src/src`) is a small C++ library of the mocap.ca
tools: a command-queue worker, threads, locks, TCP and UDP sockets, an HTTP
client, a log, and readers of XML, binder and C3D files. It compiles on
Windows and on POSIX systems, often with different code for the two.

This directory holds TLA+ models of its parts, the TLC configurations that
check them on small instances, and proofs that TLAPS checks for every instance.

    tlc -config MCWorker.cfg MCWorker.tla         # one run; see PROJECT.json
    tlapm WorkerProofs.tla                        # one module of proofs

`PROJECT.json` lists the runs, the hazards with the properties that cover them,
for each definition the source lines it stands for, and for each property a
faulty variant of a definition (`Faulty...`) under which it fails.

## 1. Inventory

| Part | State | Operations | What is hard about it |
|---|---|---|---|
| Worker (`Worker.h`) | `mStatus`, `mQueue`, `mListMutex`, the base class's condition | `enqueue`, `enqueue_unique`, `terminate`, `stop`, `pause`, `resume`, `clear`, `run`/`runone` | any number of threads; `mStatus` is read without the mutex; `wait()` has no predicate; commands are owned by the queue and deleted by three different paths |
| Lock, Condition (`Lock.h`) | a mutex; an event or a condition variable | lock, unlock, wait, notify | the two platforms keep or lose an early notification |
| Thread (`Thread.h`) | `m_handle` | `start`, `join`, `isRunning`, `terminate`, `detach` | `m_handle` is written by the owner and by the thread without a lock |
| ListenThread, BroadcastListenThread | `m_status`, the socket, the thread | `operator()`, `stopListening`, virtual `receiveData` | a status written by two threads without a lock; one loop polls once a second, the other blocks |
| Socket transfers (`Socket.cpp`) | the connection, the caller's buffer, each loop's counters | `Send`, `Receive...`, `ReceiveToToken`, `ReceiveRaw`, `PutFile` | TCP cuts the data anywhere; partial sends; would-block, end and error in every loop |
| Socket handles (`Socket.cpp`) | `m_socket`, the process's descriptors | constructors, `CreateSocket`, `Connect`, `Accept`, `DestroySocket`, the destructor | the system reuses numbers at once; every call may fail; two values of `m_socket` mean "none" |
| HttpSocket | the socket, the pending body | `ReceiveHeader`, `ReceiveHttp`, the static `SendGet` and `SendFile` | one timeout shared by two loops; the length compared for equality after each byte; a length announced before the file is read |
| HttpSocket over WinInet | four handles, the bytes counted | `SendFileFormInet`, `SendGetInet`, `GetFileInet` | a dozen system calls, each with its own error path; lengths in a DWORD |
| XmlParser, XmlTagEntity, XmlValueEntity | the parser's `m_pos` and FILE; per entity `m_ready`, `m_complete`, `m_pos`, `m_inserted`, `m_subTags` | `getTag`, `parseOne`, `parseSub`, `parse`, `getNext`, `getNextTag`, `unParse`, `reParse`, `parseTag`, `getArg` | a lazily read tree: recursive calls of several kinds, in any order, on shared cursors; a seek that is usually skipped |
| BinderParser, BinderData, File | list of entries, list of handlers; a FILE | `write`, `parse`, `registerParser`, `dumpIndex` | the index is written twice by seeking back; cut and foreign files; results of writes ignored |
| c3dFile | header, members set by parameters, group names, labels | `open`, `parse`, `readParam`, `readLabels`, conversions | three byte orders, sizes put together from three places, unchecked reads, one object for several files |
| Log | `fp_stream`, `m_buffer`, `m_mutex` | `logLock` ... `logMsg`, `write`, `warn`, `error`, ..., `SetLog`, the destructor | the lock is held from the first to the last `<<` of a statement, while operands are evaluated; `SetLog` takes no lock |
| Signal | a condition | `wait`, `notify` | no predicate; unused in the library |
| Util, WinUtil, UnixUtil, SocketAddress, SocketException, profile | none shared | conversions, wrappers | |

How they interact. A `Worker` *is a* `Condition` and takes `peel::Lock` on its
list mutex; an application calls `run()` from a `Thread`. A `ListenThread` *is
a* `Thread` and a `Socket`: its `operator()` calls `Listen`, `Accept`, the
application's `receiveData` and `Disconnect`. `HttpSocket` drives `Socket`'s
`select` and `recv`, and its static functions build a local `HttpSocket`, use
it and let its destructor close it on whatever path they leave. All threads that
log share one `Log`. A tag entity calls back into the one `XmlParser` its
application created (`getTag` with the entity's own offset). `BinderParser`
hands each block's `File` position to the `BinderData` registered for it.
`c3dFile` reads with `fread`/`fseek` and reports through virtual methods of the
application.

What makes each part correct:

* Worker: commands run in the order of addition, once each, none leaked, none
  touched after its deletion; a queued command is eventually served; a stopped
  worker leaves `run()`.
* ListenThread: `join()` means the thread is gone; a stop is noticed, and few
  connections are handed over after it.
* Socket, HttpSocket: what is returned is what was sent, in order; nothing is
  stored behind a buffer; header and body are split at the blank line; a call
  returns when the peer has gone.
* Socket handles, exchanges: an object closes only what it opened, whatever
  number the system gave it; what an exchange opened is closed on every path; a
  request is as long as its header says.
* Log: what threads stream into the one buffer is never mixed, a line comes out
  whole, once and where it should, and a statement ends.
* Xml: the tree is the document's whatever calls built it; the parser reads at
  the offset it was asked for; every call returns.
* Binder: what was written is read back, also what a writer that died had
  finished; a foreign file reaches no handler.
* c3dFile: each frame's keys are that frame's bytes, under locators with this
  file's labels; nothing stays open.

## 2. Modules

| Module | Models | Run by |
|---|---|---|
| `CommandQueue` | what a Worker promises, abstractly | `Worker!Implements` |
| `Worker` | `Worker.h` over `Lock.h` | `MCWorker` |
| `WorkerProofs` | theorems about `Worker`, its refinement of `CommandQueue` | TLAPS |
| `ListenThread` | `ListenThread.cpp`, `BroadcastListenThread.cpp`, `Thread.h`, the calls they make of `Socket.cpp` | `MCListenThread` |
| `ListenThreadProofs` | theorems about it | TLAPS |
| `SocketIO` | the transfer loops of `Socket.cpp` over a TCP stream | `MCHttpSocket` |
| `HttpSocket` | `ReceiveHttp`, `ReceiveHeader`; extends `SocketIO` | `MCHttpSocket` |
| `HttpSocketProofs` | theorems about both | TLAPS |
| `SocketHandle` | `Socket` objects and descriptors: construction, `Connect`, `Accept`, destruction | `MCHttpTransfer` |
| `WinInet` | `HttpSocket`'s functions over WinInet | `MCHttpTransfer` |
| `HttpTransfer` | the static `SendGet` and `SendFile`; extends `SocketHandle`, instantiates `WinInet` | `MCHttpTransfer` |
| `HttpTransferProofs` | theorems about all three | TLAPS |
| `Log`, `LogProofs` | `Log.cpp`, `Log.h`; theorems about it | `MCLog`, TLAPS |
| `XmlReader` | `XmlParser::getTag` on a file and on a string | `MCXmlTree` |
| `XmlTree` | the tag entity's calls as a stack machine; extends `XmlReader` | `MCXmlTree` |
| `XmlProofs` | theorems about `XmlReader`, `XmlTree` and `XmlTagText` | TLAPS |
| `XmlTagText` | `parseTag`: the text of one tag | `MCXmlTagText` |
| `Binder` | `BinderParser.cpp` over `File.cpp` | `MCBinder` |
| `BinderProofs` | theorems about it | TLAPS |
| `C3dParams` | the meaning of the parameter section | `MCC3dFile` |
| `C3dFile` | `open` and `parse`; extends `C3dParams` | `MCC3dFile` |
| `C3dFileProofs` | theorems about it | TLAPS |

### Worker

One step is one access to shared memory or one critical section. `run()` reads
`mStatus` without the mutex, so each evaluation of it is a step; control points
(`pc`) are named for the places in `run()`/`runone()`. `build` selects the API.
`event` is the condition: on "win32" (`AutoReset`) an event that stays set until
a wait takes it, on "pthread" a condition variable whose signal reaches only a
thread that already waits and whose wait may end spuriously. `Served` is about
the first; `ServedAlways`, about both, is refuted below. `ticket`, `executed`, `freed`,
`refused` and `promised` are history variables; the code has none of them. A
command is handed over once. `enqueue_unique(NULL)` is outside the contract.

### ListenThread

`kind` selects the class and `build` the API. `m_handle` and `m_status` are
shared memory, every access a step; the store of the new handle may come at any
time after the thread has begun. The network offers connections or datagrams up
to the backlog. `stop` and `late` are history: what became of the last
`stopListening()` since `start()`, and how many connections were handed over
since that call, whatever `m_status` then was. `terminate()` and `detach()` of
`Thread` are left out: they leave the thread's state undefined, as the header says.

### SocketIO and HttpSocket

The peer's stream is fixed in the initial state; the network delivers any
prefix at any time and then may close or break the connection. `recv` takes any
part of what is there. A byte is ordinary or ends a line; tokens are single
model values. `Receive` into a vector copies each chunk to the vector's
beginning whatever the vector's size (`len`), and `ReceiveRaw` writes to a file whatever has arrived and takes a
complete write for a failure (`Socket.cpp:727`); both are modelled as they are.
In non-blocking mode `Receive(buf, len)` and `ReceiveToToken` use the last
chunk's count and character again. `ReceiveHttp` shares one timeout among its calls of `select`. A
stream that begins with two blank lines is cut by the code two characters
earlier than the model's representation shows; there the header is empty in
both.

### SocketHandle, HttpTransfer, WinInet

`SocketHandle` has several objects, each used by one thread, over one table of
descriptors (`desc`) whose lowest free number POSIX hands out next; standard
input may have been closed, so that 0 is a possible number. One step is one
system call with what the method does up to the next, and each call may fail.
`pc` is the place inside a method, `caller` the method that `CreateSocket` or
`DestroySocket` returns to. `owner`, `lost` and `doubtful` are history: whom a
socket was opened for, which open ones were given up, and whether a `close()`
reported an error after it released its number. Methods that only pass the
number on (`Bind`, `shutdown`, options) change nothing here and are left out.

`HttpTransfer` makes an object the local of a static function (`flow`, `step`)
while other threads use their objects freely. These functions call
`Connect(host, port)`, whose body exists on Windows only (`Socket.cpp:276-326`), so
a flow begins on Windows only. An exception at any step leads to `Leave`, the
unwinding that destroys the local. Lengths are in units: what precedes and
follows the file counts one each. The file may change between `fileSize` and
`open`. `fileSize` returns a DWORD as a `long` of the same width (`File.cpp:331`):
its result is negative from half of `Word` (2 GB) on, where adding it to a
`size_t` (`SizeT`) extends the sign (`HttpSocket.cpp:134`), and 0 for what no
DWORD but INVALID_FILE_SIZE holds.

`WinInet` is the other API of the same class: `at` runs through the calls, each
succeeding or failing, `handles` holds the open ones, and closing a handle
closes those opened from it. `Word` is where a DWORD wraps. The two APIs share
nothing, so a behaviour uses one of them (`api`).

### Log

A statement `log << logLock << a << b << logMsg` takes the mutex at `logLock`,
streams its operands into the one `m_buffer` and writes the buffer out at
`logMsg`; a call (`write`, `error`, ...) formats into a stream of its own and
holds the mutex across `output()`. Either is numbered when it begins. `outer`
and `inner` are the statement and the call a writer is in; an operand may make
such a call, which on the pthread build waits for its own thread and on the
other one enters the critical section again (`depth`). Each load of `fp_stream`
in `_output()` is a step, and so is each access of `SetLog`, which takes no
lock. Streams are numbered; a deleted one stays so, and using it or NULL is
`crashed`. `sink` is what was written to the console (0) and to each file, as
tokens for the head and the text of a line.

### XmlReader and XmlTree

A document is a sequence of characters. `getTag` is one step that may be told
any offset the parser handed out before, which is what the parser's skipped
seek (`XmlParser.cpp:54`) relies on; `position` is the parser's count and `real`
where the FILE stands. A `readerVars` step of the tree must be a `GetTag` of an
offset handed out (`AsksKnownOffsets`), so what is proved of the reader holds
under the tree. `XmlTree` keeps a stack of frames for the recursive calls, and
each frame remembers its place in `parse`, `parseSub`, `parseOne` or `getNext`.
A user may call `parse`, `getNext`, `getNextTag`, `unParse` and `reParse` on any
entity. `parseOne` and `parseSub` are called by these only. `createInstance` is
on a freshly opened file. `getTag` gives one of four things (`Kinds`): a tag, a
literal, NULL, or the exception that `at()` throws out of `parseTag` and that ends
every call in progress; the entities stay as they were but for the position of the
one being read. What `parseTag` refuses (`Refused`: `<>`, and a name or an argument
of `Oversized`, which fills its buffer of 512) and what it throws on (`Throws`: a tag
with no name, `</>` or `< >`, and one that ends in an argument of `Unended`, a
backslash) is decided from the characters between the brackets, of which a name and
an argument are one each. A refused tag's entity is deleted before its error string
is read (`XmlParser.cpp:132-133`); the model has the read do no harm. `subTags()`,
whose loop does not end on a child with content, is left out.

### XmlTagText

One character a step, through the four modes of the loop, with `string::at`
throwing where it does. `Limit` is the code's 511. A tag (`isTag`) is a record
of what its writer meant with its text and where in the text its name and each of
its arguments end, so that the result can be compared with what was meant.

### Binder

A file is a sequence of words. The writer's whole `write()` and the reader's
whole `parse()` run as steps per call of `File`. The writer may die at any
point: stdio's buffer is written out in order and `seek()` empties it, so the
file holds a prefix of header, stub and blocks, or all of them and the index up
to any word (`Crash`). A file that was written may then be cut anywhere (`Cut`).
The disk has room.

### C3dFile

One object is used for several files. A file is a record of what its writer
meant, and every word is stored in the file's byte order, so that a header word
or parameter that is not conformed has the wrong value. Units of the body are
named by their number; a key shows which units it was made from. At the end of
the file `fread` leaves what was there before. `m_validateLabels` is never
initialised, so it is either value. What the first n elements of a file mean, the
labels and the number of analog values they give, is part of the file (`isFile`,
`meaningAfter`), so that what was read can be compared with it after each
element. The application calls `parse` only after an
`open` that returned true, and may end the frames after any of them.

A file is what `parse` finds in it: the processor and the parameters are those
at byte 256 * `data`, where line 217 seeks, and the body stands where line 411
leads. Only for `data` = 2 is the first the block that the header names, so the
properties about content are stated for these files (`InOrder`), and the run has
one with 3, in which `parse` meets another processor's number and an offset that
leads back. A parameter without a name in a group that has one ends the program
if `readParam` compares the name (`nullCompared`, `Crash`, the state `crashed`).
Counts that are signed in the code are taken as not negative. The bytes
of floats, the rounding of the rate and the debug output are left out, and so is
the array of words that `readParam` (731) never frees.

## 3. Runs

Distinct states are those of one run of TLC with the files as they are.

| Run | Configuration | Properties | States | What it shows |
|---|---|---|---|---|
| Worker | `MCWorker.cfg` | `TypeOK`, `NoUseAfterFree`, `NoneLeaked`, `InOrder`, `UniqueInQueue`, `Implements`, `Served`, `Leaves` | 476,874 | Two clients and the run() thread on both builds, every control method: commands are neither leaked, doubled, reordered nor used after their deletion, the worker implements CommandQueue, a terminated or stopped worker leaves run(), and on the event build no notification is lost. |
| WorkerLostWakeup | `MCWorkerLostWakeup.cfg` | `ServedAlways` | fails, as expected | On the pthread build a notification between get() and wait() is lost and the command it announced waits for ever. |
| WorkerTerminate | `MCWorkerTerminate.cfg` | `TerminateFinishes` | fails, as expected | terminate() right after an enqueue: run() can end without executing the command. |
| ListenThread | `MCListenThread.cfg` | `JoinWaits`, `AtMostOneLate`, `StopNoticed` | 66,640 | Both classes on both builds: on the pthread build join() and isRunning() never report a thread gone that still runs, and on either a stop that is not overwritten is followed by one connection at most, counted from the call, and, if it reaches the loop, ends the thread. |
| ListenStop | `MCListenStop.cfg` | `StopStops` | fails, as expected | A stop set before the thread assigns RUNNING is overwritten, and the thread listens on for ever. |
| HttpSocket | `MCHttpSocket.cfg` | `InBounds`, `ReceivedIsSent`, `TokenIsLast`, `PutWhole`, `SplitAtBlankLine`, `NeverOverreads`, `CompleteBody`, `Returns` | 1,532,722 | Every stream of up to four bytes, cut by the network in every way, in both modes, ended or broken anywhere, and two calls of any of the methods in a row: what a method returns is what was sent. |
| XmlTree | `MCXmlTree.cfg` | `ReadsWhereAsked`, `TreeIsDocument`, `ErrorsMeanBroken`, `IndexInRange`, `NoElementSkipped`, `AsksKnownOffsets`, `CallsReturn` | 112,516 | Every document of up to three pieces, every balanced one of up to six and one with a loose ">" in its text, from a file and from a string, and two calls of any operation on any entity. Among the pieces are tags that the parser refuses and tags it throws on. The tree is the document's wherever every tag fits the parser, and the parser reads where it is asked to although it rarely seeks. |
| XmlTagText | `MCXmlTagText.cfg` | `InBounds`, `TagReturns` | 280,160 | Every text of up to five characters and every tag of up to two arguments, with and without quotes, through buffers of five: none is written past its end, and a tag that fits comes back as it was meant. |
| Binder | `MCBinder.cfg` | `RoundTrip`, `WrongFileUntouched` | 2,978,416 | Every list of up to three blocks and NULLs, every version and wildcard, the file whole, cut anywhere or left by a writer that died anywhere: the handlers get the blocks that were written, and nothing of a file that is not theirs. |
| Log | `MCLog.cfg` | `BufferPrivate`, `LinesWhole`, `LineComes` | 505,826 | Two threads log by statements and calls, nested ones too, while a third redirects the log, on both builds: the shared buffer never mixes two statements, a line no SetLog overlapped comes out whole, once and where it should, and a statement ends unless it waits for its own lock or SetLog deletes the stream it writes to. |
| C3dFile | `MCC3dFile.cfg` | `FramesAreTheirs`, `LocatorsComplete`, `NothingLeft`, `ParseReturns` | 4,328 | One object parses any two of thirteen files, refused, cut, out of order, with parameters elsewhere than in block 2 or without names, or whole, and is told to stop after any frame: keys carry their own frame's bytes, locators this file's labels, and nothing stays open or allocated. |
| HttpTransfer | `MCHttpTransfer.cfg` | `ClosesOwn`, `NothingLost`, `RequestWhole` | 3,978,982 | Two threads create, connect, accept, destroy and lose sockets, or send and fetch files on them or by WinInet, every system call succeeding or failing: an object closes only its own socket, what an exchange opened is closed on every path but the excepted ones, and a request for a file of less than 2 GB is as long as it says. |

Why the bounds are enough. Worker: two clients make every pair of methods
overlap with each other and with `run()`; three commands give two that the
runner may have taken or left while a third is added; two control calls give a
pause and a stop, a terminate and a stop, two clears. Listen: three peers with
a backlog of two reach the full backlog, one connection in hand and one late;
two starts cover a reused object. Sockets: four bytes hold a header, its end
and body on either side of the length, with buffers of two so that every loop
turns, a `RECEIVE_BUFF_SIZE` of three makes vectors of none and one too small for a
chunk and one of two large enough, and a file of three makes `PutFile` read twice; two calls show what one
leaves to the next. Exchanges: two objects and four descriptors are what it
takes for one object's stale number to become the other's socket; with a
`Word` of four, files of up to three units have lengths that are exact (0, 1),
negative (2) and measured as 0 (3), and the sum over WinInet wraps; a `SizeT` of
eight is the wider `size_t`. Log: two writers and three statements give one that
streams, one that calls from inside it and one that competes; one `SetLog`
after the constructor's stream replaces, fails and deletes at every point of a
line. Xml (`MaxPieces` 2, `MaxTags` 5, `MaxCalls` 2): every document of a tag
and two more pieces, broken ones included (`<`, `<>`, `</>`, `</b/>`, a name of 512
characters, an argument that ends in a backslash), and longer balanced ones for depth
three; two calls for the cursors one leaves to another. Binder: a NULL can come
before, between and behind two blocks, and a crash can fall into any of three
lines; of the two types one is 0, which is what a line never written holds. C3d: the thirteen files
take every branch of the parameter loop, and two parses show what the first
leaves behind; all three byte orders would differ from Intel only as SGI does,
since DEC words are stored as Intel's.

Deadlock is checked in HttpTransfer only, where a thread can always go on; in
the other runs the callers may stop calling.

### Disagreements found

Three runs state what the sources say, and TLC refutes each with a history:

* **WorkerLostWakeup**, `ServedAlways` (`include/peel/Worker.h:167`). runone() takes
  nothing from the queue (154), then calls wait() without the mutex held and
  without looking again; a notify() of enqueue() in between reaches nobody,
  since pthread_cond_signal wakes only a thread that already waits
  (Lock.h:168-173, 196-202). Worker.h:21-22 says: "If the queue empties, the
  worker will block until a new entry is added." In the run the entry has been
  added and the worker blocks for ever.
* **WorkerTerminate**, `TerminateFinishes` (`include/peel/Worker.h:160`). run()
  finds the queue empty in get(), a client then enqueues a command and calls
  terminate(), and runone() sees TERM with its stale NULL, sets END and returns;
  run() skips the draining loop and clear() deletes the command unexecuted.
  Worker.h:84 says of terminate(): "Finish all tasks".
* **ListenStop**, `StopStops` (`src/ListenThread.cpp:22`). stopListening()
  called after start() and before operator() assigns m_status=RUNNING is
  overwritten by that assignment, and the loop runs on. ListenThread.h:34 says
  of stopListening(): "Stop the thread".
Others were met while modelling, and are described under "hazards" in
PROJECT.json; the models do what the code does, and the properties except them
by name:

* Thread and ListenThread: `join()` on Windows (`Thread.h:67`).
* Log: `SetLog` takes no lock although Log.h:42 says "All output is thread
  safe": it may cut a line in two files or delete the stream under a line
  (`Killed`); on the pthread build an operand that logs waits for its own thread
  (`SelfLocked`).
* Socket handles: a `close()` that reports an error keeps `m_socket`, which the
  destructor closes once more (`doubtful`); a failed `Connect` forgets the open
  descriptor (318, 370) and 0 is taken for no socket (97) (`lost`). `Connect(host,
  port)` goes on with `result->ai_next` again and again (312-313) and so tries
  the second address for ever, although the comment at 280-282 says of the
  results "for which each are tried to connect to".
* Socket transfers: the non-blocking `Receive(buf, len)` that counts its last
  chunk twice (`Socket.cpp:665`), `ReceiveRaw` that fails on a complete write
  (727), and `Receive` into a vector, which keeps only the last chunks' bytes and
  copies up to `RECEIVE_BUFF_SIZE - 1` of them to `data.begin()` whatever
  `data.size()` is (761-765): a smaller vector is written past its end, what
  follows is left open (`VectorChunk`), and `InBounds` is about the others.
  `SendGetInet` does the same with each read (`HttpSocket.cpp:396`), which is not
  modelled; nor is the write to `c[-1]` after a failed `recv` in `ReceiveHeader`
  (`HttpSocket.cpp:513`), on which no result here depends.
* Exchanges: `GetFileInet` leaves its file open on every error, and all handles
  after a failed read; `SendFile` waits for a reply to a request it did not send
  when the file cannot be opened; a file that changes after it was measured is
  announced with the wrong length, and so is any file of 2 GB or more, whose size
  is a negative `long` or 0 (`File.cpp:331`, `HttpSocket.cpp:134`): `RequestWhole`
  is about smaller ones there, over WinInet about requests below 4 GB.
* Binder: `File::write` without its last argument (`File.h:79`) writes size*size
  bytes on POSIX (`File.cpp:207-208`). `BinderParser` always passes it; a user's
  block that does not is outside the model.
* Binder: after a NULL, `write()` looks up `offsets[i]` (204) by the entry's
  number although nothing was pushed for it (169-170, "Skip null entries"): each
  block gets the next one's offset and the last read is past the vector's end. A
  line torn by a crash leads a handler to the file's header, and one
  never written to the handler of type 0, if there is one.
* C3D: `parse` seeks to byte `param_data_offset*256` (`c3dFile.cpp:217`), which is
  block n, byte (n-1)*512 as line 411 has it, only for n = 2; the NULL that stands
  for no name is compared (583, 603, 615, 649, 716); the analog times of files of words with a timecode (`c3dFile.cpp:505`),
  analog words in the SGI order (504), the scale and the timecode that one file
  leaves to the next.
* Xml: `unParse` on self-closing tags (`xmltag.cpp:244`). `parseTag` neither
  unescapes a quote nor keeps an argument without a value; `TagReturns` is about
  tags that have none of either. It refuses a tag as soon as a name or a value has
  filled 511 characters and the tag goes on (356-360), so that `parse()` ends in an
  error on a well-formed document with a longer one; and `at()` throws on a tag
  without a name and behind a backslash that ends it (349-354, 445).
  `TreeIsDocument` and `ErrorsMeanBroken` are about documents without such tags
  (`Fits`, `WholeTags`).

## 4. Fairness

* Worker: weak fairness of each step of `run()` and of the rest of each client's
  call: threads are scheduled and locks are given to somebody. Nobody is obliged
  to begin a call. The execution of a command ends.
* ListenThread: weak fairness of the thread's steps, of the store of the handle
  and of the return of `join()`. No peer need connect, `accept` need not fail,
  and the owner need not stop anything.
* Sockets: weak fairness of the method that is running. The network owes
  nothing: `Returns` begins with the end of the connection.
* Log: weak fairness of each writer inside a statement. Nobody need begin one,
  and nobody need call or finish `SetLog`. Weak fairness is enough for the mutex
  because finitely many statements compete for it.
* XmlTree, C3dFile: weak fairness of a call that has begun.

These are what a scheduler gives a runnable thread; there is no strong fairness.

## 5. Proofs

All theorems hold for every value of the constants that satisfies the named
assumptions of the modules, which TLC evaluates in the runs.

**Worker** (`WorkerProofs`, for any clients, commands, control calls and either
condition). The safety invariants are not inductive by themselves. `IInv` is the
conjunction of

* `TypeInv`: types, and that a client holds a command exactly while it adds it;
* `LockInv`: who is inside a critical section is the holder of `mListMutex`;
* `OrderInv`: tickets in the queue ascend, lie above all those executed and in
  hand, and belong to the commands in it;
* `FreeInv`: deleted, queued, held and fresh commands are disjoint, but for the
  queue inside `clear()`, and whatever was added is in one of these places.

`LockInv` is what makes the steps of a critical section safe, `OrderInv` needs
both, and `FreeInv` all three. From `IInv` follow `TypeCorrect`,
`ExecutedInOrder`, `NoCommandUsedAfterFree` and `NoCommandLeaked`.

`WorkerImplementsQueue` is the refinement: with `pending` as the queued
commands not yet deleted and `running` as the command in `execute`, each step of
the worker is a step of `CommandQueue` or leaves its variables alone.
`UniqueStaysUnique` follows from the scan and the push being one critical section.

**ListenThread** (`ListenThreadProofs`, for any number of peers, any backlog and
any bounds). That `join()` waits is a statement about `m_handle`, which is
stored late and cleared by the thread, and so depends on everything before it:
`FlagsOK` (which control points a flag is set at), `ConnInv` (there is a
connection in hand exactly between `Accept` and `Disconnect`, on which
`OneConnection` rests), `JoinInv` (a handle seen as 0, or a join that returned,
means the thread has reached its end and will not run on) and `LateInv` (after
a stop the thread has handed over nothing, or is past its last test). From
these `JoinWaitsForThread` and `OneLateAtMost`.

**SocketIO, HttpSocket** (`HttpSocketProofs`, for any alphabet, stream, file and
buffer). All the loops copy a segment of the stream to memory, so the central
part is `ReceiveInv`: memory is the segment from `base` to `taken`, as far as a
blocking call has got. `StreamInv` orders `base`, `taken` and `arrived`;
`CounterTypes`, `TokenInv` and `PutInv` relate each loop's counters to it,
`VectorInv` bounds what one `recv` stores in a vector;
`CutInv` says that header and data together are the segment and where the
header ends, and `BodyInv` that fewer bytes than announced were taken as long
as the loop goes on. The theorems are `StoresInBounds`, `ReceivesWhatIsSent`,
`StopsAtToken`, `PutsWholeFile`, `CutsAtBlankLine`, `StopsAtLength` and
`ReadsWholeBody`. `Segment`, `SegmentAppend` and `StoreSegment` are the facts
about sequences that they share.

**SocketHandle, HttpTransfer, WinInet** (`HttpTransferProofs`, for any objects,
descriptors, file lengths, `Word` and `SizeT`). `ObjectsCloseTheirOwn` is not inductive:
a number is safe to close only because nobody else can hold it. `HeldInv` says
so of every object and control point, `SocketsHeld` that each open descriptor
is held or counted as lost, `PointInv` and `ZeroInv` where `m_socket` may still
name a closed descriptor or 0 stand for none. `FlowInv` adds the place of a static function inside the calls it makes of its
local, and the length it has still to send (`Sending`); `InetInv` does the same
for the handles (`PathInv`) and the bytes (`AmountInv`) over WinInet. From these
`NothingIsLost` and `RequestsAreWhole`, which is about files whose size a `long`
holds (`Announced`).

**Log** (`LogProofs`, for any threads, either build and all bounds). What the
buffer holds depends on who holds the lock, so `BufferPrivate` is not inductive.
`IInv` is the conjunction of

* `TypeOK`;
* `PlaceInv`: the statement and the call a thread is in, by its control point;
* `LockInv`: who is between its first lock and its last unlock is the holder,
  and has entered as often as it is in a statement and a call (`Level`);
* `NumberInv`: no two threads are in the same statement;
* `BufferInv`: from `logLock` to the clearing of the buffer it holds what the
  holder's statement was given, and otherwise nothing.

`LockInv` needs `PlaceInv`, since a thread that ends a nested call must still
hold the lock, and `BufferInv` needs both and `NumberInv`, since a new statement
must not touch the text of one under way. From `IInv` follow `TypeCorrect` and
`BufferStaysPrivate`.

`LinesStayWhole`, which puts the tokens of a line next to each other in the right
sink although every token is a step of its own, needs `LInv`, which adds

* `IdInv`: the number of a statement or call is never used again;
* `StreamInv`: while no `SetLog` is under way, `fp_stream` and the stream it
  names agree with the sink chosen last;
* `LineInv`: of a statement no `SetLog` overlapped, the sink chosen for it holds
  just what its thread has written by its control point (`Stage`: nothing, the
  head as the last token, or the whole line), and no other sink holds any of it.

That the head stays the last token until the text follows is what the lock is
for: `LockInv` has no other thread in `_output()`.

**XmlReader, XmlTree** (`XmlProofs`, for every document and every order of
calls). `RInv` is the types with `Synced`: an offset handed out is never ahead
of the parser's count, and one level with it is where the FILE stands or the end
that was met. It implies that reading starts at the offset that was asked for
(`StartsAtOffset`), with or without the seek, which gives `ReadsTrue`. For the
tree, `TInv` adds `EntInv` (what each entity remembers: its children come after
it, its offset is one handed out, and `m_inserted`, which `unParse` leaves behind,
is stale only while the entity is ready and stands before a child, `ChildAhead`,
with no more between than blanks and the tags that leave an entity ready without a
child: those `parseTag` throws on, and `</b/>`, `Quiet`)
and `CallInv` (how a frame's entity and place fit the frame under it). With them
each step of the tree is a call the reader allows or leaves it alone
(`TreeAsksKnownOffsets`, the refinement of the reader), so that what was proved
of the reader holds under the tree (`TreeReadsTrue`); and
`IndexStaysInRange`, which `unParse` makes anything but obvious.
`NoElementIsSkipped` is an action property and needs `NInv`: the calls in
progress are for entities further and further down, and a `getNext()` that has
called another waits in `parseSub()` (`NestOK`); and an element a `getNext()` has
come upon is the last child, its parent not ready until the return, and read by
then (`SkipOK`). The document is
any sequence here (`TreeSpec`), where the run takes a bounded set of them.

`TreeBecomesDocument` and `NoErrorIsInvented` compare the tree with the document.
What a document means is said by its brackets alone, without recursion: the
depth from i to j is a count of opening tags less a count of end tags, an
element ends at the first place where its own depth is 0, and a child of it is
what starts inside it and inside no element within it. That the counts add up over
stretches (`DepthSplit`), that tags and elements lie apart or one in the other,
and that a least place always exists (`Smallest`) take the place of induction
over the document. Then, as long as the document is well-formed, every tag of it
one that `parseTag` takes (`Fits`; `TagsTaken` turns it into neither a refusal nor
an exception), and nothing `stray` was done, `DInv` holds:

* `TagDoc`: what a tag of the tree holds for good is what its bracket says;
* `KidsDoc`: its children are the document's as far as it was read, in order. It
  goes on between two of them (`Level`) or, when not ready, waits for its last
  child (`Waiting`); complete, it has them all; an error it has only without any;
* `FrameDoc`, `CallersOK`: which state of its entity a call in progress finds, and
  who calls whom;
* `Awaited`: an element that is not ready has a call in progress that will make it
  so. Between the user's calls, therefore, every element can be read on;
* `SubCalls`, `TopDoc`: a `parse()` that `parseSub()` called reads its parent's last
  child from the beginning (`Fresh`), so that the child's end is where the parent
  goes on. That is what makes the move of the parent's `m_pos` (199) right.

`NextIsChild` and the lemmas beside it turn one `getTag` into one child more or the
end of the element (`ParseOneDoc`); `SubDoneDoc` and `ParseReturnsDoc` are the
return to the parent. A ">" in the text is no end of a tag: a literal starts
behind the end of a tag, which the definition of `Starters` has to say.

**XmlTagText** (`XmlProofs`, for every text, every tag and every limit).
`TagBuffersHold`: `InBounds` with the buffers' types is inductive, because one
turn tests all three indices and adds at most one to each. `TagsComeBack` needs
to know in each mode how the index stands to the ends of the tag's parts:
`Cut` that the slashes were taken off as they were meant, `AtNode`, `AtBlank`,
`AtName` and `AtValue` that the characters behind the last end but one are the
beginning of the name, or of the next argument's name or value, that the buffers
hold, `Kept` that the arguments before it are in `m_arguments`. A value without
quotes that is the text's last part is kept by `End`, all others by the blank or
the quote behind them; that is where the cases meet. Texts are cut and joined by
place only (`Piece`, `Join`), without induction.

**Binder** (`BinderProofs`, for any types, versions, wildcard, number and length
of blocks). `HeaderInv` says that the words of the header that are in the file
are those `write()` put there, since whatever else is written goes behind them,
and `ParseInv` that past `parseHeader` they were read and compared, and past
`parseIndex` the index is there: `WrongFilesStayUntouched`. For
`BlocksComeBack` the invariant has to follow a block from where it is written to
the call that reads it: `WriteInv` (every offset kept by `write()` has its block
behind it; the lines before `item` are whole and the others zero), `LeftInv`
(after the writer's end, however it came, some n lines are whole, the next may
be half written and the rest are not, and what was handed on so far is what
these lines say) and `ReadInv`. `Crash` is the hard step: where the write was cut
gives n. Lists without a NULL only, as the property.

**C3dFile** (`C3dFileProofs`, for any files, their parameters of any kind and
number, any rate and any number of parses). `FileInv` says which element the loop
reads: the one at the stream's position, or again the last one. `NamesInv`, which
counts the groups that have a name, gives `NothingIsFreedTwice` for every file.
`NothingIsLeft` assumes `NamesOnce` of the files, which TLC evaluates for those of
the run: a group that is named twice overwrites the name it had (319), and a named
element with the number 0 keeps its name (331), so without it the statement is
false. `MeansInv` is the invariant of the parameter loop for a file in order, its
parameters in block 2 and each group before its own: the
groups read so far have their names and the members are what the elements so far
mean. An element either says nothing of labels and counts (`MeaningKept`) or is
read for the group it belongs to (`GroupKnown`, `ParamRead`, `MeaningRead`). From
it and `LocatorsInv` follows `LocatorsAreComplete`. `FramesInv`, that the stream is
at a multiple of the stride while the file has the bytes, rests on `SizesAgree`:
the sizes from the header, which conform put in order, and from the parameters,
which `MeansInv` knows, are those of the file; `FramesReadAreTheirs` follows.

`TypeCorrect` of Worker and Log are type invariants; in the other modules the
type invariant is the first part of the module's `IInv`, `RInv` or `TInv`, each
proved as a theorem. TLC has checked every one of these invariants on its run's
instance as well.

Only model-checked: the liveness properties (`Served`, `Leaves`, `StopNoticed`,
`Returns`, `CallsReturn`, `LineComes`, `ParseReturns`), which the prover does not
treat. Every other property of a passing run is stated by a theorem. The document
of a tree and the text of a tag are any here; what the reader of a document would
define by recursion is given place by place, so that nothing needs induction over
data.

## 6. Not modelled

`getArg`'s conversions, the formatting of requests, addresses, errors, base64
and URLs and the conversion of floats are functions of their arguments without
state. `Signal` is used by nothing. The datagram methods pass one call on. The
timed waits of `Condition` and `subTags()` are called by nothing in the library.
`Thread::terminate` and `detach` leave a state the header calls undefined.
`File::fileSize`'s own handle, which it leaves open when the size cannot be read
(`File.cpp:326-328`), the CreateFile build of `File` and its other widths, and
the `SendFile` of an `HttpSocket` object (69-90), which sends a header only, are
left out too. The wrappers of single system calls in `WinUtil` and `UnixUtil`
are I/O.

## 7. Plan

Written in this order, most important first: Worker with its abstract queue and
proofs; ListenThread and Thread; the socket loops and HTTP; the XML reader, tree
and tag text; the binder; the C3D reader; then Log with its proofs, the life of
socket handles, the exchanges over them and over WinInet, and the crash of the
binder's writer. To come:

* Util's URL and base64 coders against reference definitions, and the C3D float
  conversions.
