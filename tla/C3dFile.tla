------------------------------ MODULE C3dFile -------------------------------
(* A c3dFile object (c3dFile.h, c3dFile.cpp) that its application uses for   *)
(* one file after the other: open reads the header, parse reads the          *)
(* parameter section an element at a time, announces a locator for each      *)
(* label, and reads the body a frame at a time, handing the keys of each     *)
(* frame to the application's addKey and addAnalogKey.                       *)
(*                                                                           *)
(* The body is a sequence of units, the size of a coordinate of a marker or  *)
(* of an analog value (both four bytes, or both two), and a unit is named by *)
(* its number, so that a key shows which bytes of the file it was read from. *)
EXTENDS C3dParams, FiniteSets

CONSTANTS
  Files,      \* the files the application may open
  Rate,       \* their frame rate, a multiple of each standard of theirs
  MaxParses,  \* calls of open
  MaxNames    \* names allocated at a time

ASSUME C3dAssumption ==
  /\ \A f \in Files : isFile(f)
  /\ Rate \in Nat /\ MaxParses \in Nat /\ MaxNames \in Nat

None == [proc |-> 0]
NoName == ""
Ids == 1..128           \* m_groups[-id]: a signed char

VARIABLES
  pc,          \* where the object's calls are
  file,        \* the file of the last open
  isOpen,      \* m_file is an open stream
  header,      \* m_header
  m,           \* the members the parameters set
  validate,    \* m_validateLabels
  groups,      \* m_groups: a function on the ids whose name is not NULL
  names,       \* names allocated and not freed
  next,        \* the element at the stream's position
  pos,         \* units of the body before the stream's position
  frame,       \* frame_n
  buffer,      \* dat_marker and dat_analog: the unit each cell holds
  locators,    \* the application's, created in this parse
  keys,        \* the keys it was given for the last frame
  parses

members == <<header, m, validate>>
section == <<groups, names, next>>
body == <<pos, frame, buffer>>
client == <<locators, keys>>
vars == <<pc, file, isOpen, members, section, body, client, parses>>

-----------------------------------------------------------------------------
Garbage == 0

(* The header as the file stores it, its words in the file's byte order.     *)
rawHeader(f) ==
  [data |-> f.data, float |-> f.float,
   markers |-> OnDisk(f, f.markers), channels |-> OnDisk(f, f.channels),
   perFrame |-> OnDisk(f, f.perFrame), first |-> OnDisk(f, f.first),
   last |-> OnDisk(f, f.last), body |-> OnDisk(f, f.body)]

\* A mutant: the body's position stays in the file's order.
FaultyConformed(h, proc) ==
  [h EXCEPT !.markers = conform(@, proc), !.channels = conform(@, proc),
            !.perFrame = conform(@, proc), !.first = conform(@, proc),
            !.last = conform(@, proc)]

conformed(h, proc) ==
  [h EXCEPT !.markers = conform(@, proc), !.channels = conform(@, proc),
            !.perFrame = conform(@, proc), !.first = conform(@, proc),
            !.last = conform(@, proc), !.body = conform(@, proc)]

unitsPerBlock == IF header.float THEN 128 ELSE 256

markerUnits == 4 * header.markers
analogUnits == header.perFrame * m.analogFrames

(* fread into a buffer: the cells of what the file does not have keep what   *)
(* they held.                                                                *)
readInto(cells, at) ==
  [i \in DOMAIN cells |-> IF at + i <= file.units THEN at + i ELSE cells[i]]

past(at, size) ==
  IF at + size <= file.units THEN at + size
  ELSE IF at <= file.units THEN file.units ELSE at

empty == [markers |-> <<>>, analogs |-> <<>>]
noKeys == [points |-> {}, analogs |-> {}]

Init ==
  /\ pc = "idle" /\ file = None /\ isOpen = FALSE
  /\ header = None /\ m = Fresh
  /\ validate \in BOOLEAN                  \* the constructor leaves it unset
  /\ groups = <<>> /\ names = 0 /\ next = 1
  /\ pos = 0 /\ frame = 0 /\ buffer = empty
  /\ locators = {} /\ keys = noKeys
  /\ parses = 0

(* c3dFile::open.  A file without the key 0x50 is closed again. *)
Open(f) ==
  /\ pc = "idle" /\ parses < MaxParses
  /\ file' = f /\ header' = rawHeader(f)
  /\ isOpen' = f.isC3d
  /\ pc' = IF f.isC3d THEN "opened" ELSE "idle"
  /\ parses' = parses + 1
  /\ UNCHANGED <<m, validate, section, body, client>>

(* parse, up to its loops: the counters and the subjects start again, the    *)
(* header is put in the order of the processor found at byte 256 * data,     *)
(* behind which the elements are read; a file without parameters is closed.  *)
Begin ==
  /\ pc = "opened"
  /\ m' = [m EXCEPT !.analogFrames = 0, !.pointFrames = 0,
                    !.subjectNames = <<>>, !.subjectPrefixes = <<>>]
  /\ groups' = <<>> /\ next' = 1
  /\ locators' = {} /\ keys' = noKeys
  /\ IF header.data = 0
     THEN /\ isOpen' = FALSE /\ pc' = "idle" /\ header' = header
     ELSE /\ header' = conformed(header, file.proc)
          /\ pc' = "params" /\ isOpen' = isOpen
  /\ UNCHANGED <<file, validate, names, body, parses>>

(* What the freads of an element leave in the locals: past the end of the    *)
(* file, those of the element before, and nothing in the memory for a name.  *)
Unread == "unread"
element ==
  IF next <= Len(file.params) THEN file.params[next]
  ELSE LET e == file.params[Len(file.params)]
       IN  [id |-> e.id, name |-> IF e.name = NoName THEN NoName ELSE Unread,
            shape |-> e.shape, value |-> e.value, offset |-> e.offset]

(* next_offset <= 0 ends the section after this element. *)
FaultyEnds(e) == conform(OnDisk(file, e.offset), file.proc) >= 32768   \* a mutant: not 0
ends(e) == Closes(conform(OnDisk(file, e.offset), file.proc))

(* readParam compares the NULL of a parameter without a name. *)
nullCompared(e) ==
  /\ e.name = NoName /\ ~ends(e)
  /\ e.id \in DOMAIN groups /\ groups[e.id] # NoName
  /\ comparesName(groups[e.id], e.shape)

Crash ==
  /\ pc = "params" /\ nullCompared(element)
  /\ pc' = "crashed"
  /\ UNCHANGED <<file, isOpen, members, section, body, client, parses>>

(* The name of a group, or of a parameter with the number 0, stays allocated. *)
FaultyStays(e) == e.name # NoName /\ e.id \notin DOMAIN groups   \* a mutant
stays(e) == e.name # NoName /\ e.id <= 0

(* One turn of the parameter loop: a group is named, a parameter of a named  *)
(* group is read and its own name is freed.                                  *)
Element ==
  /\ pc = "params" /\ names < MaxNames
  /\ ~nullCompared(element)
  /\ LET e == element
         nameless == e.name = NoName
     IN  /\ IF ends(e) /\ nameless
            THEN UNCHANGED <<m, groups, names>>
            ELSE IF e.id < 0
            THEN /\ groups' = [i \in DOMAIN groups \cup {-e.id} |->
                                 IF i = -e.id THEN e.name ELSE groups[i]]
                 /\ names' = names + (IF stays(e) THEN 1 ELSE 0)
                 /\ m' = m
            ELSE /\ m' = IF e.id \in DOMAIN groups
                         THEN readParam(m, file, groups[e.id], e, validate)
                         ELSE m
                 /\ names' = names + (IF stays(e) THEN 1 ELSE 0)
                 /\ groups' = groups
         /\ pc' = IF ends(e) THEN "locators" ELSE "params"
  /\ next' = next + (IF next <= Len(file.params) THEN 1 ELSE 0)
  /\ UNCHANGED <<file, isOpen, header, validate, body, client, parses>>

(* createLocator for the labels, then without a name up to the header's      *)
(* count.                                                                    *)
locatorsFor(labels, count, isPoint) ==
  {[i |-> i, name |-> labels[i + 1], isPoint |-> isPoint] : i \in 0..(Len(labels) - 1)}
    \cup {[i |-> i, name |-> NoName, isPoint |-> isPoint] : i \in Len(labels)..(count - 1)}

(* Between the loops: the timecode's offset if the caller wants it and the   *)
(* file uses one, the locators, the position of the body and the buffers.    *)
(* The body is what stands where this seek leads.                            *)
SectionDone(useTimecode) ==
  /\ pc = "locators"
  /\ m' = [m EXCEPT !.timecodeOffset =
             IF useTimecode /\ m.used THEN offsetOf(m, Rate) ELSE @]
  /\ locators' = locatorsFor(m.pointLabels, header.markers, TRUE)
                   \cup locatorsFor(m.analogLabels, header.channels, FALSE)
  /\ pos' = (header.body - file.body) * unitsPerBlock
  /\ buffer' = [markers |-> [i \in 1..markerUnits |-> Garbage],
                analogs |-> [i \in 1..analogUnits |-> Garbage]]
  /\ frame' = 0
  /\ pc' = "frames"
  /\ UNCHANGED <<file, isOpen, header, validate, section, keys, parses>>

(* The keys of a frame, at times counted in units in which a second is       *)
(* Rate * FrameLength * perFrame.                                            *)
current == ((frame + header.first) * FrameLength + m.timecodeOffset) * header.perFrame

pointKeys(cells) ==
  {[i |-> k, time |-> current,
    data |-> [c \in 1..3 |-> cells[4 * k + c]]] : k \in 0..(header.markers - 1)}

(* Samples of a file of floats get the frame's time, those of a file of      *)
(* words their own, to which the offset is added as if it were seconds.      *)
analogTime(n) ==
  IF header.float THEN current
  ELSE ((frame + header.first) * header.perFrame + n) * FrameLength
         + m.timecodeOffset * Rate * header.perFrame

(* In a file of words the SGI order is applied to the pointer, not to what   *)
(* it points at: what is read then is anything.                              *)
analogData(cells, i) ==
  IF header.float \/ file.proc # Sgi THEN cells[i] ELSE Garbage

analogKeys(cells) ==
  {[i |-> c, n |-> n, time |-> analogTime(n),
    data |-> analogData(cells, n * m.analogFrames + c + 1)] :
      c \in 0..(m.analogFrames - 1), n \in 0..(header.perFrame - 1)}

moreFrames == frame < header.last - header.first + 1

(* One turn of the frame loop; frameDone may say that it was the last.       *)
Frame ==
  /\ pc = "frames" /\ moreFrames
  /\ LET points == readInto(buffer.markers, pos)
         after == past(pos, markerUnits)
         analogs == readInto(buffer.analogs, after)
     IN  /\ buffer' = [markers |-> points, analogs |-> analogs]
         /\ pos' = past(after, analogUnits)
         /\ keys' = [points |-> pointKeys(points), analogs |-> analogKeys(analogs)]
  /\ frame' = frame + 1
  /\ pc' \in {"frames", "finish"}
  /\ UNCHANGED <<file, isOpen, members, section, locators, parses>>

freed == Cardinality({i \in DOMAIN groups : groups[i] # NoName})

FaultyWithoutLabels == [m EXCEPT !.pointLabels = <<>>]           \* a mutant
withoutLabels == [m EXCEPT !.pointLabels = <<>>, !.analogLabels = <<>>]

(* The end of parse: the stream, the groups' names and the labels go. *)
Finish ==
  /\ pc = "finish" \/ (pc = "frames" /\ ~moreFrames)
  /\ isOpen' = FALSE
  /\ names' = names - freed
  /\ groups' = <<>>
  /\ m' = withoutLabels
  /\ buffer' = empty
  /\ pc' = "idle"
  /\ UNCHANGED <<file, header, validate, next, pos, frame, client, parses>>

Running == Element \/ Crash \/ (\E t \in BOOLEAN : SectionDone(t)) \/ Frame \/ Finish

Next == (\E f \in Files : Open(f)) \/ Begin \/ Running

(* A call of parse that has begun goes on; the application need not call. *)
Spec == Init /\ [][Next]_vars /\ WF_vars(Running)

-----------------------------------------------------------------------------
stride == 4 * file.markers + file.channels

inFrames == pc \in {"frames", "finish"} /\ InOrder(file)

(* Sizes from the header, from a parameter and from the scale's sign, the    *)
(* bytes' order and the position of the body come together right: for a file *)
(* in order, each frame the file has in full reaches the application with    *)
(* all its markers' and samples' keys and each key's data are its own bytes. *)
(* Excepted are analog words in the SGI order.                               *)
FramesAreTheirs ==
  inFrames /\ frame > 0 /\ frame * stride <= file.units =>
    LET start == (frame - 1) * stride
    IN  /\ {<<k.i, k.data>> : k \in keys.points} =
             {<<i, [c \in 1..3 |-> start + 4 * i + c]>> : i \in 0..(file.markers - 1)}
        /\ file.float \/ file.proc # Sgi =>
             {<<k.i, k.n, k.data>> : k \in keys.analogs} =
               {<<c, n, start + 4 * file.markers + n * AnalogUsed(file) + c + 1>> :
                  c \in 0..(AnalogUsed(file) - 1), n \in 0..(file.perFrame - 1)}

(* The application stores keys by locator: each key it is given is for a     *)
(* locator it was asked to create in the same call of parse, the locators of *)
(* each kind are numbered from 0 with no number twice, and they carry the    *)
(* labels of this file and of no file parsed before.                         *)
LocatorsComplete ==
  inFrames =>
    /\ \A k \in keys.points : \E l \in locators : l.isPoint /\ l.i = k.i
    /\ \A k \in keys.analogs : \E l \in locators : ~l.isPoint /\ l.i = k.i
    /\ \A l1, l2 \in locators : l1.isPoint = l2.isPoint /\ l1.i = l2.i => l1 = l2
    /\ \A l \in locators :
         LET labels == Labels(file, IF l.isPoint THEN "POINT" ELSE "ANALOG")
         IN  IF l.i < Len(labels)
             THEN l.name \in {labels[l.i + 1], Validated[labels[l.i + 1]]}
             ELSE l.name = NoName

(* Whatever way a file is refused or read, no name of a group or parameter   *)
(* is freed more often than it was allocated, and between calls no stream is *)
(* open and no name is still allocated.                                      *)
NothingLeft == names >= 0 /\ (pc = "idle" => ~isOpen /\ names = 0)

(* The elements of a file lose no name if each group is named once and no    *)
(* parameter with a name has the number 0.                                   *)
NamesOnce(f) ==
  \A i \in 1..Len(f.params) :
    /\ f.params[i].id = 0 => f.params[i].name = NoName
    /\ f.params[i].id < 0 => \A j \in 1..(i - 1) : f.params[j].id # f.params[i].id

(* A call of parse returns, for each file whose parameters end, or ends the  *)
(* program at a parameter without a name.                                    *)
ParseReturns ==
  (pc \in {"params", "locators", "frames", "finish"}
     /\ \E i \in DOMAIN file.params : Closes(file.params[i].offset))
    ~> pc \in {"idle", "crashed"}

=============================================================================
