----------------------------- MODULE C3dParams ------------------------------
(* What the parameter section of a C3D file means to c3dFile (c3dFile.h,     *)
(* c3dFile.cpp): the byte order of its words, the members that readParam     *)
(* and readLabels set, and the offset the timecode members give.             *)
(*                                                                           *)
(* A file is a record of what parse finds in it.  The processor and the      *)
(* parameters are those at byte 256 * data, where parse looks for them       *)
(* (c3dFile.cpp:217).  Only for data = 2 is that the block the header names, *)
(* (data - 1) * 512: in any other file they are whatever else stands there.  *)
(* A word is what conform makes of it; raw from the disk it is               *)
(* OnDisk(file, word).                                                       *)
EXTENDS Integers, Sequences

CONSTANTS
  Text,       \* the labels and names a file may hold
  Validated   \* [Text -> Text]: what the validation of a label makes of it

ASSUME TextAssumption == Validated \in [Text -> Text]

Intel == 1
Dec == 2
Sgi == 3

(* The two bytes of a word, exchanged. *)
Swapped(word) == (word % 256) * 256 + word \div 256

conform(word, proc) == IF proc = Sgi THEN Swapped(word) ELSE word

(* How a file of the given processor stores a word: what conform undoes. *)
OnDisk(file, word) == IF file.proc = Sgi THEN Swapped(word) ELSE word

(* The shapes readParam tells apart: bytes per element, dimensions. *)
Byte == <<1, 0>>
String == <<1, 1>>
Strings == <<1, 2>>
Word == <<2, 0>>
Words == <<2, 2>>

-----------------------------------------------------------------------------
(* The members c3dFile::c3dFile() initialises. *)
Fresh ==
  [analogFrames |-> 0, pointFrames |-> 0, scaleValue |-> 1, units |-> "",
   used |-> FALSE, dropFrame |-> FALSE, fieldNumbers |-> <<>>,
   standard |-> 30, subFramePerSample |-> 0, offset |-> 0,
   timecode |-> <<0, 0, 0, 0>>, timecodeOffset |-> 0,
   pointLabels |-> <<>>, analogLabels |-> <<>>,
   subjectNames |-> <<>>, subjectPrefixes |-> <<>>]

(* readLabels: the strings of a parameter, validated if the member says so. *)
readLabels(labels, validate) ==
  IF validate THEN [i \in DOMAIN labels |-> Validated[labels[i]]] ELSE labels

standardOf(name, old) ==
  CASE name = "NTSC" -> 30
    [] name = "PAL"  -> 25
    [] name = "FILM" -> 24
    [] OTHER         -> old

scaleOf(units, old) ==
  CASE units = "m"  -> 1000
    [] units = "cm" -> 10
    [] OTHER        -> old

(* A matrix of words as readParam has it after its one call of conform,      *)
(* which reaches the first word only.                                        *)
matrixOf(file, words) ==
  [i \in DOMAIN words |->
     IF i = 1 THEN conform(OnDisk(file, words[1]), file.proc)
     ELSE OnDisk(file, words[i])]

TimecodeWords(m, name, v) ==
  CASE name = "FIELD_NUMBERS"     -> [m EXCEPT !.fieldNumbers = @ \o v]
    [] name = "SUBFRAMESPERFRAME" -> [m EXCEPT !.subFramePerSample =
                                        IF Len(v) = 1 THEN v[1] ELSE @]
    [] name = "OFFSETS"           -> [m EXCEPT !.offset =
                                        IF Len(v) = 1 THEN v[1] ELSE @]
    [] name = "TIMECODES"         -> [m EXCEPT !.timecode =
                                        IF Len(v) = 4 THEN v ELSE @]
    [] OTHER                      -> m

UsedWord(m, group, v) ==
  CASE group = "ANALOG"   -> [m EXCEPT !.analogFrames = v]
    [] group = "POINT"    -> [m EXCEPT !.pointFrames = v]
    [] group = "TIMECODE" -> [m EXCEPT !.used = (v = 1)]
    [] OTHER              -> m

LabelNames == {"LABELS", "LABELS2"}    \* memcmp looks at six characters

(* The parameters whose name readParam compares, whether there is one or not. *)
comparesName(group, shape) ==
  \/ shape \in {Strings, Word}
  \/ shape \in {Byte, Words} /\ group = "TIMECODE"
  \/ shape = String /\ group \in {"TIMECODE", "POINT"}

(* readParam: the members after the parameter `e` of a group of that name.   *)
readParam(m, file, group, e, validate) ==
  CASE e.shape = Byte /\ group = "TIMECODE" /\ e.name = "DROP_FRAMES" ->
         [m EXCEPT !.dropFrame = (e.value = 1)]
    [] e.shape = String /\ group = "TIMECODE" /\ e.name = "STANDARD" ->
         [m EXCEPT !.standard = standardOf(e.value, @)]
    [] e.shape = String /\ group = "POINT" /\ e.name = "UNITS" ->
         [m EXCEPT !.units = e.value, !.scaleValue = scaleOf(e.value, @)]
    [] e.shape = Strings /\ group = "POINT" /\ e.name \in LabelNames ->
         [m EXCEPT !.pointLabels = @ \o readLabels(e.value, validate)]
    [] e.shape = Strings /\ group = "ANALOG" /\ e.name \in LabelNames ->
         [m EXCEPT !.analogLabels = @ \o readLabels(e.value, validate)]
    [] e.shape = Strings /\ group = "SUBJECTS" /\ e.name = "LABEL_PREFIXES" ->
         [m EXCEPT !.subjectPrefixes = @ \o readLabels(e.value, validate)]
    [] e.shape = Strings /\ group = "SUBJECTS" /\ e.name = "NAMES" ->
         [m EXCEPT !.subjectNames = @ \o readLabels(e.value, validate)]
    [] e.shape = Word /\ e.name = "USED" ->
         UsedWord(m, group, conform(OnDisk(file, e.value), file.proc))
    [] e.shape = Words /\ group = "TIMECODE" ->
         TimecodeWords(m, e.name, matrixOf(file, e.value))
    [] OTHER -> m

(* A frame's length in the whole numbers that stand for times: 1000/1001 of  *)
(* a whole second of frames is a whole number of them.                       *)
FrameLength == 1001

(* The timecode as parse computes it, in frames of the file's rate.  The     *)
(* rate is a multiple of the standard's.                                     *)
offsetOf(m, rate) ==
  LET seconds == m.timecode[1] * 3600 + m.timecode[2] * 60 + m.timecode[3]
      whole == seconds * m.standard * (IF m.dropFrame THEN 1000 ELSE FrameLength)
  IN  (whole + m.timecode[4] * FrameLength) * (rate \div m.standard)

-----------------------------------------------------------------------------
(* A file, and what its writer meant by the elements of its section: the     *)
(* labels of the points and of the analog channels and the number of analog  *)
(* values that the first n elements give are file.meaning[n].                *)

Ushorts == {w \in Nat : w < 65536}
Shorts == {w \in Nat : w < 32768}      \* of the shorts, those a count may be
SignedChars == {c \in Int : -128 <= c /\ c < 128}
Bytes == 0..255
Processors == {Intel, Dec, Sgi}

(* next_offset <= 0, in a signed short. *)
Closes(offset) == offset = 0 \/ offset >= 32768

Meanings == [points : Seq(Text), analogs : Seq(Text), used : Shorts]
NoMeaning == [points |-> <<>>, analogs |-> <<>>, used |-> 0]

belongsTo(file, e, group) ==
  e.id > 0 /\ \E j \in 1..Len(file.params) :
                file.params[j].id = -e.id /\ file.params[j].name = group

labelsOf(file, e, group) ==
  IF e.shape = Strings /\ e.name \in LabelNames /\ belongsTo(file, e, group)
  THEN e.value ELSE <<>>

meaningAfter(file, before, e) ==
  [points |-> before.points \o labelsOf(file, e, "POINT"),
   analogs |-> before.analogs \o labelsOf(file, e, "ANALOG"),
   used |-> IF e.shape = Word /\ e.name = "USED" /\ belongsTo(file, e, "ANALOG")
            THEN e.value ELSE before.used]

isElement(e) ==
  /\ e.id \in SignedChars /\ e.offset \in Ushorts
  /\ e.shape = Strings => e.value \in Seq(Text)
  /\ e.shape = Word => e.value \in Shorts

(* An offset that closes the section has no element behind it.  Of a scale    *)
(* that no processor of the three wrote, convertToFloat makes 0.              *)
isFile(file) ==
  /\ file.data \in Bytes /\ file.proc \in Bytes
  /\ file.float \in BOOLEAN /\ file.isC3d \in BOOLEAN
  /\ file.float => file.proc \in Processors
  /\ {file.markers, file.channels, file.perFrame, file.first, file.last, file.body}
       \subseteq Ushorts
  /\ file.units \in Nat
  /\ Len(file.params) \in Nat /\ (file.data # 0 => Len(file.params) > 0)
  /\ \A i \in 1..Len(file.params) :
       isElement(file.params[i]) /\ (i < Len(file.params) => ~Closes(file.params[i].offset))
  /\ \A n \in 0..Len(file.params) : file.meaning[n] \in Meanings
  /\ file.meaning[0] = NoMeaning
  /\ \A n \in 1..Len(file.params) :
       file.meaning[n] = meaningAfter(file, file.meaning[n - 1], file.params[n])

Labels(file, group) ==
  LET meant == file.meaning[Len(file.params)]
  IN  IF group = "POINT" THEN meant.points ELSE meant.analogs

AnalogUsed(file) == file.meaning[Len(file.params)].used

(* A file is in order if its parameters are in block 2, where parse looks,   *)
(* each group has one name, given before the group's parameters, and the     *)
(* header counts the analog words of the parameters.                         *)
InOrder(file) ==
  /\ file.data = 2 /\ file.proc \in Processors /\ file.body > 0
  /\ \A i \in 1..Len(file.params) :
       file.params[i].id > 0 =>
         \E j \in 1..(i - 1) : file.params[j].id = -file.params[i].id
  /\ \A i, j \in 1..Len(file.params) :
       file.params[i].id < 0 /\ i # j => file.params[i].id # file.params[j].id
  /\ file.channels = AnalogUsed(file) * file.perFrame
=============================================================================
