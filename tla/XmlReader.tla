------------------------------ MODULE XmlReader ------------------------------
(* XmlParser (XmlParser.h, XmlParser.cpp): the tokenizer under the XML tree. *)
(* It has one operation, getTag(long &offset), which returns the entity that *)
(* starts at the caller's offset and moves the offset behind it.  Over a     *)
(* string that is a scan of the string.  Over a FILE* the parser avoids a    *)
(* seek whenever the caller's offset equals m_position, which counts the     *)
(* characters ever fetched and is set by no seek: whether the bytes read are *)
(* those at the offset depends on every call made before.                    *)
(*                                                                           *)
(* A character is "<", ">", "/", a blank, or anything else: the name of a    *)
(* tag is one character, and so are its arguments.  Of what parseTag makes   *)
(* of them (module XmlTagText) only matters here whether it accepts them.    *)
(* getTag is one step: it runs to its end in the only thread that uses the   *)
(* parser.                                                                   *)
EXTENDS Integers, Sequences

CONSTANTS
  White,      \* the characters skipped before an entity and in a tag
  Oversized,  \* names and arguments that fill a buffer of parseTag and go on
  Unended     \* arguments whose value ends in a backslash, without a quote

ASSUME WhiteAssumption == {"<", ">", "/"} \cap White = {}

ASSUME TagAssumption ==
  /\ ({"<", ">", "/"} \union White) \cap (Oversized \union Unended) = {}
  /\ Oversized \cap Unended = {}

VARIABLES
  doc,        \* the characters of the file or of the string
  useFile,    \* m_useFile
  position,   \* m_position: characters fetched since the parser was made
  real,       \* where the FILE* stands
  eof,        \* feof(m_fp)
  failed,     \* m_error of the parser; nothing resets it
  offsets,    \* the offsets callers hold: those getTag or an entity gave them
  last        \* the last call: what was asked and what came back

readerVars == <<doc, useFile, position, real, eof, failed, offsets, last>>

\* What getTag gives: an entity, NULL, or an exception of at() in parseTag.
Kinds == {"tag", "text", "none", "throw"}

Calls == [kind : Kinds, asked : Nat, open : Nat, close : Nat, next : Nat]

ReaderTypeOK ==
  /\ doc \in Seq(STRING)
  /\ useFile \in BOOLEAN /\ eof \in BOOLEAN /\ failed \in BOOLEAN
  /\ position \in Nat /\ real \in Nat
  /\ offsets \subseteq Nat
  /\ last \in Calls

\* What a scan from `from` finds: characters i to j, of which i is the first
\* that is not blank.
Starts(from, i) ==
  /\ i > from
  /\ doc[i] \notin White
  /\ \A k \in DOMAIN doc : from < k /\ k < i => doc[k] \in White

First(from) == {i \in DOMAIN doc : Starts(from, i)}

Reaches(i, j, stop) ==
  /\ i < j
  /\ doc[j] \in stop
  /\ \A k \in DOMAIN doc : i < k /\ k < j => doc[k] \notin stop

IsTag(from, i, j) ==
  Starts(from, i) /\ doc[i] = "<" /\ Reaches(i, j, {"<", ">"}) /\ doc[j] = ">"

IsText(from, i, j) ==
  Starts(from, i) /\ doc[i] # "<" /\ Reaches(i, j, {"<"})

\* '<' within a tag, which getTag refuses.
IsBroken(from, i, j) ==
  Starts(from, i) /\ doc[i] = "<" /\ Reaches(i, j, {"<", ">"}) /\ doc[j] = "<"

\* The characters between the brackets i and j but for the slashes next to them.
Inner(d, i, j) ==
  {k \in (i + 1)..(j - 1) : d[k] = "/" => k # i + 1 /\ k # j - 1}

\* parseTag refuses "<>" and what fills a buffer of its own.
Refused(i, j) == j = i + 1 \/ \E k \in Inner(doc, i, j) : doc[k] \in Oversized

\* It looks at the character behind the leading slash and blanks, and at the
\* one behind a backslash in a value, which may not be there.
Throws(i, j) ==
  /\ ~Refused(i, j)
  /\ \/ \A k \in Inner(doc, i, j) : doc[k] \in White
     \/ \E k \in Inner(doc, i, j) :
          doc[k] \in Unended /\ \A h \in Inner(doc, i, j) : h <= k

Parsed(i, j) == ~Refused(i, j) /\ ~Throws(i, j)

Runs(from) ==
  \E i \in First(from), j \in DOMAIN doc :
    IsTag(from, i, j) \/ IsText(from, i, j) \/ IsBroken(from, i, j)

-----------------------------------------------------------------------------
ReaderStart ==
  /\ useFile \in BOOLEAN
  /\ position = 0 /\ real = 0 /\ eof = FALSE /\ failed = FALSE
  /\ offsets = {0}
  /\ last = [kind |-> "none", asked |-> 0, open |-> 0, close |-> 0, next |-> 0]

ReaderInit == doc \in Seq(STRING) /\ ReaderStart

\* Line 54: the seek is skipped when the offset is the number of characters
\* fetched so far; what is then read is whatever the FILE* stands at.
\* A mutant: only an offset ahead of the file is sought.
FaultySkips(o) == useFile /\ o <= position

Skips(o) == useFile /\ o = position

Start(o) == IF Skips(o) THEN real ELSE o

\* Line 62: an offset at which the end was already met.  A seek would have
\* cleared the flag.
AtEnd(o) == Skips(o) /\ eof

Return(o, kind, i, j, next) ==
  /\ last' = [kind |-> kind, asked |-> o, open |-> i, close |-> j, next |-> next]
  /\ offsets' = offsets \union {next}

\* n characters are fetched; each moves m_position with the file and no
\* unfetching ever moves it back.
Fetch(o, n) ==
  /\ position' = IF useFile THEN position + n ELSE position
  /\ real' = IF useFile THEN Start(o) + n ELSE real
  /\ eof' = FALSE
  /\ UNCHANGED <<doc, useFile>>

\* The caller's offset moves by as many characters as were fetched.
Moved(o, j) == o + (j - Start(o))

GetTagEntity(o) ==
  /\ ~AtEnd(o)
  /\ \E i \in First(Start(o)), j \in DOMAIN doc :
       /\ IsTag(Start(o), i, j)
       /\ Fetch(o, j - Start(o))
       /\ \/ /\ Parsed(i, j)
             /\ Return(o, "tag", i, j, Moved(o, j))
             /\ UNCHANGED failed
          \/ /\ Refused(i, j)
             /\ Return(o, "none", 0, 0, Moved(o, j))
             /\ failed' = TRUE
          \/ /\ Throws(i, j)              \* the exception passes getTag
             /\ Return(o, "throw", i, j, Moved(o, j))
             /\ UNCHANGED failed

\* The '<' that ends a literal is given back to the offset and to nothing else.
GetText(o) ==
  /\ ~AtEnd(o)
  /\ \E i \in First(Start(o)), j \in DOMAIN doc :
       /\ IsText(Start(o), i, j)
       /\ Fetch(o, j - Start(o))
       /\ Return(o, "text", i, j, Moved(o, j) - 1)
  /\ UNCHANGED failed

GetBroken(o) ==
  /\ ~AtEnd(o)
  /\ \E i \in First(Start(o)), j \in DOMAIN doc :
       /\ IsBroken(Start(o), i, j)
       /\ Fetch(o, j - Start(o))
       /\ Return(o, "none", 0, 0, Moved(o, j))
  /\ failed' = TRUE

\* The string ends: the offset stops at its end and an error is set.
GetBufferEnd(o) ==
  /\ ~useFile /\ ~Runs(o)
  /\ Return(o, "none", 0, 0, IF o < Len(doc) THEN Len(doc) ELSE o)
  /\ failed' = TRUE
  /\ UNCHANGED <<doc, useFile, position, real, eof>>

\* The file ends: the EOF that fgetc returns is counted as a character, the
\* flag goes up, and getTag returns NULL without an error.
GetFileEnd(o) ==
  /\ useFile /\ ~AtEnd(o) /\ ~Runs(Start(o))
  /\ LET stop == IF Start(o) < Len(doc) THEN Len(doc) ELSE Start(o)
     IN /\ real' = stop
        /\ position' = position + (stop - Start(o)) + 1
        /\ Return(o, "none", 0, 0, Moved(o, stop) + 1)
  /\ eof' = TRUE
  /\ UNCHANGED <<doc, useFile, failed>>

GetAtEnd(o) ==
  /\ AtEnd(o)
  /\ Return(o, "none", 0, 0, o)
  /\ failed' = TRUE
  /\ UNCHANGED <<doc, useFile, position, real, eof>>

GetTag(o) ==
  \/ GetTagEntity(o) \/ GetText(o) \/ GetBroken(o)
  \/ GetBufferEnd(o) \/ GetFileEnd(o) \/ GetAtEnd(o)

ReaderNext == \E o \in offsets : GetTag(o)

ReaderSpec == ReaderInit /\ [][ReaderNext]_readerVars

-----------------------------------------------------------------------------
(* An offset a caller holds is never beyond the count of fetched characters, *)
(* and one that equals it is where the file stands, or the end that was met. *)
(* It is what makes the skipped seek of XmlParser.cpp:54 right although no   *)
(* seek sets m_position.                                                     *)
Synced ==
  useFile =>
    \A o \in offsets :
      /\ o <= position
      /\ o = position => IF eof THEN o > Len(doc) ELSE real = o

(* Over a file as over a string, the entity getTag returns is the one that   *)
(* starts at the offset it was asked for, the offset it hands back is right  *)
(* behind it, and NULL means that no entity is there or a tag that parseTag  *)
(* refuses (XmlParser.cpp:48-151); an exception is that tag's own.           *)
ReadsWhereAsked ==
  LET r == last IN
  /\ r.kind \in {"tag", "throw"} =>
       IsTag(r.asked, r.open, r.close) /\ r.next = r.close
  /\ r.kind = "tag" => Parsed(r.open, r.close)
  /\ r.kind = "throw" => Throws(r.open, r.close)
  /\ r.kind = "text" => IsText(r.asked, r.open, r.close) /\ r.next = r.close - 1
  /\ r.kind = "none" /\ r.next # 0 =>
       \A i, j \in DOMAIN doc :
         /\ ~IsText(r.asked, i, j)
         /\ IsTag(r.asked, i, j) => Refused(i, j)
=============================================================================
