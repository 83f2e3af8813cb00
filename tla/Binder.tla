------------------------------- MODULE Binder -------------------------------
(* BinderParser (BinderParser.h, .cpp) over File (File.h, .cpp), and the     *)
(* BinderData blocks of its users.  write() puts a header, a stub of the     *)
(* index and the blocks into a file, and goes back to fill the index; parse()*)
(* of another program reads header and index, and hands each block of the    *)
(* index to the BinderData registered for its type, which reads it through   *)
(* the same File.  The writer may die, and the file may be cut short.        *)
(*                                                                           *)
(* A file is a sequence of words of four bytes, and an offset a number of    *)
(* words.  A block's content is words that occur nowhere else.               *)
EXTENDS Integers, Sequences, FiniteSets

CONSTANTS
  Ids,        \* the types of blocks
  Versions,   \* the values of the version and of the unique word
  Any,        \* (pl_uint32)-1: this program takes any version
  MaxEntries, \* entries registered with the writer
  MaxLength   \* words in a block

ASSUME BinderAssumption ==
  /\ Ids \subseteq Nat
  /\ Versions \subseteq Nat /\ Any \in Nat
  /\ MaxEntries \in Nat /\ MaxLength \in Nat

Null == [id |-> 0, len |-> -1]       \* a NULL in m_data

Static == 8485                       \* 0x2125
HeaderSize == 5
IndexWidth == 3

Blocks == [id : Ids, len : 0..MaxLength]

VARIABLES
  entries,    \* the writer's m_data, NULLs among them
  handlers,   \* the types registered with the reader
  wants,      \* the reader's m_version and m_unique
  writes,     \* the writer's
  ptr64,      \* the writer was built with PL_64BIT
  disk,       \* the file
  fp,         \* the position of the open FILE
  pc,
  item,       \* the entry or the index line at hand
  offset,     \* write(): where the next block starts
  offsets,    \* write(): where each block written started
  head,       \* m_64bitptr and m_items of the reader
  err,        \* m_err of the reader
  given,      \* the calls of parseBlock
  damage      \* what befell the file: "none", "crash" of the writer, "cut"

vars == <<entries, handlers, wants, writes, ptr64, disk, fp, pc, item, offset,
          offsets, head, err, given, damage>>

Init ==
  /\ entries \in UNION {[1..n -> Blocks \union {Null}] : n \in 0..MaxEntries}
  /\ handlers \in SUBSET Ids
  /\ wants \in [version : Versions, unique : Versions]
  /\ writes \in [version : Versions, unique : Versions]
  /\ ptr64 \in BOOLEAN
  /\ disk = <<>> /\ fp = 0 /\ pc = "open" /\ item = 1
  /\ offset = 0 /\ offsets = <<>>
  /\ head = [ptrs |-> FALSE, items |-> 0] /\ err = 0
  /\ given = <<>> /\ damage = "none"

users == <<entries, handlers, wants, writes, ptr64>>
reader == <<head, err, given>>

-----------------------------------------------------------------------------
(* File.                                                                     *)

\* fwrite at the file's position, with a count asked for as BinderParser and
\* write4() do; without one POSIX writes size*size bytes (File.cpp:208).
Write(words) ==
  LET end == fp + Len(words) IN
  /\ disk' = [n \in 1..(IF end > Len(disk) THEN end ELSE Len(disk)) |->
                IF n > fp /\ n <= end THEN words[n - fp] ELSE disk[n]]
  /\ fp' = end

\* read4() succeeds.
Reads(n) == fp + n <= Len(disk)

-----------------------------------------------------------------------------
(* BinderParser::write().                                                    *)

Flag(b) == IF b THEN 1 ELSE 0

WriteHeader ==
  /\ pc = "open"
  /\ Write(<<Static, Flag(ptr64), writes.version, writes.unique, Len(entries)>>)
  /\ pc' = IF entries = <<>> THEN "written" ELSE "stub"
  /\ UNCHANGED <<users, item, offset, offsets, reader, damage>>

IndexSize == IndexWidth * Len(entries)

\* A mutant: the header is forgotten.
FaultyFirstBlock == IndexSize

FirstBlock == HeaderSize + IndexSize

WriteStub ==
  /\ pc = "stub"
  /\ Write([n \in 1..IndexSize |-> 0])
  /\ offset' = FirstBlock
  /\ pc' = "blocks" /\ item' = 1
  /\ UNCHANGED <<users, offsets, reader, damage>>

\* The words of the n-th entry, from 100 n on.
Content(n) == [w \in 1..entries[n].len |-> 100 * n + w]

WriteBlock ==
  /\ pc = "blocks" /\ item <= Len(entries) /\ entries[item] # Null
  /\ Write(Content(item))
  /\ offsets' = Append(offsets, offset)
  /\ offset' = offset + entries[item].len
  /\ item' = item + 1
  /\ UNCHANGED <<users, pc, reader, damage>>

SkipBlock ==
  /\ pc = "blocks" /\ item <= Len(entries) /\ entries[item] = Null
  /\ item' = item + 1
  /\ UNCHANGED <<users, disk, fp, pc, offset, offsets, reader, damage>>

\* seek() to the index.
BlocksEnd ==
  /\ pc = "blocks" /\ item > Len(entries)
  /\ fp' = HeaderSize /\ item' = 1 /\ pc' = "index"
  /\ UNCHANGED <<users, disk, offset, offsets, reader, damage>>

\* offsets[i] is indexed by the entry, although NULL entries pushed nothing:
\* past its end the word read is any.
OffsetsAt(i) == IF i <= Len(offsets) THEN {offsets[i]} ELSE {0, offset}

WriteIndex ==
  /\ pc = "index" /\ item <= Len(entries) /\ entries[item] # Null
  /\ \E at \in OffsetsAt(item) : Write(<<entries[item].id, at, 0>>)
  /\ item' = item + 1
  /\ UNCHANGED <<users, pc, offset, offsets, reader, damage>>

SkipIndex ==
  /\ pc = "index" /\ item <= Len(entries) /\ entries[item] = Null
  /\ item' = item + 1
  /\ UNCHANGED <<users, disk, fp, pc, offset, offsets, reader, damage>>

\* The FILE is closed and write()'s locals are gone, however it ended.
Forget == fp' = 0 /\ item' = 1 /\ offset' = 0 /\ offsets' = <<>>

WriteEnds ==
  /\ pc = "index" /\ item > Len(entries)
  /\ pc' = "written"
  /\ Forget
  /\ UNCHANGED <<users, disk, reader, damage>>

Cut ==
  /\ pc = "written" /\ damage = "none"
  /\ \E n \in 0..(Len(disk) - 1) : disk' = SubSeq(disk, 1, n)
  /\ damage' = "cut"
  /\ Forget
  /\ UNCHANGED <<users, pc, reader>>

\* The writer's process dies.  What has left its FILE's buffer is a prefix of
\* what it wrote last; seek() has emptied the buffer before the index.
Crash ==
  /\ \/ /\ pc \in {"stub", "blocks"}
        /\ \E n \in 0..Len(disk) : disk' = SubSeq(disk, 1, n)
     \/ /\ pc = "index"
        /\ \E n \in HeaderSize..fp :
              disk' = [w \in DOMAIN disk |-> IF w > n /\ w <= FirstBlock THEN 0 ELSE disk[w]]
  /\ pc' = "written" /\ damage' = "crash"
  /\ Forget
  /\ UNCHANGED <<users, reader>>

-----------------------------------------------------------------------------
(* BinderParser::parse().                                                    *)

OpenRead ==
  /\ pc = "written"
  /\ fp' = 0 /\ item' = 1
  /\ head' = [head EXCEPT !.ptrs = FALSE]
  /\ pc' = "parse header"
  /\ UNCHANGED <<users, disk, offset, offsets, err, given, damage>>

\* A mutant: the reader's wildcard is looked for in the file.
FaultyMatches(mine, word) == word = Any \/ mine = word

Matches(mine, word) == mine = Any \/ mine = word

\* The words of the header in the order parseHeader() reads and tests them,
\* and the error each of them leaves in m_err.
HeaderErrors ==
  <<IF ~Reads(1) THEN 1 ELSE IF disk[1] # Static THEN 2 ELSE 0,
    IF ~Reads(2) THEN 3 ELSE 0,
    IF ~Reads(3) THEN 5 ELSE IF ~Matches(wants.version, disk[3]) THEN 6 ELSE 0,
    IF ~Reads(4) THEN 7 ELSE IF ~Matches(wants.unique, disk[4]) THEN 8 ELSE 0,
    IF ~Reads(5) THEN 9 ELSE 0>>

ParseHeader ==
  /\ pc = "parse header"
  /\ \A n \in 1..HeaderSize : HeaderErrors[n] = 0
  /\ head' = [ptrs |-> disk[2] = 1, items |-> disk[5]]
  /\ err' = IF disk[2] = 1 THEN 4 ELSE err      \* set, and not an error
  /\ fp' = HeaderSize /\ pc' = "parse index"
  /\ UNCHANGED <<users, disk, item, offset, offsets, given, damage>>

ParseHeaderFails ==
  /\ pc = "parse header"
  /\ \E n \in 1..HeaderSize :
       /\ HeaderErrors[n] # 0
       /\ \A k \in 1..(n - 1) : HeaderErrors[k] = 0
       /\ err' = HeaderErrors[n]
       /\ head' = IF n > 2 THEN [head EXCEPT !.ptrs = disk[2] = 1] ELSE head
  /\ pc' = "failed"
  /\ UNCHANGED <<users, disk, fp, item, offset, offsets, given, damage>>

IndexRead == Reads(IndexWidth * head.items)

ParseIndex ==
  /\ pc = "parse index"
  /\ pc' = IF IndexRead THEN "items" ELSE "failed"
  /\ fp' = IF IndexRead THEN fp + IndexWidth * head.items ELSE Len(disk)
  /\ UNCHANGED <<users, disk, item, offset, offsets, reader, damage>>

\* The index was copied when it was read; its lines are still in the file.
IndexWord(i, n) == disk[HeaderSize + IndexWidth * (i - 1) + n]

Handles(type) == type \in handlers

\* seek(), findParser(), and the handler's parseBlock(), which may leave the
\* file anywhere.
ParseItem ==
  /\ pc = "items" /\ item <= head.items
  /\ LET type == IndexWord(item, 1)
         at == IndexWord(item, 2)
     IN /\ fp' = at
        /\ given' = IF Handles(type)
                      THEN Append(given, [to |-> type, at |-> at,
                                          ptrs |-> head.ptrs])
                      ELSE given
  /\ item' = item + 1
  /\ UNCHANGED <<users, disk, pc, offset, offsets, head, err, damage>>

ParseEnds ==
  /\ pc = "items" /\ item > head.items
  /\ pc' = "parsed"
  /\ UNCHANGED <<users, disk, fp, item, offset, offsets, reader, damage>>

Next ==
  \/ WriteHeader \/ WriteStub \/ WriteBlock \/ SkipBlock \/ BlocksEnd
  \/ WriteIndex \/ SkipIndex \/ WriteEnds
  \/ Cut \/ Crash
  \/ OpenRead \/ ParseHeader \/ ParseHeaderFails \/ ParseIndex
  \/ ParseItem \/ ParseEnds

Spec == Init /\ [][Next]_vars

-----------------------------------------------------------------------------
Written == {n \in DOMAIN entries : entries[n] # Null}

\* The n-th call of parseBlock was given a block of the writer's, whole.
Delivers(call, n) ==
  /\ call.to = entries[n].id
  /\ call.ptrs = ptr64
  /\ call.at + entries[n].len <= Len(disk)
  /\ \A w \in DOMAIN Content(n) : disk[call.at + w] = Content(n)[w]

\* Where among the calls the one for entry n comes: the entries up to n whose
\* types the reader handles.
Place(n) == Cardinality({i \in 1..n : Handles(entries[i].id)})

\* The calls that lines lead to which have a type and not yet an offset, and
\* which were not written.
Torn(call, n) == n <= Len(entries) /\ call.to = entries[n].id /\ call.at = 0
Blank(call) == call.to = 0 /\ call.at = 0

(* If no entry is NULL, what parse() hands to the handlers are the writer's  *)
(* blocks of their types in the writer's order, each where its content is    *)
(* and once (BinderParser.cpp:104-211), and all of them.  Of a writer that   *)
(* died it hands on the blocks of the first lines it wrote, for the blocks   *)
(* are in the file before the index names them; the line it was writing may  *)
(* lead a handler to the header instead, and the lines it did not reach a    *)
(* handler of type 0.  After a NULL write() looks up its offsets at the      *)
(* wrong numbers (204), and other places are handed on.                      *)
RoundTrip ==
  pc = "parsed" /\ damage # "cut" /\ Written = DOMAIN entries =>
    \E n \in 0..Len(entries) :
      /\ \A i \in 1..n : Handles(entries[i].id) => Delivers(given[Place(i)], i)
      /\ \A k \in (Place(n) + 1)..Len(given) :
            \/ Blank(given[k])
            \/ k = Place(n) + 1 /\ Torn(given[k], n + 1)
      /\ damage = "none" => n = Len(entries)
      /\ Len(given) >= Place(n)

(* No handler is called before the whole header and the whole index were     *)
(* there and were those of a file the program asks for, wherever the writer  *)
(* died or the file was cut (BinderParser.cpp:33-77, 104-112).               *)
WrongFileUntouched ==
  given # <<>> =>
    /\ wants.version \in {Any, writes.version}
    /\ wants.unique \in {Any, writes.unique}
    /\ Len(disk) >= HeaderSize + IndexSize
=============================================================================
