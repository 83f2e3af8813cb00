---------------------------- MODULE BinderProofs ----------------------------
(* No handler of a binder file is called for a file that is not the one the  *)
(* program asks for, or not all there, for every set of blocks, every        *)
(* version and every place where the writer dies or the file is cut.         *)
(*                                                                           *)
(* The invariant follows the header: whatever part of it is in the file is   *)
(* what write() put there, because everything else is written behind it.     *)
EXTENDS Binder, FiniteSetTheorems, SequenceTheorems, TLAPS

Header == <<Static, Flag(ptr64), writes.version, writes.unique, Len(entries)>>

BinderTypes ==
  /\ entries \in Seq(Blocks \union {Null})
  /\ wants \in [version : Versions, unique : Versions]
  /\ writes \in [version : Versions, unique : Versions]
  /\ ptr64 \in BOOLEAN
  /\ disk \in Seq(Nat)
  /\ fp \in Nat /\ offset \in Nat /\ offsets \in Seq(Nat) /\ item \in Nat \ {0}
  /\ head \in [ptrs : BOOLEAN, items : Nat]

\* Control points of write() behind the header, and of parse() behind it.
Behind == {"stub", "blocks", "index"}
HeaderRead == {"parse index", "items", "parsed"}

HeaderInv ==
  /\ pc = "open" => disk = <<>> /\ fp = 0
  /\ \A k \in 1..HeaderSize : k <= Len(disk) => disk[k] = Header[k]
  /\ pc \in Behind => fp >= HeaderSize /\ Len(disk) >= fp

Asked ==
  /\ wants.version \in {Any, writes.version}
  /\ wants.unique \in {Any, writes.unique}

ParseInv ==
  /\ pc \in HeaderRead =>
       head.items = Len(entries) /\ Asked /\ Len(disk) >= HeaderSize
  /\ pc = "parse header" => fp = 0
  /\ pc = "parse index" => fp = HeaderSize
  /\ pc \in {"items", "parsed"} => Len(disk) >= HeaderSize + IndexSize
  /\ given # <<>> => pc \in {"items", "parsed"}

IInv == BinderTypes /\ HeaderInv /\ ParseInv

LEMMA Numbers == HeaderSize = 5 /\ IndexWidth = 3 /\ Static \in Nat
BY DEF HeaderSize, IndexWidth, Static

LEMMA HeaderWords ==
  ASSUME BinderTypes
  PROVE  Header \in Seq(Nat) /\ Len(Header) = HeaderSize /\ Len(entries) \in Nat
<1>1. Len(entries) \in Nat /\ Flag(ptr64) \in Nat
  BY DEF BinderTypes, Flag
<1>2. writes.version \in Nat /\ writes.unique \in Nat
  BY BinderAssumption DEF BinderTypes
<1> QED  BY <1>1, <1>2, Numbers DEF Header

\* What fwrite leaves in the file.
LEMMA WriteFacts ==
  ASSUME BinderTypes, fp <= Len(disk), NEW words \in Seq(Nat), Write(words)
  PROVE  /\ disk' \in Seq(Nat) /\ fp' \in Nat /\ fp' = fp + Len(words)
         /\ Len(disk') >= Len(disk) /\ Len(disk') >= fp' /\ Len(disk') \in {Len(disk), fp'}
         /\ \A n \in 1..Len(disk') :
              disk'[n] = IF n > fp /\ n <= fp' THEN words[n - fp] ELSE disk[n]
<1>1. /\ disk \in Seq(Nat) /\ fp \in Nat /\ Len(words) \in Nat /\ Len(disk) \in Nat
      /\ fp <= Len(disk)
  BY DEF BinderTypes
<1>2. PICK end \in Nat, len \in Nat :
        /\ end = fp + Len(words) /\ fp' = end
        /\ len = IF end > Len(disk) THEN end ELSE Len(disk)
        /\ disk' = [n \in 1..len |->
                     IF n > fp /\ n <= end THEN words[n - fp] ELSE disk[n]]
  BY <1>1 DEF Write
<1>3. ASSUME NEW n \in 1..len
      PROVE  (IF n > fp /\ n <= end THEN words[n - fp] ELSE disk[n]) \in Nat
  <2>1. CASE n > fp /\ n <= end
    BY <1>1, <1>2, <2>1
  <2>2. CASE ~(n > fp /\ n <= end)
    <3>1. n \in 1..Len(disk)
      BY <1>1, <1>2, <2>2
    <3> QED  BY <1>1, <2>2, <3>1
  <2> QED  BY <2>1, <2>2
<1>4. disk' \in [1..len -> Nat]
  BY <1>2, <1>3
<1>5. disk' \in Seq(Nat) /\ Len(disk') = len
  BY <1>4
<1> QED  BY <1>1, <1>2, <1>5

\* What a crash or a cut leaves of the file.
LEMMA PrefixFacts ==
  ASSUME NEW s \in Seq(Nat), NEW n \in 0..Len(s)
  PROVE  /\ SubSeq(s, 1, n) \in Seq(Nat) /\ Len(SubSeq(s, 1, n)) = n
         /\ \A k \in 1..n : SubSeq(s, 1, n)[k] = s[k]
OBVIOUS

LEMMA ContentType ==
  ASSUME BinderTypes, item \in 1..Len(entries), entries[item] # Null
  PROVE  /\ Content(item) \in Seq(Nat)
         /\ entries[item].len \in Nat /\ entries[item].id \in Nat
<1>1. entries[item] \in Blocks
  BY DEF BinderTypes
<1>2. entries[item].len \in Nat /\ entries[item].id \in Nat
  <2>1. entries[item].len \in 0..MaxLength /\ entries[item].id \in Ids
    BY <1>1 DEF Blocks
  <2>2. Ids \subseteq Nat /\ MaxLength \in Nat
    BY BinderAssumption
  <2>3. entries[item].id \in Nat
    BY <2>1, <2>2
  <2>4. PICK l \in 0..MaxLength : entries[item].len = l
    BY <2>1
  <2>5. l \in Nat
    BY <2>2, <2>4
  <2> QED  BY <2>3, <2>4, <2>5
<1> DEFINE f == [w \in 1..entries[item].len |-> 100 * item + w]
<1>3. f \in [1..entries[item].len -> Nat]
  BY <1>2 DEF BinderTypes
<1>4. f \in Seq(Nat)
  <2>1. PICK l \in Nat : l = entries[item].len
    BY <1>2
  <2>2. f \in [1..l -> Nat]
    BY <1>3, <2>1
  <2> HIDE DEF f
  <2> QED  BY <2>2
<1> QED  BY <1>2, <1>4 DEF Content

LEMMA BinderFirst == Init => IInv
<1> SUFFICES ASSUME Init PROVE IInv
  OBVIOUS
<1>1. entries \in Seq(Blocks \union {Null})
  <2>1. PICK n \in 0..MaxEntries : entries \in [1..n -> Blocks \union {Null}]
    BY DEF Init
  <2> QED  BY <2>1, BinderAssumption
<1>2. BinderTypes
  BY <1>1 DEF Init, BinderTypes
<1> QED  BY <1>2, Numbers DEF Init, IInv, HeaderInv, ParseInv, Behind, HeaderRead

\* A step of write() behind the header.
LEMMA WritesBehind ==
  ASSUME IInv, pc \in Behind, pc' \in Behind, NEW words \in Seq(Nat), Write(words),
         UNCHANGED <<users, reader>>, item' \in Nat \ {0}, offset' \in Nat, offsets' \in Seq(Nat)
  PROVE  IInv'
<1>1. /\ disk' \in Seq(Nat) /\ fp' \in Nat /\ fp' = fp + Len(words)
      /\ Len(disk') >= Len(disk) /\ Len(disk') >= fp'
      /\ \A n \in 1..Len(disk') :
           disk'[n] = IF n > fp /\ n <= fp' THEN words[n - fp] ELSE disk[n]
  BY WriteFacts DEF IInv, HeaderInv, BinderTypes
<1>2. /\ fp \in Nat /\ Len(words) \in Nat /\ fp >= HeaderSize /\ Len(disk) >= fp
      /\ Len(disk) \in Nat /\ Len(disk') \in Nat
      /\ \A k \in 1..HeaderSize : k <= Len(disk) => disk[k] = Header[k]
  <2>1. fp \in Nat /\ disk \in Seq(Nat) /\ disk' \in Seq(Nat)
    BY <1>1 DEF IInv, BinderTypes
  <2>2. Len(words) \in Nat /\ Len(disk) \in Nat /\ Len(disk') \in Nat
    BY <2>1
  <2>3. HeaderInv
    BY DEF IInv
  <2>4. \A k \in 1..HeaderSize : k <= Len(disk) => disk[k] = Header[k]
    BY <2>3, Zenon DEF HeaderInv
  <2>5. fp >= HeaderSize /\ Len(disk) >= fp
    BY <2>3, Zenon DEF HeaderInv
  <2> QED  BY <2>1, <2>2, <2>4, <2>5, Zenon
<1>3. Header' = Header
  BY DEF users, Header
<1>4. fp \in Nat /\ Len(words) \in Nat /\ fp >= HeaderSize /\ fp <= Len(disk) /\ Len(disk) \in Nat
  BY <1>2
<1>5. /\ Len(disk') \in Nat /\ Len(disk') >= Len(disk) /\ fp' = fp + Len(words)
      /\ Len(disk') >= fp'
  BY <1>1, <1>2
<1>6. HeaderInv'
  <2>1. ASSUME NEW k \in 1..HeaderSize PROVE disk'[k] = Header[k]
    <3>1. k \in Nat /\ k >= 1 /\ k <= fp
      <4>1. HeaderSize \in Nat
        BY Numbers
      <4> QED  BY <1>4, <4>1
    <3>2. k \in 1..Len(disk') /\ k <= Len(disk) /\ ~(k > fp)
      BY <1>4, <1>5, <3>1
    <3> QED  BY <1>1, <1>2, <3>2
  <2>2. fp' >= HeaderSize
    <3>1. HeaderSize \in Nat
      BY Numbers
    <3> QED  BY <1>4, <1>5, <3>1
  <2>3. Len(disk') >= fp' /\ pc' # "open"
    BY <1>5 DEF Behind
  <2> QED  BY <1>3, <2>1, <2>2, <2>3 DEF HeaderInv
<1>7. BinderTypes'
  BY <1>1 DEF IInv, BinderTypes, users, reader
<1>8. ParseInv'
  BY DEF IInv, ParseInv, Behind, HeaderRead, reader
<1> QED  BY <1>6, <1>7, <1>8 DEF IInv

\* A step that leaves the file alone.
LEMMA FileStill ==
  ASSUME IInv, UNCHANGED <<users, disk>>, pc # "open", pc' # "open",
         head' \in [ptrs : BOOLEAN, items : Nat], fp' \in Nat, item' \in Nat \ {0}, offset' \in Nat, offsets' \in Seq(Nat),
         pc' \in Behind => pc \in Behind /\ fp' >= HeaderSize /\ fp' <= Len(disk),
         ParseInv'
  PROVE  IInv'
<1>1. Header' = Header
  BY DEF users, Header
<1>2. HeaderInv'
  BY <1>1 DEF IInv, HeaderInv
<1>3. BinderTypes'
  BY DEF IInv, BinderTypes, users
<1> QED  BY <1>2, <1>3 DEF IInv

\* The writer's end, or the file's: a part of what is in the file stays.
LEMMA FileLeft ==
  ASSUME IInv, UNCHANGED <<users, reader>>, Forget, pc' = "written",
         pc \in Behind \union {"written"}, disk' \in Seq(Nat), Len(disk') <= Len(disk),
         \A k \in 1..HeaderSize : k <= Len(disk') => disk'[k] = disk[k]
  PROVE  IInv'
<1>1. Header' = Header
  BY DEF users, Header
<1>2. HeaderInv'
  <2>1. \A k \in 1..HeaderSize : k <= Len(disk') => disk'[k] = Header[k]
    <3>1. Len(disk) \in Nat /\ Len(disk') \in Nat
      BY DEF IInv, BinderTypes
    <3>2. \A k \in 1..HeaderSize : k <= Len(disk') => k <= Len(disk)
      BY <3>1, Numbers
    <3> QED  BY <3>2 DEF IInv, HeaderInv
  <2> QED  BY <1>1, <2>1 DEF HeaderInv, Behind
<1>3. BinderTypes'
  BY DEF IInv, BinderTypes, users, reader, Forget
<1>4. ParseInv'
  BY DEF IInv, ParseInv, Behind, HeaderRead, reader
<1> QED  BY <1>2, <1>3, <1>4 DEF IInv

LEMMA BinderStep == IInv /\ [Next]_vars => IInv'
<1> SUFFICES ASSUME IInv, [Next]_vars PROVE IInv'
  OBVIOUS
<1>0. /\ fp \in Nat /\ item \in Nat \ {0} /\ offset \in Nat /\ offsets \in Seq(Nat)
      /\ disk \in Seq(Nat) /\ Len(disk) \in Nat /\ Len(entries) \in Nat
      /\ IndexSize \in Nat /\ item + 1 \in Nat \ {0}
      /\ head \in [ptrs : BOOLEAN, items : Nat]
  BY Numbers DEF IInv, BinderTypes, IndexSize
<1>1. CASE WriteHeader
  <2>1. disk = <<>> /\ fp = 0 /\ Write(Header) /\ UNCHANGED <<users, item, offset, offsets, reader>>
    BY <1>1 DEF WriteHeader, IInv, HeaderInv, Header
  <2>2. Header \in Seq(Nat) /\ Len(Header) = HeaderSize
    BY HeaderWords DEF IInv
  <2>3. /\ disk' \in Seq(Nat) /\ fp' = HeaderSize /\ Len(disk') >= fp' /\ Len(disk') \in Nat
        /\ \A n \in 1..Len(disk') :
             disk'[n] = IF n > fp /\ n <= fp' THEN Header[n - fp] ELSE disk[n]
    <3>1. fp <= Len(disk) /\ BinderTypes
      BY <2>1 DEF IInv
    <3>2. /\ disk' \in Seq(Nat) /\ fp' = fp + Len(Header) /\ Len(disk') >= fp'
          /\ \A n \in 1..Len(disk') :
               disk'[n] = IF n > fp /\ n <= fp' THEN Header[n - fp] ELSE disk[n]
      BY <2>1, <2>2, <3>1, WriteFacts
    <3>3. fp' = HeaderSize
      BY <2>1, <2>2, <3>2, Numbers
    <3> QED  BY <3>2, <3>3
  <2>4. ASSUME NEW k \in 1..HeaderSize PROVE disk'[k] = Header[k]
    <3>1. k \in 1..Len(disk') /\ k > fp /\ k <= fp' /\ k - fp = k
      BY <2>1, <2>3, Numbers
    <3> QED  BY <2>3, <3>1
  <2>5. Header' = Header
    BY <2>1 DEF users, Header
  <2>6. HeaderInv'
    BY <1>1, <2>3, <2>4, <2>5, Numbers DEF HeaderInv, WriteHeader, Behind
  <2>7. BinderTypes'
    BY <2>1, <2>3, Numbers DEF IInv, BinderTypes, users, reader
  <2>8. ParseInv'
    BY <1>1, <2>1 DEF WriteHeader, IInv, ParseInv, HeaderRead, reader
  <2> QED  BY <2>6, <2>7, <2>8 DEF IInv
<1>2. CASE WriteStub
  <2>1. PICK words : words = [n \in 1..IndexSize |-> 0]
    OBVIOUS
  <2>2. words \in Seq(Nat)
    <3>1. words \in [1..IndexSize -> Nat]
      BY <2>1
    <3> QED  BY <1>0, <3>1
  <2>3. FirstBlock \in Nat
    BY <1>0, Numbers DEF FirstBlock
  <2> QED  BY <1>0, <1>2, <2>1, <2>2, <2>3, WritesBehind DEF WriteStub, Behind
<1>3. CASE WriteBlock
  <2>1. item \in 1..Len(entries) /\ entries[item] # Null
    BY <1>0, <1>3 DEF WriteBlock, IInv, BinderTypes
  <2>2. Content(item) \in Seq(Nat) /\ offset + entries[item].len \in Nat
        /\ Append(offsets, offset) \in Seq(Nat)
    BY <1>0, <2>1, ContentType DEF IInv
  <2> QED  BY <1>0, <1>3, <2>2, WritesBehind DEF WriteBlock, Behind
<1>4. CASE WriteIndex
  <2>1. item \in 1..Len(entries) /\ entries[item] # Null
    BY <1>0, <1>4 DEF WriteIndex, IInv, BinderTypes
  <2>2. PICK at \in OffsetsAt(item) : Write(<<entries[item].id, at, 0>>)
    BY <1>4 DEF WriteIndex
  <2>3. at \in Nat /\ entries[item].id \in Nat
    BY <1>0, <2>1, ContentType DEF IInv, OffsetsAt
  <2>4. <<entries[item].id, at, 0>> \in Seq(Nat)
    BY <2>3
  <2> QED  BY <1>0, <1>4, <2>2, <2>4, WritesBehind DEF WriteIndex, Behind
<1>5. CASE SkipBlock \/ SkipIndex
  <2>1. ParseInv'
    BY <1>5 DEF SkipBlock, SkipIndex, IInv, ParseInv, HeaderRead, reader
  <2>2. pc \in Behind /\ fp >= HeaderSize /\ fp <= Len(disk)
    BY <1>5 DEF SkipBlock, SkipIndex, Behind, IInv, HeaderInv
  <2> QED  BY <1>0, <1>5, <2>1, <2>2, FileStill DEF SkipBlock, SkipIndex, reader, Behind
<1>6. CASE BlocksEnd
  <2>1. ParseInv'
    BY <1>6 DEF BlocksEnd, IInv, ParseInv, HeaderRead, reader
  <2>2. pc \in Behind /\ HeaderSize <= Len(disk)
    BY <1>0, <1>6, Numbers DEF BlocksEnd, Behind, IInv, HeaderInv
  <2> QED  BY <1>0, <1>6, <2>1, <2>2, FileStill, Numbers DEF BlocksEnd, reader, Behind
<1>7. CASE WriteEnds
  BY <1>0, <1>7, FileLeft DEF WriteEnds, Behind
<1>8. CASE Cut
  <2>1. PICK n \in 0..(Len(disk) - 1) : disk' = SubSeq(disk, 1, n)
    BY <1>8 DEF Cut
  <2>2. n \in 0..Len(disk)
    BY <1>0
  <2>3. /\ disk' \in Seq(Nat) /\ Len(disk') <= Len(disk)
        /\ \A k \in 1..HeaderSize : k <= Len(disk') => disk'[k] = disk[k]
    BY <1>0, <2>1, <2>2, PrefixFacts, Numbers
  <2> QED  BY <1>8, <2>3, FileLeft DEF Cut, reader
<1>9. CASE Crash
  <2>1. pc \in Behind /\ pc' = "written" /\ Forget /\ UNCHANGED <<users, reader>>
    BY <1>9 DEF Crash, Behind
  <2>2. CASE \E n \in 0..Len(disk) : disk' = SubSeq(disk, 1, n)
    <3>1. PICK n \in 0..Len(disk) : disk' = SubSeq(disk, 1, n)
      BY <2>2
    <3>2. /\ disk' \in Seq(Nat) /\ Len(disk') <= Len(disk)
          /\ \A k \in 1..HeaderSize : k <= Len(disk') => disk'[k] = disk[k]
      BY <1>0, <3>1, PrefixFacts, Numbers
    <3> QED  BY <2>1, <3>2, FileLeft
  <2>3. CASE \E n \in HeaderSize..fp :
               disk' = [w \in DOMAIN disk |-> IF w > n /\ w <= FirstBlock THEN 0 ELSE disk[w]]
    <3>1. PICK n \in HeaderSize..fp :
            disk' = [w \in DOMAIN disk |-> IF w > n /\ w <= FirstBlock THEN 0 ELSE disk[w]]
      BY <2>3
    <3>2. disk' \in [1..Len(disk) -> Nat]
      BY <1>0, <3>1
    <3>3. disk' \in Seq(Nat) /\ Len(disk') = Len(disk)
      <4>1. PICK l \in Nat : l = Len(disk)
        BY <1>0
      <4>2. disk' \in [1..l -> Nat]
        BY <3>2, <4>1
      <4>3. disk' \in Seq(Nat) /\ Len(disk') = l
        BY <4>1, <4>2
      <4> QED  BY <4>1, <4>3
    <3>4. ASSUME NEW k \in 1..HeaderSize, k <= Len(disk') PROVE disk'[k] = disk[k]
      <4>1. k \in DOMAIN disk /\ ~(k > n)
        BY <1>0, <3>3, <3>4, Numbers
      <4> QED  BY <3>1, <4>1
    <3> QED  BY <1>0, <2>1, <3>3, <3>4, FileLeft
  <2> QED  BY <1>9, <2>2, <2>3 DEF Crash
<1>10. CASE OpenRead
  <2>1. head' \in [ptrs : BOOLEAN, items : Nat]
    BY <1>10 DEF OpenRead, IInv, BinderTypes
  <2>2. ParseInv'
    BY <1>10 DEF OpenRead, IInv, ParseInv, HeaderRead
  <2>3. fp' \in Nat /\ item' \in Nat \ {0} /\ offset' \in Nat /\ offsets' \in Seq(Nat)
    <3>1. fp' = 0 /\ item' = 1 /\ offset' = offset /\ offsets' = offsets
      BY <1>10 DEF OpenRead
    <3>2. 0 \in Nat /\ 1 \in Nat \ {0}
      OBVIOUS
    <3> QED  BY <1>0, <3>1, <3>2, Zenon
  <2>4. pc # "open" /\ pc' # "open" /\ pc' \notin Behind /\ UNCHANGED <<users, disk>>
    BY <1>10 DEF OpenRead, Behind
  <2> QED  BY <2>1, <2>2, <2>3, <2>4, FileStill
<1>11. CASE ParseHeader
  <2>1. fp = 0 /\ \A n \in 1..5 : HeaderErrors[n] = 0
    BY <1>11, Numbers DEF ParseHeader, IInv, ParseInv
  <2>2. /\ Len(disk) >= 5
        /\ Matches(wants.version, disk[3]) /\ Matches(wants.unique, disk[4])
    <3>1. HeaderErrors[3] = 0 /\ HeaderErrors[4] = 0 /\ HeaderErrors[5] = 0
      BY <2>1
    <3> QED  BY <1>0, <2>1, <3>1 DEF HeaderErrors, Reads
  <2>3. disk[3] = writes.version /\ disk[4] = writes.unique /\ disk[5] = Len(entries)
    BY <1>0, <2>2, Numbers DEF IInv, HeaderInv, Header
  <2>4. Asked
    BY <2>2, <2>3 DEF Asked, Matches
  <2>5. head' \in [ptrs : BOOLEAN, items : Nat] /\ head'.items = Len(entries)
    BY <1>0, <1>11, <2>3 DEF ParseHeader
  <2>6. ParseInv'
    BY <1>0, <1>11, <2>2, <2>4, <2>5, Numbers
       DEF ParseHeader, IInv, ParseInv, HeaderRead, Asked, users
  <2> QED  BY <1>0, <1>11, <2>5, <2>6, FileStill, Numbers DEF ParseHeader, Behind
<1>12. CASE ParseHeaderFails
  <2>1. head' \in [ptrs : BOOLEAN, items : Nat]
    BY <1>12 DEF ParseHeaderFails, IInv, BinderTypes
  <2>2. ParseInv'
    BY <1>12 DEF ParseHeaderFails, IInv, ParseInv, HeaderRead
  <2> QED  BY <1>0, <1>12, <2>1, <2>2, FileStill DEF ParseHeaderFails, Behind
<1>13. CASE ParseIndex
  <2>1. fp = HeaderSize /\ head.items = Len(entries) /\ Asked /\ Len(disk) >= HeaderSize
    BY <1>13 DEF ParseIndex, IInv, ParseInv, HeaderRead
  <2>2. IndexRead => Len(disk) >= HeaderSize + IndexSize
    BY <1>0, <2>1 DEF IndexRead, Reads, IndexSize
  <2>3. ParseInv'
    BY <1>0, <1>13, <2>1, <2>2
       DEF ParseIndex, IInv, ParseInv, HeaderRead, Asked, users, reader, IndexSize
  <2>4. fp' \in Nat /\ pc' \notin Behind /\ pc' # "open"
    <3>1. pc' \notin Behind /\ pc' # "open"
      BY <1>13 DEF ParseIndex, Behind
    <3>2. IndexWidth * head.items \in Nat /\ fp + IndexWidth * head.items \in Nat
      BY <1>0, Numbers
    <3> QED  BY <1>0, <1>13, <3>1, <3>2 DEF ParseIndex
  <2> QED  BY <1>0, <1>13, <2>3, <2>4, FileStill DEF ParseIndex, reader
<1>14. CASE ParseItem
  <2>1. /\ item <= head.items /\ Len(disk) >= HeaderSize + IndexSize
        /\ head.items = Len(entries)
    BY <1>14 DEF ParseItem, IInv, ParseInv, HeaderRead
  <2>2. HeaderSize + IndexWidth * (item - 1) + 2 \in 1..Len(disk)
    BY <1>0, <2>1, Numbers DEF IndexSize
  <2>3. IndexWord(item, 2) \in Nat
    BY <1>0, <2>2 DEF IndexWord
  <2>4. ParseInv'
    BY <1>14 DEF ParseItem, IInv, ParseInv, HeaderRead, Asked, users, IndexSize
  <2> QED  BY <1>0, <1>14, <2>3, <2>4, FileStill DEF ParseItem, Behind
<1>15. CASE ParseEnds
  <2>1. ParseInv'
    BY <1>15 DEF ParseEnds, IInv, ParseInv, HeaderRead, Asked, users, reader, IndexSize
  <2> QED  BY <1>0, <1>15, <2>1, FileStill DEF ParseEnds, Behind, reader
<1>16. CASE UNCHANGED vars
  <2>1. Header' = Header
    BY <1>16 DEF vars, users, Header
  <2> QED
    BY <1>16, <2>1 DEF vars, users, reader, IInv, BinderTypes, HeaderInv, ParseInv,
                       Behind, HeaderRead, Asked, IndexSize
<1> QED
  BY <1>1, <1>2, <1>3, <1>4, <1>5, <1>6, <1>7, <1>8, <1>9, <1>10, <1>11, <1>12,
     <1>13, <1>14, <1>15, <1>16 DEF Next

\* What is in the file of the header is the header, at every step of either program.
THEOREM Invariant == Spec => []IInv
BY BinderFirst, BinderStep, PTL DEF Spec

(* Wherever the writer dies or the file is cut, no handler is called before  *)
(* the whole header and the whole index were read and were those of a file   *)
(* the program asks for (BinderParser.cpp:33-77, 104-112).                   *)
THEOREM WrongFilesStayUntouched == Spec => []WrongFileUntouched
<1>1. IInv => WrongFileUntouched
  BY DEF IInv, ParseInv, HeaderRead, Asked, WrongFileUntouched
<1> QED  BY <1>1, Invariant, PTL

-----------------------------------------------------------------------------
(* What the lines of the index name. *)

NoNull == \A k \in 1..Len(entries) : entries[k] # Null

\* The block of entry k is in the file at a place behind the index.
Stored(k, at) ==
  /\ at \in Nat /\ at >= FirstBlock /\ at + entries[k].len <= Len(disk)
  /\ \A w \in 1..entries[k].len : disk[at + w] = 100 * k + w

WholeLine(k) == IndexWord(k, 1) = entries[k].id /\ Stored(k, IndexWord(k, 2))
HalfLine(k) == IndexWord(k, 1) \in {0, entries[k].id} /\ IndexWord(k, 2) = 0
NoLine(k) == IndexWord(k, 1) = 0 /\ IndexWord(k, 2) = 0

\* n lines are whole, and one more is begun perhaps.
Lines(n) ==
  \A k \in 1..Len(entries) :
    /\ k <= n => WholeLine(k)
    /\ k = n + 1 => HalfLine(k)
    /\ k > n + 1 => NoLine(k)

WriteInv ==
  /\ pc \in {"open", "stub"} => offsets = <<>>
  /\ pc = "stub" => Len(disk) = HeaderSize /\ fp = HeaderSize
  /\ pc \in {"blocks", "index"} => Len(disk) >= FirstBlock /\ item <= Len(entries) + 1
  /\ pc = "blocks" =>
       /\ fp = Len(disk) /\ fp = offset
       /\ Len(offsets) = item - 1
       /\ \A k \in 1..Len(entries) : NoLine(k)
  /\ pc = "index" =>
       /\ fp = HeaderSize + IndexWidth * (item - 1)
       /\ Len(offsets) = Len(entries)
       /\ \A k \in 1..Len(entries) :
            IF k < item THEN WholeLine(k) ELSE NoLine(k)
  /\ pc \in {"blocks", "index"} => \A k \in 1..Len(offsets) : Stored(k, offsets[k])

Calls == [to : Nat, at : Nat, ptrs : BOOLEAN]

\* What the first l lines have handed to the handlers, g, if n are whole.
Handed(g, l, n) ==
  /\ \A i \in 1..n : i <= l /\ Handles(entries[i].id) =>
       Place(i) \in 1..Len(g) /\ Delivers(g[Place(i)], i)
  /\ l <= n => Len(g) = Place(l)
  /\ l > n =>
       /\ Len(g) >= Place(n)
       /\ \A k \in (Place(n) + 1)..Len(g) :
            \/ Blank(g[k])
            \/ k = Place(n) + 1 /\ Torn(g[k], n + 1)

Left == {"written", "parse header", "parse index", "items", "parsed", "failed"}

LeftInv ==
  pc \in Left /\ damage # "cut" /\ Len(disk) >= FirstBlock =>
    \E n \in 0..Len(entries) :
      /\ Lines(n)
      /\ damage = "none" => n = Len(entries)
      /\ pc \in {"items", "parsed"} => Handed(given, item - 1, n)

ReadInv ==
  /\ given \in Seq(Calls)
  /\ pc \in {"parse header", "parse index"} => item = 1
  /\ pc \in HeaderRead => head.ptrs = ptr64
  /\ pc \in {"items", "parsed"} => item <= head.items + 1
  /\ pc = "parsed" => item = head.items + 1

TripInv == ReadInv /\ (NoNull => WriteInv /\ LeftInv)

-----------------------------------------------------------------------------
LEMMA Places ==
  /\ Place(0) = 0
  /\ \A n \in Nat : Place(n) \in Nat
  /\ \A n \in Nat : Place(n + 1) = IF Handles(entries[n + 1].id) THEN Place(n) + 1 ELSE Place(n)
  /\ \A m, n \in Nat : m <= n => Place(m) <= Place(n)
<1> DEFINE S(n) == {i \in 1..n : Handles(entries[i].id)}
<1>1. ASSUME NEW n \in Nat PROVE IsFiniteSet(S(n)) /\ Cardinality(S(n)) \in Nat
  <2>1. IsFiniteSet(1..n)
    BY FS_Interval
  <2>2. S(n) \subseteq 1..n
    OBVIOUS
  <2> QED  BY <2>1, <2>2, FS_Subset, FS_CardinalityType
<1>2. S(0) = {}
  OBVIOUS
<1>3. ASSUME NEW n \in Nat, Handles(entries[n + 1].id)
      PROVE  S(n + 1) = S(n) \union {n + 1} /\ n + 1 \notin S(n)
  BY <1>3
<1>4. ASSUME NEW n \in Nat, ~Handles(entries[n + 1].id)
      PROVE  S(n + 1) = S(n)
  BY <1>4
<1>5. ASSUME NEW m \in Nat, NEW n \in Nat, m <= n PROVE S(m) \subseteq S(n)
  BY <1>5
<1> HIDE DEF S
<1>6. Cardinality(S(0)) = 0
  BY <1>2, FS_EmptySet
<1>7. ASSUME NEW n \in Nat
      PROVE  Cardinality(S(n + 1)) =
               IF Handles(entries[n + 1].id) THEN Cardinality(S(n)) + 1 ELSE Cardinality(S(n))
  BY <1>1, <1>3, <1>4, FS_AddElement
<1>8. ASSUME NEW m \in Nat, NEW n \in Nat, m <= n PROVE Cardinality(S(m)) <= Cardinality(S(n))
  BY <1>1, <1>5, <1>8, FS_Subset
<1>9. \A n : Place(n) = Cardinality(S(n))
  BY DEF Place, S
<1> QED  BY <1>1, <1>6, <1>7, <1>8, <1>9

\* The word j of line k of the index.
Spot(k, j) == HeaderSize + IndexWidth * (k - 1) + j

LEMMA Spots ==
  ASSUME Len(entries) \in Nat, NEW k \in 1..Len(entries), NEW j \in 1..2
  PROVE  /\ IndexWord(k, j) = disk[Spot(k, j)] /\ Spot(k, j) \in Nat
         /\ Spot(k, j) > HeaderSize /\ Spot(k, j) <= FirstBlock
         /\ Spot(k, j) = 2 + 3 * k + j
BY Numbers DEF IndexWord, Spot, FirstBlock, IndexSize

LEMMA FirstBlockIs == Len(entries) \in Nat => FirstBlock = 5 + 3 * Len(entries)
BY Numbers DEF FirstBlock, IndexSize

\* A block stays where it is as long as no word behind the index changes.
LEMMA StoredStays ==
  ASSUME BinderTypes, BinderTypes', UNCHANGED users, Len(disk') >= Len(disk),
         \A q \in (FirstBlock + 1)..Len(disk) : disk'[q] = disk[q],
         NEW k \in 1..Len(entries), entries[k] # Null, NEW at, Stored(k, at)
  PROVE  Stored(k, at)'
<1>1. entries[k].len \in Nat /\ Len(entries) \in Nat /\ FirstBlock \in Nat
  <2>1. Len(entries) \in Nat /\ entries[k] \in Blocks
    BY DEF BinderTypes
  <2>2. PICK l \in 0..MaxLength : entries[k].len = l
    BY <2>1 DEF Blocks
  <2>3. MaxLength \in Nat
    BY BinderAssumption
  <2> QED  BY <2>1, <2>2, <2>3, FirstBlockIs
<1>2. entries' = entries /\ FirstBlock' = FirstBlock
  BY DEF users, FirstBlock, IndexSize
<1>3. Len(disk) \in Nat /\ Len(disk') \in Nat
  BY DEF BinderTypes
<1>4. /\ at \in Nat /\ at >= FirstBlock /\ at + entries[k].len <= Len(disk)
      /\ \A w \in 1..entries[k].len : disk[at + w] = 100 * k + w
  BY DEF Stored
<1>5. ASSUME NEW w \in 1..entries[k].len PROVE disk'[at + w] = 100 * k + w
  <2>1. at + w \in (FirstBlock + 1)..Len(disk)
    BY <1>1, <1>3, <1>4
  <2> QED  BY <1>4, <2>1
<1>6. at + entries[k].len <= Len(disk')
  BY <1>1, <1>3, <1>4
<1> QED  BY <1>2, <1>4, <1>5, <1>6 DEF Stored

\* A line stays as long as its words do, and its block.
LEMMA LineStays ==
  ASSUME Len(entries) \in Nat, UNCHANGED users, NEW k \in 1..Len(entries),
         disk'[Spot(k, 1)] = disk[Spot(k, 1)], disk'[Spot(k, 2)] = disk[Spot(k, 2)],
         \A at : Stored(k, at) => Stored(k, at)'
  PROVE  /\ NoLine(k) => NoLine(k)'
         /\ HalfLine(k) => HalfLine(k)'
         /\ WholeLine(k) => WholeLine(k)'
<1>1. IndexWord(k, 1)' = IndexWord(k, 1) /\ IndexWord(k, 2)' = IndexWord(k, 2)
  BY DEF IndexWord, Spot
<1>2. entries' = entries
  BY DEF users
<1>3. PICK at : at = IndexWord(k, 2)
  OBVIOUS
<1>4. WholeLine(k) => IndexWord(k, 1) = entries[k].id /\ Stored(k, at)'
  BY <1>3 DEF WholeLine
<1>5. at = IndexWord(k, 2)'
  BY <1>1, <1>3
<1>6. IndexWord(k, 1) = entries[k].id /\ Stored(k, at)' => WholeLine(k)'
  BY <1>1, <1>2, <1>5 DEF WholeLine, Stored, FirstBlock, IndexSize
<1> QED  BY <1>1, <1>2, <1>4, <1>6 DEF NoLine, HalfLine

LEMMA ReadStep == IInv /\ IInv' /\ ReadInv /\ [Next]_vars => ReadInv'
<1> SUFFICES ASSUME IInv, IInv', ReadInv, [Next]_vars PROVE ReadInv'
  OBVIOUS
<1>1. CASE WriteHeader \/ WriteStub \/ WriteBlock \/ SkipBlock \/ BlocksEnd
             \/ WriteIndex \/ SkipIndex \/ WriteEnds \/ Cut \/ Crash
  <2>1. UNCHANGED reader /\ pc' \in {"stub", "blocks", "index", "written"}
    BY <1>1 DEF WriteHeader, WriteStub, WriteBlock, SkipBlock, BlocksEnd, WriteIndex,
                SkipIndex, WriteEnds, Cut, Crash
  <2> QED  BY <2>1 DEF ReadInv, reader, HeaderRead
<1>2. CASE OpenRead
  BY <1>2 DEF OpenRead, ReadInv, HeaderRead
<1>3. CASE ParseHeader
  <2>1. fp = 0 /\ Len(disk) \in Nat /\ \A n \in 1..5 : HeaderErrors[n] = 0
    <3>1. 1..HeaderSize = 1..5
      BY Numbers
    <3>2. \A n \in 1..HeaderSize : HeaderErrors[n] = 0
      BY <1>3 DEF ParseHeader
    <3>3. fp = 0
      <4>1. pc = "parse header"
        BY <1>3 DEF ParseHeader
      <4> QED  BY <4>1 DEF IInv, ParseInv
    <3>4. Len(disk) \in Nat
      BY DEF IInv, BinderTypes
    <3> QED  BY <3>1, <3>2, <3>3, <3>4, Zenon
  <2>2. Len(disk) >= 5
    <3>1. HeaderErrors[5] = 0
      BY <2>1
    <3> QED  BY <2>1, <3>1 DEF HeaderErrors, Reads
  <2>3. disk[2] = Flag(ptr64) /\ ptr64 \in BOOLEAN
    BY <2>1, <2>2, Numbers DEF IInv, HeaderInv, Header, BinderTypes
  <2>4. (disk[2] = 1) = ptr64
    BY <2>3 DEF Flag
  <2>5. head'.ptrs = ptr64' /\ given' = given /\ item' = item /\ pc' = "parse index"
    BY <1>3, <2>4 DEF ParseHeader, users
  <2> QED  BY <1>3, <2>5 DEF ReadInv, ParseHeader, HeaderRead
<1>4. CASE ParseHeaderFails
  BY <1>4 DEF ParseHeaderFails, ReadInv, HeaderRead
<1>5. CASE ParseIndex
  <2>1. item = 1 /\ head.items \in Nat
    BY <1>5 DEF ParseIndex, ReadInv, IInv, BinderTypes
  <2>2. item' = item /\ head' = head /\ given' = given /\ ptr64' = ptr64
        /\ pc = "parse index" /\ pc' \in {"items", "failed"}
    BY <1>5 DEF ParseIndex, reader, users
  <2>3. item' <= head'.items + 1
    <3>1. item <= head.items + 1
      BY <2>1
    <3> QED  BY <2>2, <3>1, Zenon
  <2> QED  BY <2>2, <2>3 DEF ReadInv, HeaderRead
<1>6. CASE ParseItem
  <2>1. /\ item \in Nat \ {0} /\ item <= head.items /\ head.items = Len(entries)
        /\ Len(disk) \in Nat /\ Len(entries) \in Nat /\ Len(disk) >= FirstBlock
    BY <1>6, Numbers DEF ParseItem, IInv, BinderTypes, ParseInv, HeaderRead, FirstBlock
  <2>2. ASSUME NEW j \in 1..2 PROVE IndexWord(item, j) \in Nat
    <3>1. item \in 1..Len(entries) /\ FirstBlock \in Nat
      BY <2>1, FirstBlockIs
    <3>2. /\ IndexWord(item, j) = disk[Spot(item, j)] /\ Spot(item, j) \in Nat
          /\ Spot(item, j) > 5 /\ Spot(item, j) <= FirstBlock
      BY <2>1, <3>1, Spots, Numbers
    <3>3. Spot(item, j) \in 1..Len(disk)
      BY <2>1, <3>1, <3>2
    <3>4. disk \in Seq(Nat)
      BY DEF IInv, BinderTypes
    <3> QED  BY <3>2, <3>3, <3>4
  <2>3. head.ptrs \in BOOLEAN
    BY DEF IInv, BinderTypes
  <2>4. [to |-> IndexWord(item, 1), at |-> IndexWord(item, 2), ptrs |-> head.ptrs] \in Calls
    BY <2>2, <2>3 DEF Calls
  <2>5. given' \in Seq(Calls)
    BY <1>6, <2>4 DEF ParseItem, ReadInv
  <2>6. head' = head /\ ptr64' = ptr64 /\ pc' = "items" /\ pc = "items" /\ item' = item + 1
    BY <1>6 DEF ParseItem, users
  <2> QED  BY <2>1, <2>5, <2>6 DEF ReadInv, HeaderRead
<1>7. CASE ParseEnds
  <2>1. item \in Nat /\ head.items \in Nat
    BY DEF IInv, BinderTypes
  <2> QED  BY <1>7, <2>1 DEF ParseEnds, ReadInv, HeaderRead, reader, users
<1>8. CASE UNCHANGED vars
  BY <1>8 DEF vars, ReadInv
<1> QED  BY <1>1, <1>2, <1>3, <1>4, <1>5, <1>6, <1>7, <1>8 DEF Next

\* A step of write() that puts words into the index keeps the blocks, and one
\* that puts them behind the file keeps the lines.
LEMMA WriteKeeps ==
  ASSUME IInv, IInv', NoNull, UNCHANGED users, fp <= Len(disk),
         NEW words \in Seq(Nat), Write(words),
         fp = Len(disk) \/ fp + Len(words) <= FirstBlock
  PROVE  /\ \A k \in 1..Len(entries), at \in Nat : Stored(k, at) => Stored(k, at)'
         /\ \A k \in 1..Len(entries), j \in 1..2 :
              FirstBlock <= Len(disk) /\ (Spot(k, j) <= fp \/ Spot(k, j) > fp + Len(words))
                => disk'[Spot(k, j)] = disk[Spot(k, j)]
<1>1. /\ disk' \in Seq(Nat) /\ fp' \in Nat /\ fp' = fp + Len(words)
      /\ Len(disk') >= Len(disk) /\ Len(disk') >= fp'
      /\ \A n \in 1..Len(disk') :
           disk'[n] = IF n > fp /\ n <= fp' THEN words[n - fp] ELSE disk[n]
  BY WriteFacts DEF IInv
<1>2. /\ fp \in Nat /\ Len(words) \in Nat /\ Len(entries) \in Nat
      /\ Len(disk) \in Nat /\ Len(disk') \in Nat /\ FirstBlock \in Nat
  BY <1>1, FirstBlockIs DEF IInv, BinderTypes
<1>3. ASSUME NEW q \in (FirstBlock + 1)..Len(disk) PROVE disk'[q] = disk[q]
  <2>1. q \in 1..Len(disk') /\ ~(q > fp /\ q <= fp')
    BY <1>1, <1>2
  <2> QED  BY <1>1, <2>1
<1>4. BinderTypes /\ BinderTypes' /\ \A k \in 1..Len(entries) : entries[k] # Null
  BY DEF IInv, NoNull
<1>5. ASSUME NEW k \in 1..Len(entries), NEW at \in Nat, Stored(k, at)
      PROVE  Stored(k, at)'
  BY <1>1, <1>3, <1>4, <1>5, StoredStays
<1>6. ASSUME NEW k \in 1..Len(entries), NEW j \in 1..2, FirstBlock <= Len(disk),
             Spot(k, j) <= fp \/ Spot(k, j) > fp + Len(words)
      PROVE  disk'[Spot(k, j)] = disk[Spot(k, j)]
  <2>1. Spot(k, j) \in Nat /\ Spot(k, j) > HeaderSize /\ Spot(k, j) <= FirstBlock
    BY <1>2, Spots
  <2>2. PICK spot \in Nat : spot = Spot(k, j)
    BY <2>1
  <2>3. spot > 5 /\ spot <= FirstBlock /\ (spot <= fp \/ spot > fp + Len(words))
    BY <1>6, <2>1, <2>2, Numbers
  <2>4. spot \in 1..Len(disk') /\ ~(spot > fp /\ spot <= fp')
    <3>1. PICK len \in Nat : len = Len(words)
      BY <1>2
    <3>2. fp' = fp + len /\ (spot <= fp \/ spot > fp + len)
      BY <1>1, <2>3, <3>1
    <3>3. ~(spot > fp /\ spot <= fp')
      BY <1>2, <3>2
    <3>4. spot <= Len(disk')
      BY <1>1, <1>2, <1>6, <2>3
    <3> QED  BY <1>2, <2>3, <3>3, <3>4
  <2>5. disk'[spot] = disk[spot]
    BY <1>1, <2>4
  <2> QED  BY <2>2, <2>5
<1> QED  BY <1>5, <1>6

LEMMA WriteStep == IInv /\ IInv' /\ NoNull /\ WriteInv /\ [Next]_vars => WriteInv'
<1> SUFFICES ASSUME IInv, IInv', NoNull, WriteInv, [Next]_vars PROVE WriteInv'
  OBVIOUS
<1>0. /\ fp \in Nat /\ item \in Nat \ {0} /\ offset \in Nat /\ offsets \in Seq(Nat)
      /\ disk \in Seq(Nat) /\ Len(disk) \in Nat /\ Len(entries) \in Nat
      /\ Len(offsets) \in Nat /\ FirstBlock \in Nat /\ FirstBlock = 5 + 3 * Len(entries)
      /\ HeaderSize = 5 /\ IndexWidth = 3
      /\ disk' \in Seq(Nat) /\ Len(disk') \in Nat /\ fp' \in Nat
  BY Numbers, FirstBlockIs DEF IInv, BinderTypes
<1>n. /\ fp \in Nat /\ Len(disk) \in Nat /\ Len(entries) \in Nat /\ Len(disk') \in Nat /\ fp' \in Nat
      /\ FirstBlock \in Nat /\ FirstBlock = 5 + 3 * Len(entries)
  BY <1>0
<1>1. CASE WriteHeader
  <2>1. disk = <<>> /\ fp = 0 /\ Write(Header)
    BY <1>1 DEF WriteHeader, IInv, HeaderInv, Header
  <2>2. Header \in Seq(Nat) /\ Len(Header) = 5 /\ BinderTypes
    BY <1>0, HeaderWords DEF IInv
  <2>3. Len(disk) = 0 /\ fp <= Len(disk)
    BY <2>1
  <2>4. fp' = fp + Len(Header) /\ Len(disk') >= fp' /\ Len(disk') \in {Len(disk), fp'}
    BY <2>1, <2>2, <2>3, WriteFacts
  <2>5. fp' = 5 /\ Len(disk') = 5
    BY <1>0, <2>1, <2>2, <2>3, <2>4
  <2>6. pc' \in {"written", "stub"} /\ offsets' = <<>>
    BY <1>1 DEF WriteHeader, WriteInv
  <2> QED  BY <1>0, <2>5, <2>6 DEF WriteInv, HeaderSize
<1>2. CASE WriteStub
  <2>1. PICK words : words = [n \in 1..IndexSize |-> 0]
    OBVIOUS
  <2>2. IndexSize \in Nat /\ IndexSize = 3 * Len(entries)
    BY <1>0 DEF IndexSize
  <2>3. words \in Seq(Nat) /\ Len(words) = IndexSize
    <3>1. words \in [1..IndexSize -> Nat]
      BY <2>1
    <3> QED  BY <2>2, <3>1
  <2>4. fp = 5 /\ Len(disk) = 5 /\ fp <= Len(disk)
    <3>1. pc = "stub"
      BY <1>2 DEF WriteStub
    <3>2. fp = HeaderSize /\ Len(disk) = HeaderSize
      BY <3>1, Zenon DEF WriteInv
    <3>3. HeaderSize = 5 /\ 5 <= 5
      BY Numbers
    <3> QED  BY <3>2, <3>3, Zenon
  <2>5. Write(words) /\ BinderTypes
    BY <1>2, <2>1 DEF WriteStub, IInv
  <2>6. fp' = FirstBlock /\ Len(disk') = FirstBlock
    <3>1. fp' = fp + Len(words) /\ Len(disk') \in {Len(disk), fp'} /\ Len(disk') >= fp'
      BY <2>3, <2>4, <2>5, WriteFacts
    <3>2. fp' = 5 + 3 * Len(entries)
      BY <1>0, <2>2, <2>3, <2>4, <3>1
    <3>3. Len(disk') = Len(disk) \/ Len(disk') = fp'
      BY <3>1
    <3>4. PICK n \in Nat, len \in Nat : n = Len(entries) /\ len = Len(disk')
      BY <1>n
    <3>5. fp' = 5 + 3 * n /\ len >= fp' /\ (len = 5 \/ len = fp') /\ FirstBlock = 5 + 3 * n
      BY <1>n, <2>4, <3>1, <3>2, <3>3, <3>4
    <3>6. fp' = FirstBlock /\ len = FirstBlock
      BY <1>n, <3>5
    <3> QED  BY <3>4, <3>6
  <2>7. ASSUME NEW k \in 1..Len(entries), NEW j \in 1..2 PROVE disk'[Spot(k, j)] = 0
    <3>1. Spot(k, j) \in Nat /\ Spot(k, j) > 5 /\ Spot(k, j) <= FirstBlock
      BY <1>0, Spots
    <3>2. PICK spot \in Nat : spot = Spot(k, j)
      BY <3>1
    <3>3. spot \in 1..Len(disk') /\ spot > fp /\ spot <= fp' /\ spot - fp \in 1..IndexSize
      BY <1>0, <2>2, <2>4, <2>6, <3>1, <3>2
    <3>4. disk'[spot] = words[spot - fp]
      BY <2>3, <2>4, <2>5, <3>3, WriteFacts
    <3>5. words[spot - fp] = 0
      BY <2>1, <3>3
    <3> QED  BY <3>2, <3>4, <3>5
  <2>8. \A k \in 1..Len(entries) : NoLine(k)'
    BY <2>7 DEF NoLine, IndexWord, Spot
  <2>9. /\ pc' = "blocks" /\ item' = 1 /\ offset' = FirstBlock /\ offsets' = offsets
        /\ entries' = entries /\ FirstBlock' = FirstBlock
    BY <1>2 DEF WriteStub, users, FirstBlock, IndexSize
  <2>10. offsets = <<>>
    BY <1>2 DEF WriteStub, WriteInv
  <2> QED  BY <1>0, <2>6, <2>8, <2>9, <2>10 DEF WriteInv
<1>3. CASE WriteBlock
  <2>1. item \in 1..Len(entries) /\ entries[item] # Null
    BY <1>0, <1>3 DEF WriteBlock
  <2>2. PICK i \in 1..Len(entries) : i = item
    BY <2>1
  <2>3. PICK words \in Seq(Nat) : words = Content(i) /\ Write(words)
    BY <1>3, <2>1, <2>2, ContentType DEF WriteBlock, IInv
  <2>4. pc = "blocks" /\ UNCHANGED users /\ entries' = entries /\ FirstBlock' = FirstBlock
        /\ pc' = "blocks" /\ item' = i + 1 /\ offset' = offset + entries[i].len
        /\ offsets' = Append(offsets, offset)
    BY <1>3, <2>2 DEF WriteBlock, users, FirstBlock, IndexSize
  <2>5. fp = Len(disk) /\ fp = offset /\ Len(offsets) = i - 1 /\ Len(disk) >= FirstBlock
    BY <2>2, <2>4 DEF WriteInv
  <2>6. entries[i].len \in Nat
    BY <2>1, <2>2, ContentType DEF IInv
  <2>7. Len(words) = entries[i].len /\ \A w \in 1..entries[i].len : words[w] = 100 * i + w
    BY <2>3, <2>6 DEF Content
  <2>8. fp <= Len(disk) /\ (fp = Len(disk) \/ fp + Len(words) <= FirstBlock)
    BY <1>0, <2>5
  <2>9. \A k \in 1..Len(entries), at \in Nat : Stored(k, at) => Stored(k, at)'
    BY <2>3, <2>4, <2>8, WriteKeeps
  <2>10. \A k \in 1..Len(entries), j \in 1..2 :
           FirstBlock <= Len(disk) /\ (Spot(k, j) <= fp \/ Spot(k, j) > fp + Len(words))
             => disk'[Spot(k, j)] = disk[Spot(k, j)]
    BY <2>3, <2>4, <2>8, WriteKeeps
  <2>11. ASSUME NEW k \in 1..Len(entries) PROVE NoLine(k)'
    <3>1. ASSUME NEW j \in 1..2 PROVE disk'[Spot(k, j)] = disk[Spot(k, j)]
      <4>1. Spot(k, j) \in Nat /\ Spot(k, j) <= FirstBlock
        BY <1>0, Spots
      <4>2. Spot(k, j) <= fp
        BY <1>0, <2>5, <4>1
      <4> QED  BY <2>5, <2>10, <4>2
    <3>2. NoLine(k)
      BY <2>4 DEF WriteInv
    <3> QED  BY <3>1, <3>2 DEF NoLine, IndexWord, Spot
  <2>12. fp' = fp + Len(words) /\ Len(disk') \in {Len(disk), fp'} /\ Len(disk') >= fp'
    BY <2>3, <2>8, WriteFacts DEF IInv
  <2>13. \A n \in 1..Len(disk') :
           disk'[n] = IF n > fp /\ n <= fp' THEN words[n - fp] ELSE disk[n]
    BY <2>3, <2>8, WriteFacts DEF IInv
  <2>14. PICK place \in Nat, len \in Nat : place = offset /\ len = entries[i].len
    BY <1>0, <2>6
  <2>15. fp = place /\ fp' = place + len /\ Len(disk') = place + len /\ place >= FirstBlock
    BY <1>0, <2>5, <2>7, <2>12, <2>14
  <2>16. Stored(i, place)'
    <3>1. ASSUME NEW w \in 1..len PROVE disk'[place + w] = 100 * i + w
      <4>1. place + w \in 1..Len(disk') /\ place + w > fp /\ place + w <= fp' /\ (place + w) - fp = w
        BY <2>14, <2>15
      <4>2. disk'[place + w] = words[w]
        BY <2>13, <4>1
      <4> QED  BY <2>7, <2>14, <4>2
    <3> QED  BY <2>4, <2>14, <2>15, <3>1 DEF Stored
  <2>17. Len(offsets') = i /\ offsets'[i] = place
    BY <1>0, <2>4, <2>5, <2>14
  <2>18. ASSUME NEW k \in 1..i PROVE Stored(k, offsets[k])'
    <3>1. CASE k = i
      <4>1. place = offsets'[k]
        BY <2>17, <3>1
      <4> QED  BY <2>16, <3>1, <4>1, Zenon
    <3>2. CASE k # i
      <4>1. k \in 1..Len(offsets) /\ k \in 1..Len(entries)
        BY <1>0, <2>5, <3>2
      <4>2. PICK at \in Nat : at = offsets[k]
        BY <1>0, <4>1
      <4>3. Stored(k, at)
        BY <2>4, <4>1, <4>2 DEF WriteInv
      <4>4. Stored(k, at)'
        BY <2>9, <4>1, <4>3
      <4>5. offsets'[k] = at
        BY <1>0, <2>4, <4>1, <4>2
      <4> QED  BY <4>4, <4>5, Zenon
    <3> QED  BY <3>1, <3>2
  <2>19. /\ Len(disk') >= FirstBlock' /\ item' <= Len(entries') + 1
         /\ fp' = Len(disk') /\ fp' = offset' /\ Len(offsets') = item' - 1
    BY <1>0, <2>4, <2>5, <2>14, <2>15, <2>17
  <2>20. \A k \in 1..Len(offsets') : Stored(k, offsets[k])'
    BY <2>17, <2>18, Zenon
  <2> QED  BY <2>4, <2>11, <2>19, <2>20 DEF WriteInv
<1>4. CASE SkipBlock \/ SkipIndex
  <2>1. item \in 1..Len(entries) /\ entries[item] = Null
    BY <1>0, <1>4 DEF SkipBlock, SkipIndex
  <2> QED  BY <2>1 DEF NoNull
<1>5. CASE BlocksEnd
  <2>1. /\ pc = "blocks" /\ item > Len(entries) /\ pc' = "index" /\ item' = 1 /\ fp' = HeaderSize
        /\ UNCHANGED users /\ entries' = entries /\ disk' = disk /\ offsets' = offsets
    BY <1>5 DEF BlocksEnd, users
  <2>2. /\ Len(disk) >= FirstBlock /\ item <= Len(entries) + 1 /\ Len(offsets) = item - 1
    BY <2>1 DEF WriteInv
  <2>3. (\A k \in 1..Len(entries) : NoLine(k)) /\ \A k \in 1..Len(offsets) : Stored(k, offsets[k])
    BY <2>1 DEF WriteInv
  <2>4. Len(offsets) = Len(entries) /\ fp' = HeaderSize + IndexWidth * (item' - 1)
        /\ item' <= Len(entries) + 1
    BY <1>0, <2>1, <2>2
  <2>5. (\A k \in 1..Len(entries) : NoLine(k)') /\ \A k \in 1..Len(offsets') : Stored(k, offsets[k])'
    BY <2>1, <2>3 DEF NoLine, IndexWord, Stored, FirstBlock, IndexSize
  <2>6. \A k \in 1..Len(entries) : ~(k < item')
    BY <1>0, <2>1
  <2>7. FirstBlock' = FirstBlock
    BY <2>1 DEF FirstBlock, IndexSize
  <2> QED  BY <2>1, <2>2, <2>4, <2>5, <2>6, <2>7 DEF WriteInv
<1>6. CASE WriteIndex
  <2>1. /\ pc = "index" /\ pc' = "index" /\ item <= Len(entries) /\ item' = item + 1
        /\ UNCHANGED users /\ entries' = entries /\ offsets' = offsets /\ FirstBlock' = FirstBlock
    BY <1>6 DEF WriteIndex, users, FirstBlock, IndexSize
  <2>2. PICK i \in 1..Len(entries) : i = item
    BY <1>0, <2>1
  <2>3. fp = HeaderSize + IndexWidth * (item - 1) /\ Len(offsets) = Len(entries)
        /\ Len(disk) >= FirstBlock
    BY <2>1 DEF WriteInv
  <2>4. \A k \in 1..Len(entries) : IF k < i THEN WholeLine(k) ELSE NoLine(k)
    BY <2>1, <2>2 DEF WriteInv
  <2>5. \A k \in 1..Len(entries) : Stored(k, offsets[k])
    BY <2>1, <2>3 DEF WriteInv
  <2>6. PICK id \in Nat, at \in Nat : id = entries[i].id /\ at = offsets[i]
    <3>1. entries[item] # Null
      BY <1>6 DEF WriteIndex
    <3>2. entries[i].id \in Nat
      BY <2>2, <3>1, ContentType DEF IInv
    <3> QED  BY <1>0, <2>3, <3>2
  <2>7. PICK words \in Seq(Nat) : words = <<id, at, 0>> /\ Write(words)
    <3>1. OffsetsAt(item) = {at}
      BY <2>2, <2>3, <2>6 DEF OffsetsAt
    <3>2. \E a \in {at} : Write(<<entries[item].id, a, 0>>)
      BY <1>6, <3>1 DEF WriteIndex
    <3>3. Write(<<id, at, 0>>)
      BY <2>2, <2>6, <3>2, Zenon
    <3>4. <<id, at, 0>> \in Seq(Nat)
      OBVIOUS
    <3> QED  BY <3>3, <3>4
  <2>8. Len(words) = 3 /\ words[1] = id /\ words[2] = at
    BY <2>7
  <2>9. fp = 2 + 3 * i
    BY <1>0, <2>2, <2>3
  <2>10. fp + Len(words) <= FirstBlock /\ fp <= Len(disk)
    <3>1. fp + 3 <= FirstBlock
      BY <1>n, <2>9
    <3> QED  BY <1>n, <2>3, <2>8, <3>1
  <2>11. \A k \in 1..Len(entries), a \in Nat : Stored(k, a) => Stored(k, a)'
    BY <2>1, <2>7, <2>10, WriteKeeps
  <2>12. \A k \in 1..Len(entries), j \in 1..2 :
           FirstBlock <= Len(disk) /\ (Spot(k, j) <= fp \/ Spot(k, j) > fp + Len(words))
             => disk'[Spot(k, j)] = disk[Spot(k, j)]
    BY <2>1, <2>7, <2>10, WriteKeeps
  <2>13. fp' = fp + Len(words) /\ Len(disk') >= Len(disk)
    BY <2>7, <2>10, WriteFacts DEF IInv
  <2>14. \A n \in 1..Len(disk') :
           disk'[n] = IF n > fp /\ n <= fp' THEN words[n - fp] ELSE disk[n]
    BY <2>7, <2>10, WriteFacts DEF IInv
  <2>15. ASSUME NEW k \in 1..Len(entries), k # i
         PROVE  (NoLine(k) => NoLine(k)') /\ (WholeLine(k) => WholeLine(k)')
    <3>1. ASSUME NEW j \in 1..2 PROVE disk'[Spot(k, j)] = disk[Spot(k, j)]
      <4>1. Spot(k, j) = 2 + 3 * k + j
        BY <1>0, Spots
      <4>2. Spot(k, j) <= fp \/ Spot(k, j) > fp + Len(words)
        BY <1>0, <2>8, <2>9, <2>15, <4>1
      <4> QED  BY <2>3, <2>12, <4>2
    <3>2. ASSUME NEW a, Stored(k, a) PROVE Stored(k, a)'
      <4>1. a \in Nat
        BY <3>2 DEF Stored
      <4> QED  BY <2>11, <3>2, <4>1
    <3>3. disk'[Spot(k, 1)] = disk[Spot(k, 1)] /\ disk'[Spot(k, 2)] = disk[Spot(k, 2)]
      BY <3>1
    <3>4. \A a : Stored(k, a) => Stored(k, a)'
      BY <3>2
    <3>5. Len(entries) \in Nat /\ UNCHANGED users
      BY <1>0, <2>1
    <3> QED  BY <3>3, <3>4, <3>5, LineStays, Zenon
  <2>16. WholeLine(i)'
    <3>1. ASSUME NEW j \in 1..2 PROVE IndexWord(i, j)' = words[j]
      <4>1. Spot(i, j) = 2 + 3 * i + j /\ Spot(i, j) <= FirstBlock
        BY <1>0, Spots
      <4>2. PICK spot \in Nat : spot = Spot(i, j) /\ spot = fp + j
        BY <1>0, <2>9, <4>1
      <4>3. spot \in 1..Len(disk') /\ spot > fp /\ spot <= fp' /\ spot - fp = j
        <5>1. fp' = fp + 3 /\ Len(disk') >= Len(disk) /\ Len(disk) >= FirstBlock
          BY <2>3, <2>8, <2>13
        <5>2. spot <= Len(disk') /\ spot > fp /\ spot <= fp' /\ spot - fp = j /\ spot >= 1
          BY <1>n, <4>1, <4>2, <5>1
        <5> QED  BY <1>n, <5>2
      <4>4. disk'[spot] = words[j]
        BY <2>14, <4>3
      <4> QED  BY <4>2, <4>4 DEF IndexWord, Spot
    <3>2. Stored(i, at)
      BY <2>5, <2>6
    <3>3. Stored(i, at)'
      BY <2>11, <3>2
    <3>4. at = IndexWord(i, 2)' /\ id = IndexWord(i, 1)'
      BY <2>8, <3>1
    <3>5. Stored(i, IndexWord(i, 2))'
      BY <3>3, <3>4, Zenon
    <3> QED  BY <2>1, <2>6, <3>4, <3>5 DEF WholeLine
  <2>17. ASSUME NEW k \in 1..Len(entries)
         PROVE  IF k < i + 1 THEN WholeLine(k)' ELSE NoLine(k)'
    <3>1. CASE k < i
      BY <2>4, <2>15, <3>1
    <3>2. CASE k = i
      BY <2>16, <3>2
    <3>3. CASE k > i
      BY <2>4, <2>15, <3>3
    <3> QED  BY <3>1, <3>2, <3>3
  <2>18. ASSUME NEW k \in 1..Len(offsets) PROVE Stored(k, offsets[k])'
    <3>1. k \in 1..Len(entries)
      BY <2>3
    <3>2. PICK a \in Nat : a = offsets[k]
      BY <1>0
    <3>3. Stored(k, a)'
      BY <2>5, <2>11, <3>1, <3>2
    <3>4. a = offsets'[k]
      BY <2>1, <3>2
    <3> QED  BY <3>3, <3>4, Zenon
  <2>19. /\ Len(disk') >= FirstBlock' /\ item' <= Len(entries') + 1
         /\ fp' = HeaderSize + IndexWidth * (item' - 1) /\ Len(offsets') = Len(entries')
    BY <1>0, <2>1, <2>2, <2>3, <2>8, <2>9, <2>13
  <2>20. item' = i + 1
    BY <2>1, <2>2
  <2> QED  BY <2>1, <2>17, <2>18, <2>19, <2>20 DEF WriteInv
<1>7. CASE WriteEnds \/ Cut \/ Crash \/ OpenRead \/ ParseHeader \/ ParseHeaderFails
             \/ ParseIndex \/ ParseItem \/ ParseEnds
  <2>1. pc' \in Left
    BY <1>7 DEF WriteEnds, Cut, Crash, OpenRead, ParseHeader, ParseHeaderFails, ParseIndex,
                ParseItem, ParseEnds, Left
  <2> QED  BY <2>1 DEF WriteInv, Left
<1>8. CASE UNCHANGED vars
  BY <1>8 DEF vars, WriteInv, NoLine, WholeLine, IndexWord, Stored, FirstBlock, IndexSize
<1> QED  BY <1>1, <1>2, <1>3, <1>4, <1>5, <1>6, <1>7, <1>8 DEF Next

\* The next line of the index, whole, begun or not written.
LEMMA OneItem ==
  ASSUME BinderTypes, NoNull, NEW n \in 0..Len(entries), Lines(n),
         NEW g \in Seq(Calls), NEW l \in Nat, l < Len(entries), Handed(g, l, n),
         NEW call \in Calls, call.to = IndexWord(l + 1, 1), call.at = IndexWord(l + 1, 2),
         call.ptrs = ptr64,
         NEW next \in Seq(Calls), next = IF Handles(call.to) THEN Append(g, call) ELSE g
  PROVE  Handed(next, l + 1, n)
<1>0. Len(entries) \in Nat /\ l + 1 \in 1..Len(entries) /\ n \in Nat /\ Len(g) \in Nat
      /\ Len(next) \in Nat
  BY DEF BinderTypes
<1>1. Place(l) \in Nat /\ Place(n) \in Nat /\ Place(l + 1) \in Nat
      /\ Place(l + 1) = IF Handles(entries[l + 1].id) THEN Place(l) + 1 ELSE Place(l)
  BY <1>0, Places
<1>2. /\ Len(next) = IF Handles(call.to) THEN Len(g) + 1 ELSE Len(g)
      /\ \A k \in 1..Len(g) : next[k] = g[k]
      /\ Handles(call.to) => next[Len(g) + 1] = call
  BY <1>0
<1>3. ASSUME NEW i \in 1..n, i <= l, Handles(entries[i].id)
      PROVE  Place(i) \in 1..Len(next) /\ Delivers(next[Place(i)], i)
  <2>1. Place(i) \in 1..Len(g) /\ Delivers(g[Place(i)], i)
    BY <1>3 DEF Handed
  <2>2. next[Place(i)] = g[Place(i)] /\ Place(i) \in 1..Len(next)
    BY <1>0, <1>2, <2>1
  <2> QED  BY <2>1, <2>2
<1>4. CASE l < n
  <2>1. WholeLine(l + 1)
    BY <1>0, <1>4 DEF Lines
  <2>2. call.to = entries[l + 1].id /\ Stored(l + 1, call.at)
    BY <2>1 DEF WholeLine
  <2>3. Len(g) = Place(l)
    BY <1>0, <1>4 DEF Handed
  <2>4. Len(next) = Place(l + 1)
    BY <1>1, <1>2, <2>2, <2>3
  <2>5. ASSUME Handles(entries[l + 1].id)
        PROVE  Place(l + 1) \in 1..Len(next) /\ Delivers(next[Place(l + 1)], l + 1)
    <3>1. Place(l + 1) = Len(g) + 1 /\ Len(next) = Len(g) + 1 /\ next[Place(l + 1)] = call
      BY <1>1, <1>2, <2>2, <2>3, <2>5
    <3>2. Delivers(call, l + 1)
      BY <2>2 DEF Delivers, Stored, Content
    <3> QED  BY <1>0, <3>1, <3>2
  <2>6. ASSUME NEW i \in 1..n, i <= l + 1, Handles(entries[i].id)
        PROVE  Place(i) \in 1..Len(next) /\ Delivers(next[Place(i)], i)
    <3>1. CASE i = l + 1
      BY <2>5, <2>6, <3>1
    <3>2. CASE i # l + 1
      <4>1. i <= l
        BY <1>0, <2>6, <3>2
      <4> QED  BY <1>3, <2>6, <4>1
    <3> QED  BY <3>1, <3>2
  <2>7. ~(l + 1 > n)
    BY <1>0, <1>4
  <2> QED  BY <2>4, <2>6, <2>7 DEF Handed
<1>5. CASE l >= n
  <2>1. call.at = 0 /\ \/ call.to = 0
                       \/ l = n /\ call.to = entries[n + 1].id
    <3>1. l + 1 = n + 1 => HalfLine(l + 1)
      BY <1>0 DEF Lines
    <3>2. l + 1 > n + 1 => NoLine(l + 1)
      BY <1>0 DEF Lines
    <3>3. l = n \/ l > n
      BY <1>0, <1>5
    <3>4. l = n => l + 1 = n + 1
      OBVIOUS
    <3>5. l > n => l + 1 > n + 1
      BY <1>0
    <3> QED  BY <3>1, <3>2, <3>3, <3>4, <3>5 DEF HalfLine, NoLine
  <2>2. Len(g) >= Place(n) /\ (l = n => Len(g) = Place(n))
    BY <1>0, <1>1, <1>5 DEF Handed
  <2>3. ASSUME NEW k \in (Place(n) + 1)..Len(next)
        PROVE  Blank(next[k]) \/ (k = Place(n) + 1 /\ Torn(next[k], n + 1))
    <3>1. CASE k <= Len(g)
      <4>1. l > n
        BY <1>0, <1>1, <1>5, <2>2, <3>1
      <4>2. k \in (Place(n) + 1)..Len(g) /\ k \in 1..Len(g)
        BY <1>0, <1>1, <3>1
      <4>3. Blank(g[k]) \/ (k = Place(n) + 1 /\ Torn(g[k], n + 1))
        BY <4>1, <4>2 DEF Handed
      <4> QED  BY <1>2, <4>2, <4>3
    <3>2. CASE k > Len(g)
      <4>1. Handles(call.to) /\ k = Len(g) + 1
        BY <1>0, <1>1, <1>2, <3>2
      <4>2. next[k] = call
        BY <1>2, <4>1
      <4>3. l = n => k = Place(n) + 1 /\ n + 1 <= Len(entries)
        BY <1>0, <2>2, <4>1
      <4> QED  BY <2>1, <4>2, <4>3 DEF Blank, Torn
    <3> QED  BY <1>0, <1>1, <3>1, <3>2
  <2>4. Len(next) >= Place(n)
    BY <1>0, <1>1, <1>2, <2>2
  <2>5. ASSUME NEW i \in 1..n PROVE i <= l
    BY <1>0, <1>5
  <2>6. ~(l + 1 <= n)
    BY <1>0, <1>5
  <2> QED  BY <1>3, <2>3, <2>4, <2>5, <2>6 DEF Handed
<1> QED  BY <1>0, <1>4, <1>5

\* The reader's steps leave what the lines say.
LEMMA LinesStill ==
  ASSUME UNCHANGED <<users, disk>>
  PROVE  /\ \A n : Lines(n) => Lines(n)'
         /\ \A g, l, n : Handed(g, l, n) => Handed(g, l, n)'
<1>1. entries' = entries /\ disk' = disk /\ handlers' = handlers /\ ptr64' = ptr64
  BY DEF users
<1>2. \A n : Lines(n) => Lines(n)'
  BY <1>1 DEF Lines, WholeLine, HalfLine, NoLine, Stored, IndexWord, FirstBlock, IndexSize
<1>3. ASSUME NEW n PROVE Place(n)' = Place(n)
  BY <1>1 DEF Place, Handles
<1>4. ASSUME NEW g, NEW l, NEW n, Handed(g, l, n) PROVE Handed(g, l, n)'
  <2>1. ASSUME NEW i \in 1..n, i <= l, Handles(entries[i].id)
        PROVE  (Place(i) \in 1..Len(g) /\ Delivers(g[Place(i)], i))'
    <3>1. Place(i) \in 1..Len(g) /\ Delivers(g[Place(i)], i)
      BY <1>4, <2>1 DEF Handed
    <3>2. PICK p : p = Place(i) /\ p = Place(i)'
      BY <1>3
    <3>3. Delivers(g[p], i)'
      BY <1>1, <3>1, <3>2 DEF Delivers, Content
    <3> QED  BY <3>1, <3>2, <3>3, Zenon
  <2>2. \A i : Handles(entries[i].id)' <=> Handles(entries[i].id)
    BY <1>1 DEF Handles
  <2>3. l <= n => Len(g) = Place(l)'
    BY <1>3, <1>4 DEF Handed
  <2>4. PICK p : p = Place(n) /\ p = Place(n)'
    BY <1>3
  <2>5. l > n => /\ Len(g) >= p
                 /\ \A k \in (p + 1)..Len(g) :
                      Blank(g[k]) \/ (k = p + 1 /\ Torn(g[k], n + 1))
    BY <1>4, <2>4 DEF Handed
  <2>6. l > n => /\ Len(g) >= p
                 /\ \A k \in (p + 1)..Len(g) :
                      Blank(g[k])' \/ (k = p + 1 /\ Torn(g[k], n + 1)')
    BY <1>1, <2>5 DEF Torn, Blank
  <2> QED  BY <2>1, <2>2, <2>3, <2>4, <2>6 DEF Handed
<1> QED  BY <1>2, <1>4

\* Whole lines up to one that is begun perhaps, after the writer's end.
LEMMA CrashLines ==
  ASSUME IInv, IInv', NoNull, WriteInv, Crash, Len(disk') >= FirstBlock
  PROVE  \E n \in 0..Len(entries) : Lines(n)'
<1>0. /\ fp \in Nat /\ item \in Nat \ {0} /\ Len(disk) \in Nat /\ Len(entries) \in Nat
      /\ FirstBlock \in Nat /\ FirstBlock = 5 + 3 * Len(entries)
      /\ disk \in Seq(Nat) /\ disk' \in Seq(Nat) /\ Len(disk') \in Nat
  BY FirstBlockIs DEF IInv, BinderTypes
<1>n. entries' = entries /\ UNCHANGED users /\ FirstBlock' = FirstBlock
  BY DEF Crash, users, FirstBlock, IndexSize
<1>1. CASE /\ pc \in {"stub", "blocks"}
           /\ \E n \in 0..Len(disk) : disk' = SubSeq(disk, 1, n)
  <2>1. PICK n \in 0..Len(disk) : disk' = SubSeq(disk, 1, n)
    BY <1>1
  <2>2. Len(disk') = n /\ \A k \in 1..n : disk'[k] = disk[k]
    BY <1>0, <2>1, PrefixFacts
  <2>3. ASSUME NEW k \in 1..Len(entries) PROVE NoLine(k)'
    <3>1. pc # "stub"
      <4>1. pc = "stub" => Len(disk) = 5
        BY Numbers DEF WriteInv
      <4>2. PICK len \in Nat, size \in Nat : len = Len(disk) /\ size = Len(entries)
        BY <1>0
      <4>3. k \in 1..size /\ n <= len /\ n >= 5 + 3 * size /\ n \in Nat
        BY <1>0, <2>2, <4>2
      <4>4. size >= 1 /\ len > 5
        BY <4>2, <4>3
      <4>5. len # 5
        BY <4>4
      <4> QED  BY <4>1, <4>2, <4>5, Zenon
    <3>2. NoLine(k)
      BY <1>1, <3>1 DEF WriteInv
    <3>3. ASSUME NEW j \in 1..2 PROVE disk'[Spot(k, j)] = disk[Spot(k, j)]
      <4>1. Spot(k, j) = 2 + 3 * k + j /\ Spot(k, j) \in Nat
        BY <1>0, Spots
      <4>2. Spot(k, j) \in 1..n
        BY <1>0, <2>2, <4>1
      <4> QED  BY <2>2, <4>2
    <3> QED  BY <3>2, <3>3 DEF NoLine, IndexWord, Spot
  <2>4. Lines(0)'
    BY <1>0, <1>n, <2>3 DEF Lines, HalfLine, NoLine
  <2> QED  BY <1>0, <2>4
<1>2. CASE /\ pc = "index"
           /\ \E n \in HeaderSize..fp :
                disk' = [w \in DOMAIN disk |-> IF w > n /\ w <= FirstBlock THEN 0 ELSE disk[w]]
  <2>1. PICK n \in 5..fp :
          disk' = [w \in DOMAIN disk |-> IF w > n /\ w <= FirstBlock THEN 0 ELSE disk[w]]
    BY <1>2, Numbers
  <2>2. DOMAIN disk = 1..Len(disk) /\ Len(disk') = Len(disk)
    <3>1. DOMAIN disk' = DOMAIN disk
      BY <2>1
    <3> QED  BY <1>0, <3>1, LenProperties
  <2>3. \A w \in 1..Len(disk) :
          disk'[w] = IF w > n /\ w <= FirstBlock THEN 0 ELSE disk[w]
    BY <2>1, <2>2
  <2>4. fp = 2 + 3 * item /\ item <= Len(entries) + 1 /\ Len(disk) >= FirstBlock
    BY <1>0, <1>2, Numbers DEF WriteInv
  <2>5. \A k \in 1..Len(entries) : IF k < item THEN WholeLine(k) ELSE NoLine(k)
    BY <1>2 DEF WriteInv
  <2>6. PICK m \in Nat : 3 * m <= n - 4 /\ n - 4 < 3 * m + 3
    <3>1. n - 4 \in Nat
      BY <1>0
    <3>2. (n - 4) \div 3 \in Nat /\ 3 * ((n - 4) \div 3) <= n - 4 /\ n - 4 < 3 * ((n - 4) \div 3) + 3
      BY <3>1
    <3> QED  BY <3>2
  <2>7. m < item /\ m <= Len(entries)
    BY <1>0, <2>4, <2>6
  <2>8. ASSUME NEW k \in 1..Len(entries), NEW j \in 1..2
        PROVE  /\ Spot(k, j) = 2 + 3 * k + j
               /\ IndexWord(k, j)' = IF 2 + 3 * k + j > n THEN 0 ELSE IndexWord(k, j)
    <3>1. Spot(k, j) = 2 + 3 * k + j /\ IndexWord(k, j) = disk[Spot(k, j)]
          /\ IndexWord(k, j)' = disk'[Spot(k, j)]
      BY <1>0, Spots DEF IndexWord, Spot
    <3>2. Spot(k, j) \in 1..Len(disk) /\ Spot(k, j) <= FirstBlock
      <4>1. PICK spot \in Nat : spot = Spot(k, j)
        BY <3>1
      <4>2. spot <= FirstBlock /\ spot >= 1
        BY <1>0, <3>1, <4>1
      <4>3. spot \in 1..Len(disk)
        BY <1>0, <2>4, <4>2
      <4> QED  BY <4>1, <4>2, <4>3
    <3> QED  BY <2>3, <3>1, <3>2
  <2>9. ASSUME NEW k \in 1..Len(entries), NEW at, Stored(k, at) PROVE Stored(k, at)'
    <3>1. \A q \in (FirstBlock + 1)..Len(disk) : disk'[q] = disk[q]
      BY <1>0, <2>3
    <3>2. entries[k] # Null /\ Len(disk') >= Len(disk) /\ BinderTypes /\ BinderTypes'
      BY <1>0, <2>2 DEF NoNull, IInv
    <3> QED  BY <1>n, <2>9, <3>1, <3>2, StoredStays
  <2>10. ASSUME NEW k \in 1..Len(entries), k <= m PROVE WholeLine(k)'
    <3>1. WholeLine(k)
      BY <1>0, <2>5, <2>7, <2>10
    <3>2. IndexWord(k, 1)' = IndexWord(k, 1) /\ IndexWord(k, 2)' = IndexWord(k, 2)
      <4>1. ~(2 + 3 * k + 1 > n) /\ ~(2 + 3 * k + 2 > n)
        BY <1>0, <2>6, <2>10
      <4> QED  BY <2>8, <4>1
    <3>3. PICK at : at = IndexWord(k, 2) /\ at = IndexWord(k, 2)'
      BY <3>2
    <3>4. Stored(k, at)'
      BY <2>9, <3>1, <3>3 DEF WholeLine
    <3>5. Stored(k, IndexWord(k, 2))'
      BY <3>3, <3>4, Zenon
    <3> QED  BY <1>n, <3>1, <3>2, <3>5 DEF WholeLine
  <2>11. ASSUME NEW k \in 1..Len(entries), k = m + 1 PROVE HalfLine(k)'
    <3>1. IndexWord(k, 2)' = 0
      <4>1. 2 + 3 * k + 2 > n
        BY <1>0, <2>6, <2>11
      <4> QED  BY <2>8, <4>1
    <3>2. IndexWord(k, 1) \in {0, entries[k].id}
      BY <2>5 DEF WholeLine, NoLine
    <3>3. IndexWord(k, 1)' \in {0, IndexWord(k, 1)}
      BY <2>8
    <3> QED  BY <1>n, <3>1, <3>2, <3>3 DEF HalfLine
  <2>12. ASSUME NEW k \in 1..Len(entries), k > m + 1 PROVE NoLine(k)'
    <3>1. 2 + 3 * k + 1 > n /\ 2 + 3 * k + 2 > n
      BY <1>0, <2>6, <2>12
    <3> QED  BY <2>8, <3>1 DEF NoLine
  <2>13. Lines(m)'
    BY <1>n, <2>10, <2>11, <2>12 DEF Lines
  <2> QED  BY <1>0, <2>7, <2>13
<1> QED  BY <1>1, <1>2 DEF Crash

\* What the two programs were given stays.
LEMMA UsersFixed == [Next]_vars => UNCHANGED users
<1>1. WriteHeader => UNCHANGED users
  BY DEF WriteHeader
<1>2. WriteStub => UNCHANGED users
  BY DEF WriteStub
<1>3. WriteBlock => UNCHANGED users
  BY DEF WriteBlock
<1>4. SkipBlock => UNCHANGED users
  BY DEF SkipBlock
<1>5. BlocksEnd => UNCHANGED users
  BY DEF BlocksEnd
<1>6. WriteIndex => UNCHANGED users
  BY DEF WriteIndex
<1>7. SkipIndex => UNCHANGED users
  BY DEF SkipIndex
<1>8. WriteEnds => UNCHANGED users
  BY DEF WriteEnds
<1>9. Cut => UNCHANGED users
  BY DEF Cut
<1>10. Crash => UNCHANGED users
  BY DEF Crash
<1>11. OpenRead => UNCHANGED users
  BY DEF OpenRead
<1>12. ParseHeader => UNCHANGED users
  BY DEF ParseHeader
<1>13. ParseHeaderFails => UNCHANGED users
  BY DEF ParseHeaderFails
<1>14. ParseIndex => UNCHANGED users
  BY DEF ParseIndex
<1>15. ParseItem => UNCHANGED users
  BY DEF ParseItem
<1>16. ParseEnds => UNCHANGED users
  BY DEF ParseEnds
<1>17. UNCHANGED vars => UNCHANGED users
  BY DEF vars, users
<1> QED
  BY <1>1, <1>2, <1>3, <1>4, <1>5, <1>6, <1>7, <1>8, <1>9,
     <1>10, <1>11, <1>12, <1>13, <1>14, <1>15, <1>16, <1>17, Zenon DEF Next

LEMMA LeftStep ==
  IInv /\ IInv' /\ ReadInv /\ ReadInv' /\ NoNull /\ WriteInv /\ LeftInv /\ [Next]_vars => LeftInv'
<1> SUFFICES ASSUME IInv, IInv', ReadInv, ReadInv', NoNull, WriteInv, LeftInv, [Next]_vars,
                    (pc \in Left)', (damage # "cut")', (Len(disk) >= FirstBlock)'
             PROVE  \E n \in 0..Len(entries) :
                      /\ Lines(n)'
                      /\ damage' = "none" => n = Len(entries)
                      /\ pc' \in {"items", "parsed"} => Handed(given, item - 1, n)'
  <2>1. [Next]_vars => entries' = entries
    <3>1. UNCHANGED users => entries' = entries
      BY DEF users
    <3> QED  BY <3>1, UsersFixed, Zenon
  <2> QED  BY <2>1 DEF LeftInv
<1>0. /\ Len(entries) \in Nat /\ item \in Nat \ {0} /\ 0 \in 0..Len(entries)
      /\ Len(entries) \in 0..Len(entries)
  BY DEF IInv, BinderTypes
<1>1. CASE WriteHeader
  <2>1. entries = <<>> /\ entries' = entries /\ pc' = "written"
    BY <1>1 DEF WriteHeader, Left, users
  <2>2. Lines(0)' /\ Len(entries) = 0
    BY <2>1 DEF Lines
  <2> QED  BY <1>0, <2>1, <2>2
<1>2. CASE WriteStub \/ WriteBlock \/ SkipBlock \/ BlocksEnd \/ WriteIndex \/ SkipIndex
  <2>1. pc' \in {"blocks", "index"}
    BY <1>2 DEF WriteStub, WriteBlock, SkipBlock, BlocksEnd, WriteIndex, SkipIndex
  <2> QED  BY <2>1 DEF Left
<1>3. CASE WriteEnds
  <2>1. pc = "index" /\ item > Len(entries) /\ pc' = "written" /\ UNCHANGED <<users, disk>>
    BY <1>3 DEF WriteEnds
  <2>2. \A k \in 1..Len(entries) : WholeLine(k)
    <3>1. ASSUME NEW k \in 1..Len(entries) PROVE k < item
      BY <1>0, <2>1
    <3> QED  BY <2>1, <3>1 DEF WriteInv
  <2>3. ASSUME NEW k \in 1..Len(entries) PROVE ~(k = Len(entries) + 1) /\ ~(k > Len(entries) + 1)
    BY <1>0
  <2>4. PICK n \in 0..Len(entries) : n = Len(entries)
    BY <1>0
  <2>5. Lines(n)
    BY <2>2, <2>3, <2>4 DEF Lines
  <2>6. Lines(n)'
    BY <2>1, <2>5, LinesStill
  <2> QED  BY <2>1, <2>4, <2>6
<1>4. CASE Cut
  BY <1>4 DEF Cut
<1>5. CASE Crash
  <2>1. pc' = "written" /\ damage' = "crash"
    BY <1>5 DEF Crash
  <2>2. Len(disk') >= FirstBlock
    BY <1>5 DEF Crash, users, FirstBlock, IndexSize
  <2> QED  BY <1>5, <2>1, <2>2, CrashLines
<1>6. CASE OpenRead \/ ParseHeader \/ ParseHeaderFails \/ ParseIndex \/ ParseItem \/ ParseEnds
           \/ UNCHANGED vars
  <2>1. UNCHANGED <<users, disk>> /\ damage' = damage /\ pc \in Left
    <3>1. UNCHANGED <<users, disk>> /\ damage' = damage
      BY <1>6 DEF OpenRead, ParseHeader, ParseHeaderFails, ParseIndex, ParseItem, ParseEnds, vars, users
    <3>2. pc \in Left
      BY <1>6 DEF OpenRead, ParseHeader, ParseHeaderFails, ParseIndex, ParseItem, ParseEnds, vars, Left
    <3> QED  BY <3>1, <3>2
  <2>2. PICK n \in 0..Len(entries) :
          /\ Lines(n)
          /\ damage = "none" => n = Len(entries)
          /\ pc \in {"items", "parsed"} => Handed(given, item - 1, n)
    BY <2>1 DEF LeftInv, FirstBlock, IndexSize, users
  <2>3. Lines(n)' /\ \A g, l : Handed(g, l, n) => Handed(g, l, n)'
    BY <2>1, <2>2, LinesStill
  <2>4. ASSUME pc' \in {"items", "parsed"} PROVE Handed(given, item - 1, n)'
    <3>1. CASE ParseIndex
      <4>1. pc = "parse index" /\ item' = item /\ given' = given
        BY <3>1 DEF ParseIndex, reader
      <4>2. item = 1 /\ given = <<>>
        BY <4>1 DEF ReadInv, IInv, ParseInv
      <4>3. Handed(<<>>, 0, n)
        <5>1. Place(0) = 0 /\ n \in Nat
          BY <1>0, Places
        <5> QED  BY <5>1 DEF Handed
      <4>4. PICK g, l : g = <<>> /\ l = 0
        OBVIOUS
      <4>5. Handed(g, l, n)' /\ g = given' /\ l = item' - 1
        <5>1. Handed(g, l, n)'
          BY <2>3, <4>3, <4>4, Zenon
        <5>2. l = item' - 1
          <6>1. item' = 1 /\ l = 0
            BY <4>1, <4>2, <4>4, Zenon
          <6>2. 1 - 1 = 0
            OBVIOUS
          <6> QED  BY <6>1, <6>2, Zenon
        <5> QED  BY <4>1, <4>2, <4>4, <5>1, <5>2, Zenon
      <4> QED  BY <4>5, Zenon
    <3>2. CASE ParseItem
      <4>1. /\ pc = "items" /\ item <= head.items /\ item' = item + 1
            /\ given' = IF Handles(IndexWord(item, 1))
                          THEN Append(given, [to |-> IndexWord(item, 1), at |-> IndexWord(item, 2),
                                              ptrs |-> head.ptrs])
                          ELSE given
        BY <3>2 DEF ParseItem
      <4>2. head.items = Len(entries) /\ head.ptrs = ptr64 /\ ptr64 \in BOOLEAN
        BY <4>1 DEF IInv, ParseInv, HeaderRead, ReadInv, BinderTypes
      <4>3. PICK g, next, l, call :
              /\ g = given /\ next = given' /\ l = item - 1
              /\ call = [to |-> IndexWord(item, 1), at |-> IndexWord(item, 2), ptrs |-> head.ptrs]
        OBVIOUS
      <4>4. g \in Seq(Calls) /\ next \in Seq(Calls)
        BY <4>3 DEF ReadInv
      <4>5. l \in Nat /\ l < Len(entries) /\ l + 1 = item
        BY <1>0, <4>1, <4>2, <4>3
      <4>6. IndexWord(item, 1) \in Nat /\ IndexWord(item, 2) \in Nat
        <5>1. ASSUME NEW j \in 1..2 PROVE IndexWord(item, j) \in Nat
          <6>1. item \in 1..Len(entries)
            BY <1>0, <4>1, <4>2
          <6>2. IndexWord(item, j) = disk[Spot(item, j)]
                /\ Spot(item, j) = 2 + 3 * item + j /\ Spot(item, j) <= FirstBlock
            BY <1>0, <6>1, Spots
          <6>3. Len(disk) >= FirstBlock /\ FirstBlock \in Nat /\ disk \in Seq(Nat)
            <7>1. Len(disk) >= HeaderSize + IndexSize
              BY <4>1 DEF IInv, ParseInv
            <7>2. disk \in Seq(Nat)
              BY DEF IInv, BinderTypes
            <7> QED  BY <1>0, <7>1, <7>2, FirstBlockIs DEF FirstBlock
          <6>4. Spot(item, j) \in 1..Len(disk)
            <7>1. PICK spot \in Nat : spot = Spot(item, j)
              BY <1>0, <6>2
            <7>2. spot >= 1 /\ spot <= FirstBlock
              BY <1>0, <6>2, <7>1
            <7>3. Len(disk) \in Nat
              BY <6>3
            <7> QED  BY <6>3, <7>1, <7>2, <7>3
          <6> QED  BY <6>2, <6>3, <6>4
        <5> QED  BY <5>1
      <4>7. call \in Calls
        BY <4>2, <4>3, <4>6 DEF Calls
      <4>8. call.to = IndexWord(l + 1, 1) /\ call.at = IndexWord(l + 1, 2) /\ call.ptrs = ptr64
        BY <4>2, <4>3, <4>5
      <4>9. next = IF Handles(call.to) THEN Append(g, call) ELSE g
        <5>1. call.to = IndexWord(item, 1)
          BY <4>3
        <5> QED  BY <4>1, <4>3, <5>1, Zenon
      <4>10. Handed(g, l, n)
        BY <2>2, <4>1, <4>3
      <4>11. BinderTypes
        BY DEF IInv
      <4>12. Handed(next, l + 1, n)
        BY <2>2, <4>4, <4>5, <4>7, <4>8, <4>9, <4>10, <4>11, OneItem, Zenon
      <4>13. PICK m : m = l + 1 /\ m = item' - 1
        BY <1>0, <4>1, <4>5
      <4>14. Handed(next, m, n)' /\ next = given'
        BY <2>3, <4>3, <4>12, <4>13
      <4> QED  BY <4>13, <4>14, Zenon
    <3>3. CASE ParseEnds \/ UNCHANGED vars
      <4>1. given' = given /\ item' = item /\ pc \in {"items", "parsed"}
        BY <2>4, <3>3 DEF ParseEnds, vars, reader
      <4>2. PICK g, l : g = given /\ l = item - 1
        OBVIOUS
      <4>3. Handed(g, l, n)' /\ g = given' /\ l = item' - 1
        BY <2>2, <2>3, <4>1, <4>2
      <4> QED  BY <4>3, Zenon
    <3>4. CASE OpenRead \/ ParseHeader \/ ParseHeaderFails
      BY <2>4, <3>4 DEF OpenRead, ParseHeader, ParseHeaderFails
    <3> QED  BY <1>6, <3>1, <3>2, <3>3, <3>4
  <2> QED  BY <2>1, <2>2, <2>3, <2>4
<1> QED  BY <1>1, <1>2, <1>3, <1>4, <1>5, <1>6 DEF Next

LEMMA TripFirst == Init => TripInv
<1> SUFFICES ASSUME Init PROVE TripInv
  OBVIOUS
<1>1. pc = "open" /\ given = <<>> /\ offsets = <<>>
  BY DEF Init
<1>2. ReadInv
  BY <1>1 DEF ReadInv, HeaderRead
<1>3. WriteInv /\ LeftInv
  BY <1>1 DEF WriteInv, LeftInv, Left
<1> QED  BY <1>2, <1>3 DEF TripInv

LEMMA TripStep == IInv /\ IInv' /\ TripInv /\ [Next]_vars => TripInv'
<1> SUFFICES ASSUME IInv, IInv', TripInv, [Next]_vars PROVE TripInv'
  OBVIOUS
<1>1. ReadInv'
  BY ReadStep DEF TripInv
<1>2. entries' = entries
  BY UsersFixed DEF users
<1>3. NoNull' => NoNull
  BY <1>2 DEF NoNull
<1>4. NoNull => WriteInv' /\ LeftInv'
  BY <1>1, WriteStep, LeftStep DEF TripInv
<1> QED  BY <1>1, <1>3, <1>4 DEF TripInv

(* If no entry is NULL, each handler gets the writer's blocks of its type,   *)
(* each whole and once, in the writer's order: all of them if write()        *)
(* returned, and those of the first whole lines if the writer died, at       *)
(* whatever point (BinderParser.cpp:104-211).                                *)
THEOREM BlocksComeBack == Spec => []RoundTrip
<1>1. IInv /\ TripInv => RoundTrip
  <2> SUFFICES ASSUME IInv, TripInv, pc = "parsed", damage # "cut", Written = DOMAIN entries
               PROVE  \E n \in 0..Len(entries) :
                        /\ \A i \in 1..n : Handles(entries[i].id) => Delivers(given[Place(i)], i)
                        /\ \A k \in (Place(n) + 1)..Len(given) :
                              \/ Blank(given[k])
                              \/ k = Place(n) + 1 /\ Torn(given[k], n + 1)
                        /\ damage = "none" => n = Len(entries)
                        /\ Len(given) >= Place(n)
    BY DEF RoundTrip
  <2>1. Len(entries) \in Nat /\ DOMAIN entries = 1..Len(entries) /\ Len(given) \in Nat
    BY LenProperties DEF IInv, BinderTypes, TripInv, ReadInv
  <2>2. NoNull
    BY <2>1 DEF Written, NoNull
  <2>3. item = Len(entries) + 1 /\ Len(disk) >= FirstBlock
    BY DEF IInv, ParseInv, HeaderRead, TripInv, ReadInv, FirstBlock
  <2>4. PICK n \in 0..Len(entries) :
          (damage = "none" => n = Len(entries)) /\ Handed(given, item - 1, n)
    BY <2>2, <2>3 DEF TripInv, LeftInv, Left
  <2>5. PICK l \in Nat : l = Len(entries) /\ l = item - 1
    <3>1. PICK l \in Nat : l = Len(entries)
      BY <2>1
    <3>2. item = l + 1
      BY <2>3, <3>1
    <3>3. l = item - 1
      BY <3>2
    <3> QED  BY <3>1, <3>3
  <2>6. Handed(given, l, n)
    BY <2>4, <2>5
  <2>7. Place(n) \in Nat /\ n \in Nat
    BY <2>1, Places
  <2>8. \A i \in 1..n : i <= l
    BY <2>1, <2>5
  <2>9. \A i \in 1..n : Handles(entries[i].id) => Delivers(given[Place(i)], i)
    BY <2>6, <2>8 DEF Handed
  <2>10. CASE n = l
    <3>1. Len(given) = Place(n)
      BY <2>1, <2>5, <2>6, <2>10 DEF Handed
    <3>2. (Place(n) + 1)..Len(given) = {} /\ Len(given) >= Place(n)
      BY <2>7, <3>1
    <3> QED  BY <2>4, <2>9, <3>2
  <2>11. CASE n # l
    <3>1. l > n
      BY <2>1, <2>5, <2>11
    <3> QED  BY <2>4, <2>6, <2>9, <3>1 DEF Handed
  <2> QED  BY <2>10, <2>11
<1> QED  BY <1>1, BinderFirst, BinderStep, TripFirst, TripStep, PTL DEF Spec
=============================================================================
