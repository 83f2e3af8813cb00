----------------------------- MODULE XmlProofs -----------------------------
(* The reader returns what a scan of the document from the caller's offset   *)
(* would, for every document and every order of calls, although it seeks     *)
(* only when an offset differs from a counter that no seek sets.             *)
(* The inductive invariant is the type invariant with Synced; what a call    *)
(* returns follows from it, because it makes Start(o) = o.                   *)
(* Behind the reader and the tree of tags come the text of one tag and the   *)
(* invariant that relates parseTag's buffers to what its writer meant.       *)
EXTENDS XmlTree, XmlTagText, FiniteSetTheorems, SequenceTheorems, WellFoundedInduction, TLAPS

RInv == ReaderTypeOK /\ Synced

\* The first character of an entity is unique ...
LEMMA OneFirst ==
  ASSUME doc \in Seq(STRING), NEW from \in Nat,
         NEW i \in DOMAIN doc, NEW k \in DOMAIN doc,
         Starts(from, i), Starts(from, k)
  PROVE  i = k
<1>1. i \in Nat /\ k \in Nat
  BY SMT
<1>2. ~(i < k) /\ ~(k < i)
  BY <1>1, SMT DEF Starts
<1> QED BY <1>1, <1>2

\* ... and so is the character that ends it.
LEMMA OneEnd ==
  ASSUME doc \in Seq(STRING), NEW stop, NEW i \in DOMAIN doc,
         NEW j \in DOMAIN doc, NEW k \in DOMAIN doc,
         Reaches(i, j, stop), Reaches(i, k, stop)
  PROVE  j = k
<1>1. j \in Nat /\ k \in Nat /\ i \in Nat
  BY SMT
<1>2. ~(j < k) /\ ~(k < j)
  BY <1>1, SMT DEF Reaches
<1> QED BY <1>1, <1>2

\* Where reading starts is where the caller asked, unless the end was met.
LEMMA StartsAtOffset ==
  ASSUME RInv, NEW o \in offsets, ~AtEnd(o)
  PROVE  Start(o) = o /\ o \in Nat
BY DEF RInv, ReaderTypeOK, Synced, AtEnd, Start, Skips

\* The types of what a call changes.
LEMMA ReturnTypes ==
  ASSUME RInv, NEW o \in Nat, NEW kind \in Kinds, NEW i \in Nat, NEW j \in Nat,
         NEW next \in Nat, Return(o, kind, i, j, next)
  PROVE  last' \in Calls /\ offsets' \subseteq Nat
BY DEF RInv, ReaderTypeOK, Return, Calls

LEMMA FetchTypes ==
  ASSUME RInv, NEW o \in Nat, NEW n \in Nat, Start(o) = o, Fetch(o, n)
  PROVE  /\ doc' \in Seq(STRING)
         /\ useFile' \in BOOLEAN /\ eof' \in BOOLEAN
         /\ position' \in Nat /\ real' \in Nat
<1>1. doc' \in Seq(STRING) /\ useFile' \in BOOLEAN /\ eof' \in BOOLEAN
  BY DEF RInv, ReaderTypeOK, Fetch
<1>2. position' \in Nat /\ real' \in Nat
  BY DEF RInv, ReaderTypeOK, Fetch
<1> QED BY <1>1, <1>2

\* Reading on from an offset the caller holds, n > 0 characters of the file.
LEMMA FetchKeepsSynced ==
  ASSUME RInv, NEW o \in offsets, NEW n \in Nat, n > 0, NEW back \in {0, 1},
         Start(o) = o, Fetch(o, n), offsets' = offsets \union {o + n - back}
  PROVE  Synced'
<1>1. o \in Nat /\ position \in Nat /\ offsets \subseteq Nat
  BY DEF RInv, ReaderTypeOK
<1> SUFFICES ASSUME useFile, NEW p \in offsets'
             PROVE  /\ p <= position'
                    /\ p = position' => ~eof' /\ real' = p
  BY DEF Fetch, Synced
<1>2. o <= position /\ \A q \in offsets : q <= position
  BY DEF RInv, Synced
<1>3. position' = position + n /\ real' = o + n /\ ~eof'
  BY DEF Fetch
<1>4. CASE p \in offsets
  BY <1>1, <1>2, <1>3, <1>4
<1>5. CASE p = o + n - back
  BY <1>1, <1>2, <1>3, <1>5
<1> QED BY <1>4, <1>5

LEMMA ReaderFirst == ReaderInit => RInv
<1> SUFFICES ASSUME ReaderInit PROVE RInv
  OBVIOUS
<1>1. last \in Calls
  BY DEF ReaderInit, ReaderStart, Calls, Kinds
<1>2. ReaderTypeOK
  <2>1. useFile \in BOOLEAN /\ eof \in BOOLEAN /\ failed \in BOOLEAN
    BY DEF ReaderInit, ReaderStart
  <2>2. doc \in Seq(STRING) /\ position \in Nat /\ real \in Nat /\ offsets \subseteq Nat
    BY DEF ReaderInit, ReaderStart
  <2> QED BY <1>1, <2>1, <2>2 DEF ReaderTypeOK
<1>3. Synced
  BY DEF ReaderInit, ReaderStart, Synced
<1> QED BY <1>2, <1>3 DEF RInv

\* No step of the reader disturbs the invariant.
LEMMA ReaderStep == RInv /\ [ReaderNext]_readerVars => RInv'
<1> SUFFICES ASSUME RInv, [ReaderNext]_readerVars PROVE RInv'
  OBVIOUS
<1> USE DEF RInv
<1>1. CASE UNCHANGED readerVars
  BY <1>1 DEF readerVars, ReaderTypeOK, Synced
<1>2. CASE ReaderNext
  <2> PICK o \in offsets : GetTag(o)
    BY <1>2 DEF ReaderNext
  <2>o. o \in Nat /\ position \in Nat /\ real \in Nat /\ offsets \subseteq Nat
    BY DEF ReaderTypeOK
  <2>1. CASE GetTagEntity(o)
    <3>1. Start(o) = o
      BY <2>1, StartsAtOffset DEF GetTagEntity
    <3>2. PICK i \in First(Start(o)), j \in DOMAIN doc :
            /\ IsTag(Start(o), i, j)
            /\ Fetch(o, j - Start(o))
            /\ offsets' = offsets \union {Moved(o, j)}
            /\ \/ Return(o, "tag", i, j, Moved(o, j)) /\ UNCHANGED failed
               \/ Return(o, "none", 0, 0, Moved(o, j)) /\ failed' = TRUE
               \/ Return(o, "throw", i, j, Moved(o, j)) /\ UNCHANGED failed
      BY <2>1 DEF GetTagEntity, Return
    <3>3. i \in Nat /\ j \in Nat /\ j - o \in Nat /\ j - o > 0 /\ o + (j - o) = j
      BY <3>1, <3>2, <2>o DEF First, IsTag, Starts, Reaches, ReaderTypeOK
    <3>4. Moved(o, j) = j
      BY <3>1, <3>3 DEF Moved
    <3>5. ReaderTypeOK'
      <4>1. last' \in Calls /\ offsets' \subseteq Nat
        BY <3>2, <3>3, <3>4, <2>o, ReturnTypes DEF Kinds
      <4>2. failed' \in BOOLEAN
        BY <3>2 DEF ReaderTypeOK
      <4> QED BY <4>1, <4>2, <3>1, <3>2, <3>3, <2>o, FetchTypes DEF ReaderTypeOK
    <3>6. Synced'
      <4>1. offsets' = offsets \union {o + (j - o) - 0}
        BY <3>2, <3>3, <3>4
      <4> QED BY <4>1, <3>1, <3>2, <3>3, FetchKeepsSynced
    <3> QED BY <3>5, <3>6
  <2>2. CASE GetText(o)
    <3>1. Start(o) = o
      BY <2>2, StartsAtOffset DEF GetText
    <3>2. PICK i \in First(Start(o)), j \in DOMAIN doc :
            /\ IsText(Start(o), i, j)
            /\ Fetch(o, j - Start(o))
            /\ Return(o, "text", i, j, Moved(o, j) - 1)
      BY <2>2 DEF GetText
    <3>3. i \in Nat /\ j \in Nat /\ j - o \in Nat /\ j - o > 0 /\ o + (j - o) = j
      BY <3>1, <3>2, <2>o DEF First, IsText, Starts, Reaches, ReaderTypeOK
    <3>4. Moved(o, j) - 1 = o + (j - o) - 1 /\ Moved(o, j) - 1 \in Nat
      BY <3>1, <3>3, <2>o DEF Moved
    <3>5. ReaderTypeOK'
      <4>1. last' \in Calls /\ offsets' \subseteq Nat
        BY <3>2, <3>3, <3>4, <2>o, ReturnTypes DEF Kinds
      <4>2. failed' \in BOOLEAN
        BY <2>2 DEF ReaderTypeOK, GetText
      <4> QED BY <4>1, <4>2, <3>1, <3>2, <3>3, <2>o, FetchTypes DEF ReaderTypeOK
    <3>6. Synced'
      BY <3>1, <3>2, <3>3, <3>4, FetchKeepsSynced DEF Return
    <3> QED BY <3>5, <3>6
  <2>3. CASE GetBroken(o)
    <3>1. Start(o) = o
      BY <2>3, StartsAtOffset DEF GetBroken
    <3>2. PICK i \in First(Start(o)), j \in DOMAIN doc :
            /\ IsBroken(Start(o), i, j)
            /\ Fetch(o, j - Start(o))
            /\ Return(o, "none", 0, 0, Moved(o, j))
      BY <2>3 DEF GetBroken
    <3>3. i \in Nat /\ j \in Nat /\ j - o \in Nat /\ j - o > 0 /\ o + (j - o) = j
      BY <3>1, <3>2, <2>o DEF First, IsBroken, Starts, Reaches, ReaderTypeOK
    <3>4. Moved(o, j) = o + (j - o) - 0 /\ Moved(o, j) \in Nat
      BY <3>1, <3>3, <2>o DEF Moved
    <3>5. ReaderTypeOK'
      <4>1. last' \in Calls /\ offsets' \subseteq Nat
        BY <3>2, <3>3, <3>4, <2>o, ReturnTypes DEF Kinds
      <4>2. failed' \in BOOLEAN
        BY <2>3 DEF ReaderTypeOK, GetBroken
      <4> QED BY <4>1, <4>2, <3>1, <3>2, <3>3, <2>o, FetchTypes DEF ReaderTypeOK
    <3>6. Synced'
      BY <3>1, <3>2, <3>3, <3>4, FetchKeepsSynced DEF Return
    <3> QED BY <3>5, <3>6
  <2>4. CASE GetBufferEnd(o)
    <3>1. Len(doc) \in Nat
      BY DEF ReaderTypeOK
    <3> QED BY <2>4, <2>o, <3>1
            DEF GetBufferEnd, Return, ReaderTypeOK, Synced, Calls, Kinds
  <2>5. CASE GetFileEnd(o)
    <3>1. Start(o) = o /\ Len(doc) \in Nat
      BY <2>5, StartsAtOffset DEF GetFileEnd, ReaderTypeOK
    <3> DEFINE stop == IF o < Len(doc) THEN Len(doc) ELSE o
    <3>2. stop \in Nat /\ o <= stop /\ Len(doc) <= stop
      BY <3>1, <2>o
    <3>3. /\ real' = stop
          /\ position' = position + (stop - o) + 1
          /\ Return(o, "none", 0, 0, stop + 1)
          /\ eof' = TRUE
          /\ UNCHANGED <<doc, useFile, failed>>
      BY <2>5, <2>o, <3>1, <3>2 DEF GetFileEnd, Moved
    <3> HIDE DEF stop
    <3>4. ReaderTypeOK'
      BY <2>o, <3>2, <3>3 DEF ReaderTypeOK, Return, Calls, Kinds
    <3>5. Synced'
      <4> SUFFICES ASSUME useFile, NEW p \in offsets'
                   PROVE p <= position' /\ (p = position' => p > Len(doc))
        BY <3>3 DEF Synced
      <4>1. \A q \in offsets : q <= position
        BY DEF Synced
      <4>2. CASE p \in offsets
        BY <4>1, <4>2, <3>1, <3>2, <3>3, <2>o
      <4>3. CASE p = stop + 1
        BY <4>1, <4>3, <3>1, <3>2, <3>3, <2>o
      <4> QED BY <4>2, <4>3, <3>3 DEF Return
    <3> QED BY <3>4, <3>5
  <2>6. CASE GetAtEnd(o)
    BY <2>6, <2>o DEF GetAtEnd, Return, ReaderTypeOK, Synced, Calls, Kinds
  <2> QED BY <2>1, <2>2, <2>3, <2>4, <2>5, <2>6 DEF GetTag
<1> QED BY <1>1, <1>2

\* The types and the synchronised offsets, for every order of calls.
THEOREM ReaderInvariant == ReaderSpec => []RInv
<1>1. ReaderInit => RInv
  BY ReaderFirst
<1>2. RInv /\ [ReaderNext]_readerVars => RInv'
  BY ReaderStep
<1> QED BY <1>1, <1>2, PTL DEF ReaderSpec

(* No order of calls brings an offset ahead of the parser's count, or level  *)
(* with it where the file does not stand (XmlParser.cpp:54).                 *)
THEOREM OffsetsSynced == ReaderSpec => []Synced
BY ReaderInvariant, PTL DEF RInv

\* What the last call returned is what a scan from its caller's offset finds.
Answered ==
  LET r == last IN
  /\ r.kind \in {"tag", "throw"} =>
       IsTag(r.asked, r.open, r.close) /\ r.next = r.close
  /\ r.kind = "tag" => Parsed(r.open, r.close)
  /\ r.kind = "throw" => Throws(r.open, r.close)
  /\ r.kind = "text" => IsText(r.asked, r.open, r.close) /\ r.next = r.close - 1
  /\ r.kind = "none" =>
       \A i, j \in DOMAIN doc :
         ~IsText(r.asked, i, j) /\ (IsTag(r.asked, i, j) => Refused(i, j))

\* What a scan finds, and what parseTag makes of it, depends on the document.
LEMMA SameDoc ==
  ASSUME doc' = doc, NEW o, NEW i, NEW j
  PROVE  /\ IsTag(o, i, j)' = IsTag(o, i, j) /\ IsText(o, i, j)' = IsText(o, i, j)
         /\ Refused(i, j)' = Refused(i, j) /\ Throws(i, j)' = Throws(i, j)
         /\ Parsed(i, j)' = Parsed(i, j)
         /\ IsClosing(i)' = IsClosing(i) /\ IsSelf(i, j)' = IsSelf(i, j)
         /\ NameOf(i)' = NameOf(i)
<1>1. IsTag(o, i, j)' = IsTag(o, i, j) /\ IsText(o, i, j)' = IsText(o, i, j)
  BY DEF IsTag, IsText, Starts, Reaches
<1>2. /\ Refused(i, j)' = Refused(i, j) /\ Throws(i, j)' = Throws(i, j)
      /\ Parsed(i, j)' = Parsed(i, j)
  BY DEF Refused, Throws, Parsed, Inner
<1>3. IsClosing(i)' = IsClosing(i) /\ IsSelf(i, j)' = IsSelf(i, j)
  BY DEF IsClosing, IsSelf
<1>4. NameOf(i)' = NameOf(i)
  BY DEF NameOf, TagName
<1> QED  BY <1>1, <1>2, <1>3, <1>4

LEMMA AnswersTrue ==
  ASSUME RInv, NEW o \in offsets, GetTag(o)
  PROVE  Answered'
<1>o. o \in Nat /\ doc \in Seq(STRING) /\ Len(doc) \in Nat
  BY DEF RInv, ReaderTypeOK
<1>d. doc' = doc
  BY DEF GetTag, GetTagEntity, GetText, GetBroken, GetBufferEnd, GetFileEnd,
         GetAtEnd, Fetch
<1>n. ASSUME last'.kind = "none", last'.asked = o,
             \A i, j \in DOMAIN doc :
               ~IsText(o, i, j) /\ (IsTag(o, i, j) => Refused(i, j))
      PROVE  Answered'
  <2>1. \A i, j : /\ IsTag(o, i, j)' = IsTag(o, i, j) /\ IsText(o, i, j)' = IsText(o, i, j)
                  /\ Refused(i, j)' = Refused(i, j)
    BY <1>d, SameDoc
  <2> QED  BY <1>n, <1>d, <2>1 DEF Answered
<1>1. CASE GetTagEntity(o)
  <2>1. Start(o) = o
    BY <1>1, StartsAtOffset DEF GetTagEntity
  <2>2. PICK i \in First(o), j \in DOMAIN doc :
          /\ IsTag(o, i, j)
          /\ \/ Parsed(i, j) /\ Return(o, "tag", i, j, Moved(o, j))
             \/ Refused(i, j) /\ Return(o, "none", 0, 0, Moved(o, j))
             \/ Throws(i, j) /\ Return(o, "throw", i, j, Moved(o, j))
    BY <1>1, <2>1 DEF GetTagEntity
  <2>3. i \in DOMAIN doc /\ Starts(o, i) /\ i \in Nat /\ j \in Nat
    BY <2>2, <1>o DEF First
  <2>4. Moved(o, j) = j
    BY <2>1, <2>3, <1>o DEF Moved
  <2>5. CASE \/ Parsed(i, j) /\ Return(o, "tag", i, j, Moved(o, j))
             \/ Throws(i, j) /\ Return(o, "throw", i, j, Moved(o, j))
    <3>1. /\ last'.asked = o /\ last'.open = i /\ last'.close = j /\ last'.next = j
          /\ \/ last'.kind = "tag" /\ Parsed(i, j)
             \/ last'.kind = "throw" /\ Throws(i, j)
      BY <2>5, <2>4 DEF Return
    <3>2. IsTag(o, i, j)' /\ Parsed(i, j)' = Parsed(i, j) /\ Throws(i, j)' = Throws(i, j)
      BY <2>2, <1>d, SameDoc
    <3> QED BY <3>1, <3>2 DEF Answered
  <2>6. CASE Refused(i, j) /\ Return(o, "none", 0, 0, Moved(o, j))
    <3>1. last'.kind = "none" /\ last'.asked = o
      BY <2>6 DEF Return
    <3>2. ASSUME NEW k \in DOMAIN doc, NEW l \in DOMAIN doc
          PROVE  ~IsText(o, k, l) /\ (IsTag(o, k, l) => Refused(k, l))
      <4>1. ASSUME Starts(o, k) PROVE k = i
        BY <4>1, <2>3, <1>o, OneFirst
      <4>2. ~IsText(o, k, l)
        BY <4>1, <2>2 DEF IsText, IsTag
      <4>3. ASSUME IsTag(o, k, l) PROVE Refused(k, l)
        <5>1. k = i /\ Reaches(i, l, {"<", ">"}) /\ Reaches(i, j, {"<", ">"})
          BY <4>1, <4>3, <2>2 DEF IsTag
        <5>2. l = j
          BY <5>1, <2>3, <1>o, OneEnd
        <5> QED BY <5>1, <5>2, <2>6
      <4> QED BY <4>2, <4>3
    <3> QED BY <3>1, <3>2, <1>n
  <2> QED BY <2>2, <2>5, <2>6
<1>2. CASE GetText(o)
  <2>1. Start(o) = o
    BY <1>2, StartsAtOffset DEF GetText
  <2>2. PICK i \in First(o), j \in DOMAIN doc :
          IsText(o, i, j) /\ Return(o, "text", i, j, Moved(o, j) - 1)
    BY <1>2, <2>1 DEF GetText
  <2>3. Moved(o, j) = j
    BY <2>1, <2>2, <1>o DEF Moved
  <2>4. /\ last'.kind = "text" /\ last'.asked = o /\ last'.open = i
        /\ last'.close = j /\ last'.next = j - 1
    BY <2>2, <2>3 DEF Return
  <2> QED BY <2>2, <2>4, <1>d DEF Answered, IsText, Starts, Reaches
<1>3. CASE GetBroken(o)
  <2>1. Start(o) = o
    BY <1>3, StartsAtOffset DEF GetBroken
  <2>2. PICK i \in First(o), j \in DOMAIN doc :
          IsBroken(o, i, j) /\ Return(o, "none", 0, 0, Moved(o, j))
    BY <1>3, <2>1 DEF GetBroken
  <2>3. i \in DOMAIN doc /\ Starts(o, i) /\ doc[i] = "<"
    BY <2>2 DEF First, IsBroken
  <2>4. last'.kind = "none" /\ last'.asked = o
    BY <2>2 DEF Return
  <2>5. ASSUME NEW k \in DOMAIN doc, NEW l \in DOMAIN doc
        PROVE  ~IsText(o, k, l) /\ ~IsTag(o, k, l)
    <3>1. ASSUME Starts(o, k) PROVE k = i
      BY <3>1, <2>3, <1>o, OneFirst
    <3>2. ~IsText(o, k, l)
      BY <3>1, <2>3 DEF IsText
    <3>3. ASSUME IsTag(o, k, l) PROVE FALSE
      <4>1. k = i /\ Reaches(i, l, {"<", ">"}) /\ Reaches(i, j, {"<", ">"})
        BY <3>1, <3>3, <2>2 DEF IsTag, IsBroken
      <4>2. l = j
        BY <4>1, <2>3, <1>o, OneEnd
      <4> QED BY <4>2, <3>3, <2>2 DEF IsTag, IsBroken
    <3> QED BY <3>2, <3>3
  <2> QED BY <2>4, <2>5, <1>n
<1>4. CASE GetBufferEnd(o) \/ GetFileEnd(o)
  <2>1. ~Runs(o) /\ last'.kind = "none" /\ last'.asked = o
    BY <1>4, StartsAtOffset DEF GetBufferEnd, GetFileEnd, Return
  <2>2. ASSUME NEW k \in DOMAIN doc, NEW l \in DOMAIN doc
        PROVE  ~IsText(o, k, l) /\ ~IsTag(o, k, l)
    BY <2>1 DEF Runs, First, IsText, IsTag
  <2> QED BY <2>1, <2>2, <1>n
<1>5. CASE GetAtEnd(o)
  <2>1. last'.kind = "none" /\ last'.asked = o
    BY <1>5 DEF GetAtEnd, Return
  <2>2. o > Len(doc)
    BY <1>5 DEF GetAtEnd, AtEnd, Skips, RInv, Synced
  <2>3. ASSUME NEW k \in DOMAIN doc, NEW l \in DOMAIN doc
        PROVE  ~IsText(o, k, l) /\ ~IsTag(o, k, l)
    BY <2>2, <1>o DEF IsText, IsTag, Starts
  <2> QED BY <2>1, <2>3, <1>n
<1> QED BY <1>1, <1>2, <1>3, <1>4, <1>5 DEF GetTag

(* Over a file as over a string, and after any calls in any order, getTag    *)
(* returns the entity that starts at the offset it was asked for and moves   *)
(* the offset behind it; NULL means there is none, or a tag that parseTag    *)
(* refuses (XmlParser.cpp:48-151).                                           *)
THEOREM ReadsTrue == ReaderSpec => []ReadsWhereAsked
<1>1. ReaderInit => ReadsWhereAsked
  BY DEF ReaderInit, ReaderStart, ReadsWhereAsked
<1>2. RInv /\ ReadsWhereAsked /\ [ReaderNext]_readerVars => ReadsWhereAsked'
  <2> SUFFICES ASSUME RInv, ReadsWhereAsked, [ReaderNext]_readerVars
               PROVE  ReadsWhereAsked'
    OBVIOUS
  <2>1. CASE UNCHANGED readerVars
    BY <2>1 DEF readerVars, ReadsWhereAsked, IsTag, IsText, Starts, Reaches,
                Parsed, Throws, Refused, Inner
  <2>2. CASE ReaderNext
    BY <2>2, AnswersTrue DEF ReaderNext, Answered, ReadsWhereAsked
  <2> QED BY <2>1, <2>2
<1> QED BY <1>1, <1>2, ReaderInvariant, PTL DEF ReaderSpec

-----------------------------------------------------------------------------
(* The tree of entities over the reader *)

\* The specification of the tree, over any document.
TreeSpec == doc \in Seq(STRING) /\ Spec

Entity ==
  [tag : BOOLEAN, name : STRING \union {"literal"}, self : BOOLEAN,
   complete : BOOLEAN, ready : BOOLEAN, error : BOOLEAN, inserted : Nat, offset : Nat, pos : Nat,
   kids : Seq(Nat), at : Nat]

Ops == {"parse", "getNext", "getNextTag"}
Places == {"outer", "inner", "sub", "return"}
Frames == [op : Ops, ent : Nat, at : Places, had : Nat]

TreeTypes == ents \in Seq(Entity) /\ stack \in Seq(Frames)

\* Induction over places: a set of numbers that is not empty has a least one.
LEMMA Smallest ==
  ASSUME NEW T, T \subseteq Nat, T # {}
  PROVE  \E x \in T : \A y \in T : x <= y
<1> DEFINE Below(n) == 0..n
           Bs == {Below(n) : n \in T}
<1>1. Bs \subseteq FiniteSubsetsOf(Nat)
  <2> SUFFICES ASSUME NEW n \in T PROVE Below(n) \in FiniteSubsetsOf(Nat)
    OBVIOUS
  <2>1. IsFiniteSet(Below(n))
    BY FS_Interval
  <2> QED  BY <2>1 DEF FiniteSubsetsOf
<1>2. Bs # {}
  OBVIOUS
<1> HIDE DEF Bs
<1>3. PICK m \in Bs : \A b \in Bs : ~(<<b, m>> \in StrictSubsetOrdering(Nat))
  <2>1. IsWellFoundedOn(StrictSubsetOrdering(Nat), FiniteSubsetsOf(Nat))
    BY FS_StrictSubsetOrderingWellFounded
  <2> QED  BY <1>1, <1>2, <2>1, WFMin
<1>4. PICK x \in T : m = Below(x)
  BY DEF Bs
<1>5. ASSUME NEW y \in T, y < x PROVE FALSE
  <2>1. Below(y) \in SUBSET Nat /\ Below(x) \in SUBSET Nat /\ Below(y) \subseteq Below(x)
    BY <1>5
  <2>2. x \in Below(x) /\ x \notin Below(y)
    BY <1>5
  <2>3. <<Below(y), Below(x)>> \in StrictSubsetOrdering(Nat)
    BY <2>1, <2>2 DEF StrictSubsetOrdering
  <2>4. Below(y) \in Bs
    BY DEF Bs
  <2> QED  BY <1>3, <1>4, <2>3, <2>4
<1> QED  BY <1>5

(* An entity named nm passes over a tag at which parseTag throws, and over a *)
(* closing tag of another name that a slash ends.                            *)
Silent(i, j, nm) ==
  /\ doc[i] = "<" /\ doc[j] = ">" /\ Reaches(i, j, {"<", ">"})
  /\ \/ Throws(i, j)
     \/ Parsed(i, j) /\ IsClosing(i) /\ IsSelf(i, j) /\ NameOf(i) # nm

\* No more than blanks and such tags from offset o to p ...
Quiet(o, p, nm) ==
  /\ o <= p
  /\ \A k \in DOMAIN doc : o < k /\ k <= p =>
       \/ doc[k] \in White
       \/ \E b, c \in DOMAIN doc :
            Silent(b, c, nm) /\ o < b /\ b <= k /\ k <= c /\ c <= p

ChildTag(i, j) == Parsed(i, j) /\ ~IsClosing(i)

\* ... and then a child, which starts at i.
ChildAt(i) ==
  \E j \in DOMAIN doc :
    \/ doc[i] \notin White \union {"<"} /\ Reaches(i, j, {"<"})
    \/ doc[i] = "<" /\ doc[j] = ">" /\ Reaches(i, j, {"<", ">"}) /\ ChildTag(i, j)

ChildAhead(o, nm) == \E i \in DOMAIN doc : ChildAt(i) /\ o < i /\ Quiet(o, i - 1, nm)

(* m_inserted is stale only between unParse() and the next child, and then   *)
(* the entity is ready and stands before a child again, because a child was  *)
(* read behind its offset when m_inserted was set.                           *)
EntOK(x, e) ==
  /\ \A n \in DOMAIN x.kids : x.kids[n] \in (e + 1)..Len(ents)
  /\ x.tag => x.pos \in offsets /\ x.offset \in offsets
  /\ x.kids # <<>> => x.inserted = Len(x.kids)
  /\ x.kids = <<>> /\ x.inserted = Npos /\ x.ready =>
       Quiet(x.offset, x.pos, x.name)
  /\ x.kids = <<>> /\ x.inserted # Npos => x.ready /\ ChildAhead(x.pos, x.name)
  /\ x.inserted # Npos => ChildAhead(x.offset, x.name)

EntInv == \A e \in DOMAIN ents : EntOK(ents[e], e)

(* Calls in progress are for tags of the tree, and a parse() that was called *)
(* by parseSub() for a child has the parent waiting under it.                *)
CallsOK(s) ==
  /\ \A n \in DOMAIN s : s[n].ent \in DOMAIN ents /\ ents[s[n].ent].tag
  /\ \A n \in 1..(Len(s) - 1) :
       s[n].op = "parse" => s[n + 1].at = "sub" /\ ents[s[n + 1].ent].kids # <<>>

CallInv == CallsOK(stack)

TInv ==
  /\ RInv /\ last.next \in offsets
  /\ TreeTypes /\ EntInv /\ CallInv

LEMMA GetTagKeepsReader ==
  ASSUME RInv, NEW o \in offsets, GetTag(o)
  PROVE  /\ RInv' /\ Answered'
         /\ doc' = doc /\ last'.asked = o
         /\ offsets' = offsets \union {last'.next}
         /\ last' \in Calls
         /\ last'.kind # "none" =>
              last'.open \in DOMAIN doc /\ last'.close \in DOMAIN doc
<1>1. [ReaderNext]_readerVars
  BY DEF ReaderNext
<1>2. RInv'
  BY <1>1, ReaderStep
<1>3. doc' = doc
  BY DEF GetTag, GetTagEntity, GetText, GetBroken, GetBufferEnd, GetFileEnd,
         GetAtEnd, Fetch
<1>4. last'.asked = o /\ offsets' = offsets \union {last'.next}
  BY DEF GetTag, GetTagEntity, GetText, GetBroken, GetBufferEnd, GetFileEnd,
         GetAtEnd, Return
<1>5. last'.kind # "none" =>
        last'.open \in DOMAIN doc /\ last'.close \in DOMAIN doc
  <2>1. CASE GetTagEntity(o)
    BY <2>1 DEF GetTagEntity, Return, First, RInv, ReaderTypeOK
  <2>2. CASE GetText(o)
    BY <2>2 DEF GetText, Return, First
  <2>3. CASE GetBroken(o) \/ GetBufferEnd(o) \/ GetFileEnd(o) \/ GetAtEnd(o)
    BY <2>3 DEF GetBroken, GetBufferEnd, GetFileEnd, GetAtEnd, Return
  <2> QED  BY <2>1, <2>2, <2>3 DEF GetTag
<1> QED  BY <1>2, <1>3, <1>4, <1>5, AnswersTrue DEF RInv, ReaderTypeOK

\* What stands ahead of an offset depends on the document alone.
LEMMA ScanKept ==
  ASSUME doc' = doc, NEW o, NEW p, NEW nm
  PROVE  /\ Quiet(o, p, nm)' = Quiet(o, p, nm)
         /\ ChildAhead(o, nm)' = ChildAhead(o, nm)
<1>1. \A b, c : Silent(b, c, nm)' = Silent(b, c, nm)
  <2> SUFFICES ASSUME NEW b, NEW c PROVE Silent(b, c, nm)' = Silent(b, c, nm)
    OBVIOUS
  <2>1. Reaches(b, c, {"<", ">"})' = Reaches(b, c, {"<", ">"})
    BY DEF Reaches
  <2> QED  BY <2>1, SameDoc DEF Silent
<1>2. \A q : Quiet(o, q, nm)' = Quiet(o, q, nm)
  BY <1>1 DEF Quiet
<1>3. \A i : ChildAt(i)' = ChildAt(i)
  <2> SUFFICES ASSUME NEW i PROVE ChildAt(i)' = ChildAt(i)
    OBVIOUS
  <2>1. \A j : ChildTag(i, j)' = ChildTag(i, j)
    BY SameDoc DEF ChildTag
  <2> QED  BY <2>1 DEF ChildAt, Reaches
<1>4. ChildAhead(o, nm)' = ChildAhead(o, nm)
  BY <1>2, <1>3 DEF ChildAhead
<1> QED  BY <1>2, <1>4

\* Reading a tag that is passed over.
LEMMA QuietOn ==
  ASSUME doc \in Seq(STRING), NEW o \in Nat, NEW p \in Nat, NEW nm, Quiet(o, p, nm),
         NEW b \in DOMAIN doc, NEW c \in DOMAIN doc, IsTag(p, b, c), Silent(b, c, nm)
  PROVE  Quiet(o, c, nm)
<1>1. /\ b \in Nat /\ c \in Nat /\ o <= p /\ p < b /\ b < c
      /\ \A k \in DOMAIN doc : p < k /\ k < b => doc[k] \in White
  BY DEF IsTag, Starts, Reaches, Quiet
<1>2. ASSUME NEW k \in DOMAIN doc, o < k, k <= c
      PROVE  \/ doc[k] \in White
             \/ \E d, e \in DOMAIN doc :
                  Silent(d, e, nm) /\ o < d /\ d <= k /\ k <= e /\ e <= c
  <2>1. k \in Nat
    OBVIOUS
  <2>2. CASE k <= p
    <3>1. CASE doc[k] \in White
      BY <3>1
    <3>2. CASE doc[k] \notin White
      <4>1. PICK d \in DOMAIN doc, e \in DOMAIN doc :
              Silent(d, e, nm) /\ o < d /\ d <= k /\ k <= e /\ e <= p
        BY <1>2, <2>2, <3>2 DEF Quiet
      <4>2. e <= c
        BY <1>1, <4>1
      <4> QED  BY <4>1, <4>2
    <3> QED  BY <3>1, <3>2
  <2>3. CASE p < k /\ k < b
    BY <1>1, <2>3
  <2>4. CASE b <= k
    <3>1. o < b /\ c <= c
      BY <1>1
    <3> QED  BY <1>2, <2>4, <3>1
  <2> QED  BY <1>1, <2>1, <2>2, <2>3, <2>4
<1> QED  BY <1>1, <1>2 DEF Quiet

\* Reading a child.
LEMMA QuietChild ==
  ASSUME doc \in Seq(STRING), NEW o \in Nat, NEW p \in Nat, NEW nm, Quiet(o, p, nm),
         NEW i \in DOMAIN doc, NEW j \in DOMAIN doc,
         IsText(p, i, j) \/ (IsTag(p, i, j) /\ ChildTag(i, j))
  PROVE  ChildAhead(o, nm)
<1>1. /\ i \in Nat /\ o <= p /\ p < i
      /\ \A k \in DOMAIN doc : p < k /\ k < i => doc[k] \in White
  BY DEF IsText, IsTag, Starts, Quiet
<1>2. ChildAt(i)
  BY DEF IsText, IsTag, Starts, ChildAt
<1>3. ASSUME NEW k \in DOMAIN doc, o < k, k <= i - 1
      PROVE  \/ doc[k] \in White
             \/ \E d, e \in DOMAIN doc :
                  Silent(d, e, nm) /\ o < d /\ d <= k /\ k <= e /\ e <= i - 1
  <2>1. k \in Nat
    OBVIOUS
  <2>2. CASE p < k
    BY <1>1, <1>3, <2>1, <2>2
  <2>3. CASE k <= p /\ doc[k] \notin White
    <3>1. PICK d \in DOMAIN doc, e \in DOMAIN doc :
            Silent(d, e, nm) /\ o < d /\ d <= k /\ k <= e /\ e <= p
      BY <1>3, <2>3 DEF Quiet
    <3>2. e <= i - 1
      BY <1>1, <3>1
    <3>3. PICK l : l = i - 1
      OBVIOUS
    <3> QED  BY <3>1, <3>2, <3>3
  <2> QED  BY <1>1, <2>1, <2>2, <2>3
<1>4. o < i /\ o <= i - 1
  BY <1>1
<1> QED  BY <1>2, <1>3, <1>4 DEF ChildAhead, Quiet

\* What a scan finds first where a child is ahead.
LEMMA NextChild ==
  ASSUME doc \in Seq(STRING), NEW o \in Nat, NEW nm, ChildAhead(o, nm)
  PROVE  \E b, c \in DOMAIN doc :
           \/ IsText(o, b, c)
           \/ IsTag(o, b, c) /\ ChildTag(b, c)
           \/ IsTag(o, b, c) /\ Silent(b, c, nm) /\ ChildAhead(c, nm)
<1>1. PICK i \in DOMAIN doc : ChildAt(i) /\ o < i /\ Quiet(o, i - 1, nm)
  BY DEF ChildAhead
<1>0. \A k \in DOMAIN doc : k \in Nat
  OBVIOUS
<1>2. i \in Nat /\ doc[i] \notin White
  BY <1>1, WhiteAssumption DEF ChildAt
<1> DEFINE T == {k \in DOMAIN doc : o < k /\ k < i /\ doc[k] \notin White}
<1>3. CASE T = {}
  <2>1. Starts(o, i)
    BY <1>1, <1>2, <1>3 DEF Starts
  <2> QED  BY <1>1, <2>1 DEF ChildAt, IsText, IsTag
<1>4. CASE T # {}
  <2>1. PICK b \in T : \A k \in T : b <= k
    <3>1. T \subseteq Nat
      OBVIOUS
    <3> QED  BY <1>4, <3>1, Smallest
  <2>2. b \in DOMAIN doc /\ b \in Nat /\ o < b /\ b < i /\ doc[b] \notin White
    BY <2>1
  <2>3. Starts(o, b)
    <3>1. ASSUME NEW k \in DOMAIN doc, o < k, k < b, doc[k] \notin White PROVE FALSE
      <4>1. k \in T
        BY <1>2, <2>2, <3>1
      <4> QED  BY <2>1, <2>2, <3>1, <4>1
    <3> QED  BY <2>2, <3>1 DEF Starts
  <2>4. PICK d \in DOMAIN doc, c \in DOMAIN doc :
          Silent(d, c, nm) /\ o < d /\ d <= b /\ b <= c /\ c <= i - 1
    <3>1. b <= i - 1
      BY <1>2, <2>2
    <3> QED  BY <1>1, <2>2, <3>1 DEF Quiet
  <2>5. d = b /\ c \in Nat /\ c < i
    <3>1. d \in T
      <4>1. d < i /\ doc[d] = "<"
        BY <1>2, <2>2, <2>4 DEF Silent
      <4> QED  BY <2>4, <4>1, WhiteAssumption
    <3>2. b <= d /\ d \in Nat
      BY <2>1, <3>1
    <3> QED  BY <1>2, <2>2, <2>4, <3>2
  <2>6. IsTag(o, b, c)
    BY <2>3, <2>4, <2>5 DEF IsTag, Silent
  <2>7. Quiet(c, i - 1, nm)
    <3>1. ASSUME NEW h \in DOMAIN doc, c < h, h <= i - 1, doc[h] \notin White
          PROVE  \E e, f \in DOMAIN doc :
                   Silent(e, f, nm) /\ c < e /\ e <= h /\ h <= f /\ f <= i - 1
      <4>1. PICK e \in DOMAIN doc, f \in DOMAIN doc :
              Silent(e, f, nm) /\ o < e /\ e <= h /\ h <= f /\ f <= i - 1
        <5>1. o < h
          BY <2>2, <2>4, <2>5, <3>1
        <5> QED  BY <1>1, <3>1, <5>1 DEF Quiet
      <4>2. e \in Nat /\ doc[e] = "<" /\ doc[e] \notin White
        BY <4>1, WhiteAssumption DEF Silent
      <4>3. b <= e
        <5>1. e < i
          <6>1. h \in Nat /\ e <= h /\ h <= i - 1
            BY <1>0, <3>1, <4>1
          <6> HIDE DEF T
          <6> QED  BY <1>2, <4>2, <6>1
        <5>2. e \in T
          BY <4>1, <4>2, <5>1
        <5> QED  BY <2>1, <5>2
      <4>4. e # b
        <5>1. SUFFICES ASSUME e = b PROVE FALSE
          OBVIOUS
        <5>2. Reaches(b, f, {"<", ">"}) /\ Reaches(b, c, {"<", ">"})
          BY <2>4, <2>5, <4>1, <5>1 DEF Silent
        <5>3. f = c
          BY <5>2, OneEnd
        <5> QED  BY <2>5, <3>1, <4>1, <5>3
      <4>5. ~(b < e /\ e <= c)
        BY <2>4, <2>5, <4>2 DEF Silent, Reaches
      <4>6. c < e
        BY <2>2, <2>5, <4>2, <4>3, <4>4, <4>5
      <4> QED  BY <4>1, <4>6
    <3>2. c <= i - 1
      BY <2>4
    <3> QED  BY <3>1, <3>2 DEF Quiet
  <2>8. ChildAhead(c, nm)
    BY <1>1, <2>5, <2>7 DEF ChildAhead
  <2> QED  BY <2>2, <2>4, <2>5, <2>6, <2>8
<1> QED  BY <1>3, <1>4

\* An entity that a step leaves alone stays as it should be.
LEMMA EntKept ==
  ASSUME TreeTypes, NEW e \in DOMAIN ents, EntOK(ents[e], e), ents'[e] = ents[e],
         Len(ents') \in Nat, Len(ents) <= Len(ents'), offsets \subseteq offsets',
         doc' = doc
  PROVE  EntOK(ents[e], e)'
<1>1. ents[e] \in Entity /\ e \in Nat /\ Len(ents) \in Nat
  BY DEF TreeTypes
<1> DEFINE x == ents[e]
<1>2. /\ x.kids = <<>> /\ x.inserted = Npos /\ x.ready =>
           Quiet(x.offset, x.pos, x.name)'
      /\ x.kids = <<>> /\ x.inserted # Npos => x.ready /\ ChildAhead(x.pos, x.name)'
      /\ x.inserted # Npos => ChildAhead(x.offset, x.name)'
  <2>1. PICK o, p, nm : o = x.offset /\ p = x.pos /\ nm = x.name
    OBVIOUS
  <2>2. /\ Quiet(o, p, nm)' = Quiet(o, p, nm)
        /\ ChildAhead(o, nm)' = ChildAhead(o, nm)
        /\ ChildAhead(p, nm)' = ChildAhead(p, nm)
    BY ScanKept
  <2> QED  BY <2>1, <2>2 DEF EntOK
<1>3. \A n \in DOMAIN x.kids : x.kids[n] \in (e + 1)..Len(ents')
  BY <1>1 DEF EntOK
<1>4. x.tag => x.pos \in offsets' /\ x.offset \in offsets'
  BY DEF EntOK
<1> QED  BY <1>2, <1>3, <1>4 DEF EntOK

\* A tag that parseTag takes has a name.
LEMMA NameType ==
  ASSUME doc \in Seq(STRING), NEW i \in DOMAIN doc, NEW j \in DOMAIN doc, i < j,
         Parsed(i, j)
  PROVE  NameOf(i) \in STRING
<1>1. PICK k \in Inner(doc, i, j) : doc[k] \notin White
  BY DEF Parsed, Throws
<1> DEFINE from == IF doc[i + 1] = "/" THEN i + 1 ELSE i
           T == {h \in DOMAIN doc : h > from /\ doc[h] \notin White}
<1>2. /\ i \in Nat /\ j \in Nat /\ k \in Nat /\ k > i /\ k < j /\ k \in DOMAIN doc
      /\ doc[k] = "/" => k # i + 1
  BY <1>1 DEF Inner
<1>3. k \in T /\ from \in Nat
  BY <1>1, <1>2
<1>4. PICK f \in T : \A h \in T : f <= h
  <2>1. T \subseteq Nat /\ T # {}
    BY <1>3
  <2> QED  BY <2>1, Smallest
<1>5. /\ f \in DOMAIN doc /\ f > from /\ doc[f] \notin White
      /\ \A h \in (from + 1)..(f - 1) : doc[h] \in White
  <2>1. f \in DOMAIN doc /\ f \in Nat /\ f > from /\ doc[f] \notin White /\ from \in Nat
    BY <1>3, <1>4
  <2> HIDE DEF from
  <2>2. ASSUME NEW h \in (from + 1)..(f - 1), doc[h] \notin White PROVE FALSE
    <3>1. h \in Nat /\ h \in DOMAIN doc /\ h > from /\ f > h
      BY <2>1
    <3>2. h \in T
      BY <2>2, <3>1
    <3> QED  BY <1>4, <2>1, <3>1, <3>2
  <2> QED  BY <2>1, <2>2
<1> DEFINE Found(h) == /\ h > from /\ doc[h] \notin White
                       /\ \A g \in (from + 1)..(h - 1) : doc[g] \in White
<1>6. (CHOOSE h \in DOMAIN doc : Found(h)) \in DOMAIN doc
  BY <1>5
<1>7. NameOf(i) = doc[CHOOSE h \in DOMAIN doc : Found(h)]
  BY DEF NameOf, TagName
<1> QED  BY <1>6, <1>7

LEMMA TagType ==
  ASSUME doc \in Seq(STRING), NEW r \in Calls, IsTag(r.asked, r.open, r.close),
         r.open \in DOMAIN doc, r.close \in DOMAIN doc, Parsed(r.open, r.close)
  PROVE  TagEntity(r) \in Entity
<1>1. r.open \in Nat /\ r.close \in Nat /\ r.next \in Nat
  BY DEF Calls
<1>2. r.open < r.close /\ doc[r.close] = ">" /\ r.close <= Len(doc)
  BY DEF IsTag, Reaches
<1>5. NameOf(r.open) \in STRING
  BY <1>2, NameType
<1>6. IsSelf(r.open, r.close) \in BOOLEAN
  BY DEF IsSelf
<1> QED  BY <1>1, <1>5, <1>6 DEF TagEntity, Entity, Complete, Offset, Npos

LEMMA TextType ==
  ASSUME NEW r \in Calls
  PROVE  TextEntity(r) \in Entity
<1>1. r.open \in Nat
  BY DEF Calls
<1>2. <<>> \in Seq(Nat) /\ Npos \in Nat
  BY DEF Npos
<1> QED  BY <1>1, <1>2 DEF TextEntity, Entity

\* A new entity, just read or a literal, is as it should be.
LEMMA NewEntity ==
  ASSUME NEW e, NEW r, r.next \in offsets', r.next \in Nat, doc' \in Seq(STRING),
         ents'[e] = TagEntity(r) \/ ents'[e] = TextEntity(r)
  PROVE  EntOK(ents[e], e)'
<1>1. ents'[e].inserted = 0 /\ ents'[e].kids = <<>>
  BY DEF TagEntity, TextEntity, Npos
<1>2. /\ ents'[e].tag => ents'[e].offset = r.next /\ ents'[e].pos = r.next
      /\ ents'[e].ready => ents'[e].tag
  BY DEF TagEntity, TextEntity, Offset
<1>3. \A nm : Quiet(r.next, r.next, nm)'
  BY DEF Quiet
<1>4. DOMAIN ents'[e].kids = {}
  BY <1>1
<1> QED  BY <1>1, <1>2, <1>3, <1>4 DEF EntOK, Npos

LEMMA GotoOK ==
  ASSUME NEW s \in Seq(Frames), s # <<>>, CallsOK(s), NEW place \in Places
  PROVE  /\ [s EXCEPT ![1].at = place] \in Seq(Frames)
         /\ CallsOK([s EXCEPT ![1].at = place])
<1> DEFINE g == [s EXCEPT ![1].at = place]
<1>1. /\ g \in Seq(Frames) /\ Len(g) = Len(s) /\ Len(s) \in Nat
      /\ \A n \in DOMAIN s : g[n].ent = s[n].ent /\ g[n].op = s[n].op
      /\ \A n \in DOMAIN s : n # 1 => g[n].at = s[n].at
  <2>1. s[1] \in Frames
    OBVIOUS
  <2>2. [s[1] EXCEPT !.at = place] \in Frames
    BY <2>1 DEF Frames
  <2>3. g = [s EXCEPT ![1] = [s[1] EXCEPT !.at = place]]
    OBVIOUS
  <2> QED  BY <2>1, <2>2, <2>3 DEF Frames
<1> QED  BY <1>1 DEF CallsOK

LEMMA ReturnOK ==
  ASSUME NEW s \in Seq(Frames), s # <<>>, CallsOK(s)
  PROVE  Tail(s) \in Seq(Frames) /\ CallsOK(Tail(s))
<1>1. /\ Tail(s) \in Seq(Frames) /\ Len(Tail(s)) = Len(s) - 1 /\ Len(s) \in Nat
      /\ \A n \in DOMAIN Tail(s) : n + 1 \in DOMAIN s /\ Tail(s)[n] = s[n + 1]
  OBVIOUS
<1> QED  BY <1>1 DEF CallsOK

LEMMA CallOK ==
  ASSUME NEW s \in Seq(Frames), CallsOK(s), NEW f \in Frames,
         f.ent \in DOMAIN ents, ents[f.ent].tag,
         s # <<>> /\ f.op = "parse" => s[1].at = "sub" /\ ents[s[1].ent].kids # <<>>
  PROVE  <<f>> \o s \in Seq(Frames) /\ CallsOK(<<f>> \o s)
<1> DEFINE g == <<f>> \o s
<1>1. /\ g \in Seq(Frames) /\ Len(g) = Len(s) + 1 /\ Len(s) \in Nat
      /\ g[1] = f /\ \A n \in 1..Len(s) : g[n + 1] = s[n]
  OBVIOUS
<1>2. \A n \in DOMAIN g : n = 1 \/ (n - 1 \in DOMAIN s /\ g[n] = s[n - 1])
  BY <1>1
<1>3. \A n \in DOMAIN g : g[n].ent \in DOMAIN ents /\ ents[g[n].ent].tag
  BY <1>1, <1>2 DEF CallsOK
<1>4. ASSUME NEW n \in 1..(Len(g) - 1), g[n].op = "parse"
      PROVE  g[n + 1].at = "sub" /\ ents[g[n + 1].ent].kids # <<>>
  <2>1. CASE n = 1
    <3>1. s # <<>> /\ g[2] = s[1]
      BY <1>1, <2>1
    <3> QED  BY <1>1, <1>4, <2>1, <3>1
  <2>2. CASE n # 1
    <3>1. n - 1 \in 1..(Len(s) - 1) /\ g[n] = s[n - 1] /\ g[n + 1] = s[(n - 1) + 1]
      BY <1>1, <2>2
    <3> QED  BY <1>4, <3>1 DEF CallsOK
  <2> QED  BY <2>1, <2>2
<1> QED  BY <1>1, <1>3, <1>4 DEF CallsOK

\* During a call entities are only added, to the tree and to their parents.
Grown ==
  \A e \in DOMAIN ents :
    /\ e \in DOMAIN ents' /\ ents'[e].tag = ents[e].tag
    /\ ents[e].kids # <<>> => ents'[e].kids # <<>>

LEMMA GrownOK ==
  ASSUME NEW s, Len(s) \in Nat, DOMAIN s = 1..Len(s), CallsOK(s), Grown
  PROVE  CallsOK(s)'
BY DEF CallsOK, Grown

LEMMA TreeFirst == doc \in Seq(STRING) /\ TreeInit => TInv
<1> SUFFICES ASSUME doc \in Seq(STRING), TreeInit PROVE TInv
  OBVIOUS
<1>1. RInv /\ last.next \in offsets
  <2>1. ReaderInit
    BY DEF ReaderInit, TreeInit
  <2> QED  BY <2>1, ReaderFirst DEF ReaderInit, ReaderStart
<1>2. ents = <<>> /\ stack = <<>> /\ ents \in Seq(Entity) /\ stack \in Seq(Frames)
  BY DEF TreeInit
<1>3. DOMAIN ents = {} /\ DOMAIN stack = {} /\ 1..(Len(stack) - 1) = {}
  BY <1>2
<1>4. TreeTypes /\ EntInv /\ CallInv
  BY <1>2, <1>3 DEF TreeTypes, EntInv, CallInv, CallsOK
<1> QED  BY <1>1, <1>4 DEF TInv

\* A step that leaves the reader alone and changes entity e alone, to an
\* entity of the same kind.
LEMMA OneChanged ==
  ASSUME TInv, UNCHANGED readerVars, NEW e \in DOMAIN ents, NEW x \in Entity,
         ents' = [ents EXCEPT ![e] = x], x.tag = ents[e].tag,
         EntOK(x, e)
  PROVE  /\ ents' \in Seq(Entity) /\ DOMAIN ents' = DOMAIN ents /\ ents'[e] = x
         /\ EntInv'
<1>1. /\ ents' \in Seq(Entity) /\ DOMAIN ents' = DOMAIN ents /\ ents'[e] = x
      /\ Len(ents') = Len(ents) /\ Len(ents) \in Nat
      /\ \A d \in DOMAIN ents : d # e => ents'[d] = ents[d]
  BY DEF TInv, TreeTypes
<1>2. ASSUME NEW d \in DOMAIN ents, d # e PROVE EntOK(ents[d], d)'
  BY <1>1, <1>2, EntKept DEF TInv, EntInv, readerVars
<1>3. EntOK(ents[e], e)'
  <2>1. /\ x.kids = <<>> /\ x.inserted = Npos /\ x.ready =>
             Quiet(x.offset, x.pos, x.name)'
        /\ x.kids = <<>> /\ x.inserted # Npos => x.ready /\ ChildAhead(x.pos, x.name)'
        /\ x.inserted # Npos => ChildAhead(x.offset, x.name)'
    BY ScanKept DEF EntOK, readerVars
  <2>2. /\ x.tag => x.pos \in offsets' /\ x.offset \in offsets'
        /\ \A n \in DOMAIN x.kids : x.kids[n] \in (e + 1)..Len(ents')
        /\ x.kids # <<>> => x.inserted = Len(x.kids)
    BY <1>1 DEF EntOK, readerVars
  <2> QED  BY <1>1, <2>1, <2>2 DEF EntOK
<1> QED  BY <1>1, <1>2, <1>3 DEF EntInv

LEMMA ReaderStill ==
  ASSUME TInv, UNCHANGED readerVars
  PROVE  RInv' /\ last'.next \in offsets'
<1>1. RInv'
  BY ReaderStep DEF TInv
<1> QED  BY <1>1 DEF TInv, readerVars

\* A step that only moves the calls on.
LEMMA CallsMove ==
  ASSUME TInv, UNCHANGED <<readerVars, ents>>, stack' \in Seq(Frames),
         CallsOK(stack')
  PROVE  TInv'
<1>1. EntInv'
  <2>1. \A e \in DOMAIN ents : EntOK(ents[e], e)'
    BY EntKept DEF TInv, EntInv, readerVars, TreeTypes
  <2> QED  BY <2>1 DEF EntInv
<1>2. CallInv'
  BY DEF CallInv, CallsOK
<1> QED  BY <1>1, <1>2, ReaderStill DEF TInv, TreeTypes

\* A step that changes entity e, keeps its children, and moves the calls on.
LEMMA EntityMoves ==
  ASSUME TInv, UNCHANGED readerVars, NEW e \in DOMAIN ents, NEW x \in Entity,
         ents' = [ents EXCEPT ![e] = x], x.tag = ents[e].tag, EntOK(x, e),
         Len(stack') > 1 => x.kids = ents[e].kids,
         stack' \in Seq(Frames), CallsOK(stack')
  PROVE  TInv'
<1>1. /\ ents' \in Seq(Entity) /\ DOMAIN ents' = DOMAIN ents /\ ents'[e] = x
      /\ EntInv'
  BY OneChanged
<1>2. \A d \in DOMAIN ents : d # e => ents'[d] = ents[d]
  OBVIOUS
<1>3. CASE Len(stack') <= 1
  <2>1. 1..(Len(stack') - 1) = {}
    BY <1>3
  <2>2. CallInv'
    BY <1>1, <1>2, <2>1 DEF CallInv, CallsOK
  <2> QED  BY <1>1, <2>2, ReaderStill DEF TInv, TreeTypes
<1>4. CASE Len(stack') > 1
  <2>1. Grown
    BY <1>1, <1>2, <1>4 DEF Grown
  <2>2. PICK s : s = stack'
    OBVIOUS
  <2>3. CallsOK(s)'
    BY <2>1, <2>2, GrownOK
  <2>4. CallInv'
    BY <2>2, <2>3 DEF CallInv
  <2> QED  BY <1>1, <2>4, ReaderStill DEF TInv, TreeTypes
<1> QED  BY <1>3, <1>4

LEMMA TopFacts ==
  ASSUME TInv, stack # <<>>
  PROVE  /\ stack \in Seq(Frames) /\ CallsOK(stack) /\ Top \in Frames
         /\ Me \in DOMAIN ents /\ Mine \in Entity /\ Mine.tag /\ EntOK(Mine, Me)
         /\ Mine.pos \in offsets
<1>1. stack \in Seq(Frames) /\ CallsOK(stack) /\ 1 \in DOMAIN stack
  BY DEF TInv, TreeTypes, CallInv
<1>2. Top \in Frames /\ Me \in DOMAIN ents /\ Mine.tag
  BY <1>1 DEF Top, Me, Mine, CallsOK
<1>3. Mine \in Entity /\ EntOK(Mine, Me)
  BY <1>2 DEF Mine, TInv, TreeTypes, EntInv
<1> QED  BY <1>1, <1>2, <1>3 DEF EntOK

LEMMA SubSteps == TInv /\ (SubFails \/ SubDone) => TInv'
<1> SUFFICES ASSUME TInv, SubFails \/ SubDone PROVE TInv'
  OBVIOUS
<1>1. /\ stack # <<>> /\ UNCHANGED readerVars /\ Goto(AfterSub)
      /\ \/ ents' = [ents EXCEPT ![Me].error = TRUE]
         \/ /\ ents' = [ents EXCEPT ![Me].ready = TRUE]
            /\ ~Mine.ready /\ Mine.inserted # Npos
  BY DEF SubFails, SubDone
<1>2. /\ stack \in Seq(Frames) /\ CallsOK(stack)
      /\ Me \in DOMAIN ents /\ Mine \in Entity /\ Mine.tag /\ EntOK(Mine, Me)
  BY <1>1, TopFacts
<1>3. stack' \in Seq(Frames) /\ CallsOK(stack')
  BY <1>1, <1>2, GotoOK DEF Goto, AfterSub, Places
<1>4. CASE ents' = [ents EXCEPT ![Me].error = TRUE]
  <2> DEFINE x == [Mine EXCEPT !.error = TRUE]
  <2>1. ents' = [ents EXCEPT ![Me] = x] /\ x \in Entity /\ x.tag = Mine.tag
        /\ x.kids = Mine.kids
    BY <1>2, <1>4 DEF Mine, Entity
  <2>2. EntOK(x, Me)
    BY <1>2 DEF EntOK, Entity
  <2> QED  BY <1>1, <1>2, <1>3, <2>1, <2>2, EntityMoves DEF Mine
<1>5. CASE /\ ents' = [ents EXCEPT ![Me].ready = TRUE]
           /\ ~Mine.ready /\ Mine.inserted # Npos
  <2> DEFINE x == [Mine EXCEPT !.ready = TRUE]
  <2>1. ents' = [ents EXCEPT ![Me] = x] /\ x \in Entity /\ x.tag = Mine.tag
        /\ x.kids = Mine.kids
    BY <1>2, <1>5 DEF Mine, Entity
  <2>2. EntOK(x, Me)
    BY <1>2, <1>5 DEF EntOK, Entity
  <2> QED  BY <1>1, <1>2, <1>3, <2>1, <2>2, EntityMoves DEF Mine
<1> QED  BY <1>1, <1>4, <1>5

LEMMA ReturnStep == TInv /\ ParseReturns => TInv'
<1> SUFFICES ASSUME TInv, ParseReturns PROVE TInv'
  OBVIOUS
<1>1. /\ stack # <<>> /\ Top.op = "parse" /\ UNCHANGED readerVars /\ stack' = Tail(stack)
      /\ ents' = IF Len(stack) > 1
                   THEN [ents EXCEPT ![stack[2].ent].pos = Mine.pos]
                   ELSE ents
  BY DEF ParseReturns, ResumePos
<1>2. /\ stack \in Seq(Frames) /\ CallsOK(stack) /\ Mine.pos \in offsets /\ Mine \in Entity
  BY <1>1, TopFacts
<1>3. stack' \in Seq(Frames) /\ CallsOK(stack')
  BY <1>1, <1>2, ReturnOK
<1>4. CASE Len(stack) > 1
  <2> DEFINE d == stack[2].ent
             x == [ents[d] EXCEPT !.pos = Mine.pos]
  <2>1. 1 \in 1..(Len(stack) - 1) /\ 2 \in DOMAIN stack
    BY <1>2, <1>4
  <2>2. d \in DOMAIN ents /\ ents[d].kids # <<>>
    BY <1>1, <1>2, <2>1 DEF CallsOK, Top
  <2>3. ents[d] \in Entity /\ EntOK(ents[d], d)
    BY <2>2 DEF TInv, TreeTypes, EntInv
  <2>4. Mine.pos \in Nat
    BY <1>2 DEF Entity
  <2>5. ents' = [ents EXCEPT ![d] = x] /\ x \in Entity /\ x.tag = ents[d].tag
        /\ x.kids = ents[d].kids
    BY <1>1, <1>4, <2>2, <2>3, <2>4 DEF Entity
  <2>6. EntOK(x, d)
    BY <1>2, <2>2, <2>3 DEF EntOK, Entity
  <2> QED  BY <1>1, <1>3, <2>2, <2>5, <2>6, EntityMoves
<1>5. CASE ~(Len(stack) > 1)
  BY <1>1, <1>3, <1>5, CallsMove
<1> QED  BY <1>4, <1>5

LEMMA NewKids ==
  ASSUME NEW y \in Entity, NEW k \in Seq(Nat)
  PROVE  [y EXCEPT !.kids = k] \in Entity
BY DEF Entity

LEMMA TakenApart ==
  ASSUME TInv, NEW e \in DOMAIN ents, ents[e].tag, UNCHANGED readerVars,
         ents' = UnParsed(e), stack' \in Seq(Frames), Len(stack') <= 1,
         CallsOK(stack')
  PROVE  TInv'
<1> DEFINE x == [ents[e] EXCEPT !.kids = <<>>, !.complete = FALSE,
                                !.pos = ents[e].offset, !.ready = TRUE]
<1>1. ents[e] \in Entity /\ EntOK(ents[e], e) /\ ents \in Seq(Entity)
  BY DEF TInv, TreeTypes, EntInv
<1>2. ents' = [ents EXCEPT ![e] = x]
  BY <1>1 DEF UnParsed
<1>3. x \in Entity /\ x.tag = ents[e].tag
  <2> DEFINE x1 == [ents[e] EXCEPT !.kids = <<>>]
  <2>1. x1 \in Entity /\ x1.tag = ents[e].tag /\ ents[e].offset \in Nat
    <3>1. <<>> \in Seq(Nat)
      OBVIOUS
    <3>2. x1 \in Entity
      BY <1>1, <3>1, NewKids
    <3> QED  BY <1>1, <3>2 DEF Entity
  <2>2. x = [x1 EXCEPT !.complete = FALSE, !.pos = ents[e].offset, !.ready = TRUE]
    OBVIOUS
  <2> HIDE DEF x, x1
  <2>3. x \in Entity
    BY <2>1, <2>2 DEF Entity
  <2>4. x.tag = ents[e].tag
    BY <2>1, <2>2 DEF Entity
  <2> QED  BY <2>3, <2>4
<1>4. /\ x.kids = <<>> /\ x.pos = ents[e].offset /\ x.offset = ents[e].offset /\ x.ready
      /\ x.inserted = ents[e].inserted /\ x.name = ents[e].name /\ x.offset \in Nat
  BY <1>1 DEF Entity
<1> HIDE DEF x
<1>5. EntOK(x, e)
  <2>1. Quiet(x.offset, x.pos, x.name)
    <3>1. doc \in Seq(STRING)
      BY DEF TInv, RInv, ReaderTypeOK
    <3>2. PICK o \in Nat : o = x.offset /\ o = x.pos
      BY <1>4
    <3>3. Quiet(o, o, x.name)
      BY <3>1 DEF Quiet
    <3> QED  BY <3>2, <3>3
  <2>2. x.inserted # Npos => ChildAhead(x.pos, x.name) /\ ChildAhead(x.offset, x.name)
    BY <1>1, <1>4 DEF EntOK
  <2>3. x.tag => x.pos \in offsets /\ x.offset \in offsets
    BY <1>1, <1>3, <1>4 DEF EntOK
  <2> QED  BY <1>4, <2>1, <2>2, <2>3 DEF EntOK
<1>6. ~(Len(stack') > 1)
  BY DEF Frames
<1> QED  BY <1>2, <1>3, <1>5, <1>6, EntityMoves

\* What an entity named nm has read and passes over.
PassedOver(r, nm) ==
  \/ r.kind = "throw"
  \/ r.kind = "tag" /\ IsClosing(r.open) /\ IsSelf(r.open, r.close) /\ NameOf(r.open) # nm

LEMMA SilentRead ==
  ASSUME Answered', doc' = doc, NEW r, r = last', NEW nm, PassedOver(r, nm)
  PROVE  IsTag(r.asked, r.open, r.close) /\ r.next = r.close /\ Silent(r.open, r.close, nm)
<1>1. r.kind \in {"tag", "throw"}
  BY DEF PassedOver
<1>2. /\ IsTag(r.asked, r.open, r.close)' /\ r.next = r.close
      /\ r.kind = "tag" => Parsed(r.open, r.close)'
      /\ r.kind = "throw" => Throws(r.open, r.close)'
  BY <1>1 DEF Answered
<1>3. PICK o, a, z : o = r.asked /\ a = r.open /\ z = r.close
  OBVIOUS
<1>4. /\ IsTag(o, a, z)' = IsTag(o, a, z) /\ Parsed(a, z)' = Parsed(a, z)
      /\ Throws(a, z)' = Throws(a, z)
  BY SameDoc
<1>5. IsTag(o, a, z) /\ (Parsed(a, z) \/ Throws(a, z))
      /\ (r.kind = "tag" => Parsed(a, z)) /\ (r.kind = "throw" => Throws(a, z))
  BY <1>1, <1>2, <1>3, <1>4
<1>6. Silent(a, z, nm)
  BY <1>3, <1>5 DEF Silent, IsTag, PassedOver
<1> QED  BY <1>2, <1>3, <1>5, <1>6

\* Where a child is ahead, the reader finds it again, or a tag before it.
LEMMA ChildAgain ==
  ASSUME doc \in Seq(STRING), Answered', doc' = doc, NEW r, r = last', r \in Calls,
         NEW nm, ChildAhead(r.asked, nm),
         r.kind # "none" => r.open \in DOMAIN doc /\ r.close \in DOMAIN doc
  PROVE  /\ r.kind # "none"
         /\ r.kind = "tag" /\ IsClosing(r.open) => PassedOver(r, nm)
         /\ PassedOver(r, nm) => ChildAhead(r.next, nm)
<1>0. PICK o, a, z : o = r.asked /\ a = r.open /\ z = r.close
  OBVIOUS
<1>1. PICK b \in DOMAIN doc, c \in DOMAIN doc :
        \/ IsText(o, b, c)
        \/ IsTag(o, b, c) /\ ChildTag(b, c)
        \/ IsTag(o, b, c) /\ Silent(b, c, nm) /\ ChildAhead(c, nm)
  <2>1. o \in Nat
    BY <1>0 DEF Calls
  <2> QED  BY <1>0, <2>1, NextChild
<1>2. r.kind # "none"
  <2>1. /\ IsTag(o, b, c)' = IsTag(o, b, c) /\ IsText(o, b, c)' = IsText(o, b, c)
        /\ Refused(b, c)' = Refused(b, c)
    BY SameDoc
  <2>2. SUFFICES ASSUME r.kind = "none" PROVE FALSE
    OBVIOUS
  <2>3. ~IsText(o, b, c)' /\ (IsTag(o, b, c)' => Refused(b, c)')
    BY <1>0, <2>2 DEF Answered
  <2>4. ~Refused(b, c)
    BY <1>1, <2>1, <2>3 DEF ChildTag, Parsed, Silent, Throws
  <2> QED  BY <1>1, <2>1, <2>3, <2>4
<1>3. ASSUME r.kind \in {"tag", "throw"}
      PROVE  /\ IsTag(o, b, c) /\ a = b /\ z = c /\ r.next = c
             /\ r.kind = "tag" => Parsed(b, c)
             /\ r.kind = "throw" => Throws(b, c)
  <2>1. /\ IsTag(o, a, z)' = IsTag(o, a, z) /\ Parsed(a, z)' = Parsed(a, z)
        /\ Throws(a, z)' = Throws(a, z)
    BY SameDoc
  <2>2. IsTag(o, a, z) /\ r.next = z /\ (r.kind = "tag" => Parsed(a, z))
        /\ (r.kind = "throw" => Throws(a, z))
    BY <1>0, <1>3, <2>1 DEF Answered
  <2>3. a \in DOMAIN doc /\ z \in DOMAIN doc /\ o \in Nat
    BY <1>0, <1>3 DEF Calls
  <2>4. a = b
    <3>1. Starts(o, a) /\ Starts(o, b)
      BY <1>1, <2>2 DEF IsTag, IsText
    <3> QED  BY <2>3, <3>1, OneFirst
  <2>5. IsTag(o, b, c)
    BY <1>1, <2>2, <2>4 DEF IsTag, IsText
  <2>6. z = c
    <3>1. Reaches(b, z, {"<", ">"}) /\ Reaches(b, c, {"<", ">"})
      BY <2>2, <2>4, <2>5 DEF IsTag
    <3> QED  BY <2>3, <3>1, OneEnd
  <2> QED  BY <2>2, <2>4, <2>5, <2>6
<1>4. ASSUME r.kind = "tag" /\ IsClosing(r.open)
      PROVE  PassedOver(r, nm) /\ ChildAhead(r.next, nm)
  <2>1. IsTag(o, b, c) /\ a = b /\ z = c /\ r.next = c /\ Parsed(b, c) /\ IsClosing(b)
    BY <1>0, <1>3, <1>4
  <2>2. Silent(b, c, nm) /\ ChildAhead(c, nm)
    BY <1>1, <2>1 DEF ChildTag, IsText, IsTag
  <2> QED  BY <1>0, <1>4, <2>1, <2>2 DEF Silent, PassedOver, Parsed
<1>5. ASSUME r.kind = "throw" PROVE ChildAhead(r.next, nm)
  <2>1. IsTag(o, b, c) /\ r.next = c /\ Throws(b, c)
    BY <1>3, <1>5
  <2>2. ChildAhead(c, nm)
    BY <1>1, <2>1 DEF ChildTag, IsText, IsTag, Parsed
  <2> QED  BY <2>1, <2>2
<1> QED  BY <1>2, <1>4, <1>5 DEF PassedOver

LEMMA AppendFacts ==
  ASSUME NEW S, NEW s \in Seq(S), NEW v \in S
  PROVE  /\ Append(s, v) \in Seq(S) /\ Len(Append(s, v)) = Len(s) + 1
         /\ DOMAIN Append(s, v) = 1..(Len(s) + 1) /\ Append(s, v) # <<>>
         /\ \A i \in 1..Len(s) : Append(s, v)[i] = s[i]
         /\ Append(s, v)[Len(s) + 1] = v
         /\ \A i \in DOMAIN Append(s, v) : i \in DOMAIN s \/ i = Len(s) + 1
OBVIOUS

LEMMA OneMore ==
  ASSUME NEW S, NEW s \in Seq(S), NEW v \in S, NEW t, t = Append(s, v),
         NEW n, n = Len(s) + 1
  PROVE  /\ t \in Seq(S) /\ Len(t) = n /\ Len(t) \in Nat /\ Len(s) <= Len(t)
         /\ t # <<>> /\ t[n] = v
         /\ \A i \in DOMAIN s : i \in DOMAIN t /\ t[i] = s[i]
         /\ \A i \in DOMAIN t : i \in DOMAIN s \/ i = n
OBVIOUS

LEMMA OneMoreEntity ==
  ASSUME NEW s \in Seq(Entity), NEW x \in Entity, ents' = Append(s, x),
         NEW n, n = Len(s) + 1
  PROVE  /\ ents' \in Seq(Entity) /\ Len(ents') \in Nat /\ Len(s) <= Len(ents')
         /\ \A d \in DOMAIN s : d \in DOMAIN ents' /\ ents'[d] = s[d]
         /\ \A d \in DOMAIN ents' : d \in DOMAIN s \/ d = n
BY OneMore

\* A step that replaces entity e, and may add one behind the others.
LEMMA EntsBecome ==
  ASSUME TreeTypes, EntInv, NEW e \in DOMAIN ents, NEW y \in Entity,
         NEW x \in Entity, NEW n, n = Len(ents) + 1,
         \/ ents' = [ents EXCEPT ![e] = y]
         \/ ents' = Append([ents EXCEPT ![e] = y], x) /\ EntOK(ents[n], n)',
         EntOK(ents[e], e)', y.tag = ents[e].tag,
         ents[e].kids # <<>> => y.kids # <<>>,
         offsets \subseteq offsets', doc' = doc
  PROVE  ents' \in Seq(Entity) /\ EntInv' /\ Grown
<1>1. /\ ents \in Seq(Entity) /\ Len(ents) \in Nat /\ DOMAIN ents = 1..Len(ents)
      /\ \A d \in DOMAIN ents : ents[d] \in Entity
  BY DEF TreeTypes
<1>2. /\ ents' \in Seq(Entity) /\ Len(ents') \in Nat /\ Len(ents) <= Len(ents')
      /\ \A d \in DOMAIN ents : d \in DOMAIN ents' /\ (d # e => ents'[d] = ents[d])
      /\ ents'[e] = y
      /\ \A d \in DOMAIN ents' : d \in DOMAIN ents \/ d = n
      /\ n \in DOMAIN ents' => EntOK(ents[n], n)'
  <2> DEFINE s == [ents EXCEPT ![e] = y]
  <2>1. /\ s \in Seq(Entity) /\ Len(s) = Len(ents) /\ s[e] = y
        /\ \A d \in DOMAIN ents : d # e => s[d] = ents[d]
    BY <1>1
  <2> HIDE DEF s
  <2>2. CASE ents' = s
    BY <1>1, <2>1, <2>2
  <2>3. CASE ents' = Append(s, x) /\ EntOK(ents[n], n)'
    <3>1. Len(s) = Len(ents) /\ DOMAIN s = DOMAIN ents /\ n = Len(s) + 1
      BY <1>1, <2>1
    <3>2. /\ ents' \in Seq(Entity) /\ Len(ents') \in Nat /\ Len(s) <= Len(ents')
          /\ \A d \in DOMAIN s : d \in DOMAIN ents' /\ ents'[d] = s[d]
          /\ \A d \in DOMAIN ents' : d \in DOMAIN s \/ d = n
      <4>1. s \in Seq(Entity) /\ x \in Entity /\ ents' = Append(s, x)
        BY <2>1, <2>3, Zenon
      <4> QED  BY <3>1, <4>1, OneMoreEntity, Zenon
    <3> QED  BY <2>1, <2>3, <3>1, <3>2, Zenon
  <2> QED  BY <2>2, <2>3 DEF s
<1>3. \A d \in DOMAIN ents : d # e => EntOK(ents[d], d)'
  BY <1>2, EntKept DEF EntInv
<1>4. EntInv'
  <2> SUFFICES ASSUME NEW d \in DOMAIN ents' PROVE EntOK(ents[d], d)'
    BY DEF EntInv
  <2> QED  BY <1>2, <1>3
<1>5. Grown
  BY <1>2 DEF Grown
<1> QED  BY <1>2, <1>4, <1>5

\* The child that was read last is the last of the entities.
LEMMA LaterKid ==
  ASSUME NEW kids \in Seq(Nat), NEW n \in Nat, NEW me \in 1..n,
         \A k \in DOMAIN kids : kids[k] \in (me + 1)..n, NEW m, m = Append(kids, n + 1)
  PROVE  /\ \A k \in DOMAIN m : m[k] \in (me + 1)..(n + 1)
         /\ m # <<>> /\ Len(m) = Len(kids) + 1
<1>1. \A k \in DOMAIN m : (k \in DOMAIN kids /\ m[k] = kids[k]) \/ m[k] = n + 1
  OBVIOUS
<1>2. m # <<>> /\ Len(m) = Len(kids) + 1
  OBVIOUS
<1>3. n + 1 \in (me + 1)..(n + 1) /\ (me + 1)..n \subseteq (me + 1)..(n + 1)
  OBVIOUS
<1> QED  BY <1>1, <1>2, <1>3, Zenon

\* parseOne: me, the entity that was read on, and what was read in it.
LEMMA ReadOnOK ==
  ASSUME TInv, doc' = doc, Answered', last' \in Calls,
         NEW me \in DOMAIN ents, ents[me].tag, ents[me].ready,
         NEW x, x = ents[me], NEW y \in Entity, ents'[me] = y,
         NEW r, r = last', r.asked = x.pos,
         r.kind # "none" => r.open \in DOMAIN doc /\ r.close \in DOMAIN doc,
         offsets' = offsets \union {r.next},
         y.tag, y.pos = r.next, y.offset = x.offset, y.name = x.name,
         \/ /\ r.kind \in {"none", "throw"} \/ (r.kind = "tag" /\ IsClosing(r.open))
            /\ y.kids = x.kids /\ y.inserted = x.inserted
            /\ y.ready <=> PassedOver(r, x.name)
            /\ Len(ents') = Len(ents)
         \/ /\ r.kind = "text" \/ (r.kind = "tag" /\ ~IsClosing(r.open))
            /\ y.kids = Append(x.kids, Len(ents) + 1)
            /\ y.inserted = Len(x.kids) + 1
            /\ Len(ents') = Len(ents) + 1
  PROVE  EntOK(ents[me], me)'
<1>1. /\ x \in Entity /\ EntOK(x, me) /\ x.tag /\ x.ready
      /\ doc \in Seq(STRING) /\ Len(ents) \in Nat /\ me \in 1..Len(ents)
  BY DEF TInv, TreeTypes, EntInv, RInv, ReaderTypeOK
<1>2. /\ x.kids \in Seq(Nat) /\ x.inserted \in Nat /\ x.offset \in Nat /\ x.pos \in Nat
      /\ r.next \in Nat /\ r \in Calls
  BY <1>1 DEF Entity, Calls
<1>3. x.inserted # Npos => ChildAhead(x.offset, x.name)
  BY <1>1 DEF EntOK
<1>4. \A o, p, nm : /\ Quiet(o, p, nm)' = Quiet(o, p, nm)
                    /\ ChildAhead(o, nm)' = ChildAhead(o, nm)
  BY ScanKept
<1>5. y.pos \in offsets' /\ y.offset \in offsets'
  BY <1>1 DEF EntOK
\* What ends the children is not what the first of them was.
<1>6. CASE /\ r.kind \in {"none", "throw"} \/ (r.kind = "tag" /\ IsClosing(r.open))
           /\ y.kids = x.kids /\ y.inserted = x.inserted
           /\ y.ready <=> PassedOver(r, x.name)
           /\ Len(ents') = Len(ents)
  <2>1. ASSUME x.kids = <<>>, x.inserted # Npos
        PROVE  y.ready /\ ChildAhead(y.pos, x.name)
    <3>1. ChildAhead(r.asked, x.name)
      BY <1>1, <2>1 DEF EntOK
    <3>2. /\ r.kind # "none"
          /\ r.kind = "tag" /\ IsClosing(r.open) => PassedOver(r, x.name)
          /\ PassedOver(r, x.name) => ChildAhead(r.next, x.name)
      BY <1>1, <1>2, <3>1, ChildAgain
    <3>3. PassedOver(r, x.name)
      BY <1>6, <3>2 DEF PassedOver
    <3> QED  BY <1>6, <3>2, <3>3
  <2>2. ASSUME x.kids = <<>>, x.inserted = Npos, y.ready
        PROVE  Quiet(x.offset, y.pos, x.name)
    <3>1. Quiet(x.offset, x.pos, x.name)
      BY <1>1, <2>2 DEF EntOK
    <3>2. IsTag(r.asked, r.open, r.close) /\ r.next = r.close /\ Silent(r.open, r.close, x.name)
      BY <1>6, <2>2, SilentRead
    <3>3. r.open \in DOMAIN doc /\ r.close \in DOMAIN doc
      BY <1>6, <2>2 DEF PassedOver
    <3> QED  BY <1>1, <1>2, <3>1, <3>2, <3>3, QuietOn
  <2>3. \A k \in DOMAIN y.kids : y.kids[k] \in (me + 1)..Len(ents')
    BY <1>1, <1>6 DEF EntOK
  <2>4. y.kids # <<>> => y.inserted = Len(y.kids)
    BY <1>1, <1>6 DEF EntOK
  <2> QED  BY <1>3, <1>4, <1>5, <1>6, <2>1, <2>2, <2>3, <2>4 DEF EntOK
<1>7. CASE /\ r.kind = "text" \/ (r.kind = "tag" /\ ~IsClosing(r.open))
           /\ y.kids = Append(x.kids, Len(ents) + 1)
           /\ y.inserted = Len(x.kids) + 1
           /\ Len(ents') = Len(ents) + 1
  <2>1. /\ \A k \in DOMAIN y.kids : y.kids[k] \in (me + 1)..Len(ents')
        /\ y.kids # <<>> /\ y.inserted = Len(y.kids)
    <3>1. PICK kids, n, m : kids = x.kids /\ n = Len(ents) /\ m = y.kids
      OBVIOUS
    <3>2. /\ kids \in Seq(Nat) /\ n \in Nat /\ me \in 1..n /\ m = Append(kids, n + 1)
          /\ \A k \in DOMAIN kids : kids[k] \in (me + 1)..n
      BY <1>1, <1>2, <1>7, <3>1 DEF EntOK
    <3>3. /\ \A k \in DOMAIN m : m[k] \in (me + 1)..(n + 1)
          /\ m # <<>> /\ Len(m) = Len(kids) + 1
      BY <3>2, LaterKid
    <3> QED  BY <1>7, <3>1, <3>3
  <2>3. ChildAhead(x.offset, x.name)
    <3>1. CASE x.inserted = Npos
      <4>1. x.kids = <<>>
        BY <1>1, <1>2, <3>1 DEF EntOK, Npos
      <4>2. Quiet(x.offset, x.pos, x.name)
        BY <1>1, <3>1, <4>1 DEF EntOK
      <4>3. PICK o, i, j : o = r.asked /\ i = r.open /\ j = r.close
        OBVIOUS
      <4>4. /\ IsTag(o, i, j)' = IsTag(o, i, j) /\ IsText(o, i, j)' = IsText(o, i, j)
            /\ Parsed(i, j)' = Parsed(i, j)
        BY SameDoc
      <4>5. IsText(o, i, j) \/ (IsTag(o, i, j) /\ ChildTag(i, j))
        BY <1>7, <4>3, <4>4 DEF Answered, ChildTag
      <4>6. i \in DOMAIN doc /\ j \in DOMAIN doc
        BY <1>7, <4>3
      <4> QED  BY <1>1, <1>2, <4>2, <4>3, <4>5, <4>6, QuietChild
    <3> QED  BY <1>3, <3>1
  <2> QED  BY <1>4, <1>5, <1>7, <2>1, <2>3 DEF EntOK
<1> QED  BY <1>6, <1>7

\* A tag that getTag returned.
LEMMA TagAnswered ==
  ASSUME Answered', doc' = doc, NEW r, r = last', r.kind = "tag"
  PROVE  IsTag(r.asked, r.open, r.close) /\ Parsed(r.open, r.close) /\ r.next = r.close
<1>1. IsTag(r.asked, r.open, r.close)' /\ Parsed(r.open, r.close)' /\ r.next = r.close
  BY DEF Answered
<1>2. PICK o, a, z : o = r.asked /\ a = r.open /\ z = r.close
  OBVIOUS
<1>3. IsTag(o, a, z)' = IsTag(o, a, z) /\ Parsed(a, z)' = Parsed(a, z)
  BY SameDoc
<1> QED  BY <1>1, <1>2, <1>3

LEMMA ParseOneStep == TInv /\ ParseOne => TInv'
<1> SUFFICES ASSUME TInv, ParseOne PROVE TInv'
  OBVIOUS
<1>0. PICK r, me, x, n : r = last' /\ me = Me /\ x = ents[me] /\ n = Len(ents) + 1
  OBVIOUS
<1> DEFINE read == [x EXCEPT !.pos = r.next, !.ready = FALSE]
           closes == IsClosing(r.open) /\ NameOf(r.open) = x.name
           Child(c) == [read EXCEPT !.kids = Append(@, n),
                                    !.inserted = Len(x.kids) + 1,
                                    !.ready = StaysReady(c)]
<1>1. /\ stack # <<>> /\ GetTag(x.pos) /\ x.ready
      /\ stack' = IF r.kind = "throw" THEN <<>> ELSE stack
      /\ CASE r.kind = "throw" -> ents' = [ents EXCEPT ![me] = [x EXCEPT !.pos = r.next]]
           [] r.kind = "none" -> ents' = [ents EXCEPT ![me] = [read EXCEPT !.error = TRUE]]
           [] r.kind = "text" ->
                ents' = Append([ents EXCEPT ![me] = Child(TextEntity(r))], TextEntity(r))
           [] r.kind = "tag" /\ ~IsClosing(r.open) ->
                ents' = Append([ents EXCEPT ![me] = Child(TagEntity(r))], TagEntity(r))
           [] OTHER ->
                ents' = [ents EXCEPT ![me] =
                           [read EXCEPT !.complete = @ \/ closes,
                                        !.ready = ~closes /\ IsSelf(r.open, r.close)]]
  BY <1>0 DEF ParseOne, Reading, ParseOneEnts, Mine
<1>2. /\ stack \in Seq(Frames) /\ CallsOK(stack)
      /\ me \in DOMAIN ents /\ x \in Entity /\ x.tag /\ EntOK(x, me)
      /\ x.pos \in offsets
  BY <1>0, <1>1, TopFacts DEF Mine
<1>3. /\ RInv' /\ Answered' /\ doc' = doc /\ r.asked = x.pos
      /\ offsets' = offsets \union {r.next} /\ r \in Calls
      /\ r.kind # "none" => r.open \in DOMAIN doc /\ r.close \in DOMAIN doc
  BY <1>0, <1>1, <1>2, GetTagKeepsReader DEF TInv
<1>4. /\ doc \in Seq(STRING) /\ r.next \in Nat /\ Len(ents) \in Nat /\ n \in Nat
      /\ ents \in Seq(Entity) /\ TreeTypes /\ EntInv
  BY <1>0, <1>3 DEF TInv, RInv, ReaderTypeOK, TreeTypes, Calls
<1>5. read \in Entity /\ read.tag /\ read.kids = x.kids /\ ~read.ready
      /\ read.pos = r.next /\ read.offset = x.offset /\ read.inserted = x.inserted
      /\ read.name = x.name
  BY <1>2, <1>4 DEF Entity
<1>6. x.kids \in Seq(Nat)
  BY <1>2 DEF Entity
<1> HIDE DEF read, Child
<1>7. ASSUME NEW y \in Entity, ents' = [ents EXCEPT ![me] = y],
             r.kind \in {"none", "throw"} \/ (r.kind = "tag" /\ IsClosing(r.open)),
             y.tag, y.kids = x.kids, y.pos = r.next, y.ready <=> PassedOver(r, x.name),
             y.offset = x.offset, y.inserted = x.inserted, y.name = x.name
      PROVE  ents' \in Seq(Entity) /\ EntInv' /\ Grown
  <2>1. ents'[me] = y /\ Len(ents') = Len(ents)
    BY <1>2, <1>4, <1>7
  <2>2. EntOK(ents[me], me)'
    <3>1. /\ me \in DOMAIN ents /\ ents[me].tag /\ ents[me].ready /\ x = ents[me]
          /\ y \in Entity /\ ents'[me] = y /\ r = last' /\ last' \in Calls
          /\ y.tag /\ y.pos = r.next /\ y.offset = x.offset /\ y.name = x.name
      BY <1>0, <1>1, <1>2, <1>3, <1>5, <1>7, <2>1, Zenon
    <3>2. /\ r.kind \in {"none", "throw"} \/ (r.kind = "tag" /\ IsClosing(r.open))
          /\ y.kids = x.kids /\ y.inserted = x.inserted
          /\ y.ready <=> PassedOver(r, x.name)
          /\ Len(ents') = Len(ents)
      BY <1>5, <1>7, <2>1, Zenon
    <3> QED  BY <1>3, <3>1, <3>2, ReadOnOK, Zenon
  <2> QED
    BY <1>0, <1>2, <1>3, <1>4, <1>5, <1>7, <2>2, EntsBecome
<1>8. ASSUME NEW c \in Entity, NEW y \in Entity,
             ents' = Append([ents EXCEPT ![me] = y], c),
             c = TagEntity(r) \/ c = TextEntity(r),
             r.kind = "text" \/ (r.kind = "tag" /\ ~IsClosing(r.open)),
             y.tag, y.kids = Append(x.kids, n), y.pos = read.pos,
             y.offset = read.offset, y.inserted = Len(x.kids) + 1, y.name = x.name
      PROVE  ents' \in Seq(Entity) /\ EntInv' /\ Grown
  <2>1. ents'[me] = y /\ Len(ents') = n /\ ents'[n] = c
    <3> DEFINE s == [ents EXCEPT ![me] = y]
    <3>1. s \in Seq(Entity) /\ Len(s) = Len(ents) /\ s[me] = y /\ me \in DOMAIN s
      BY <1>2, <1>4
    <3> HIDE DEF s
    <3>2. ents' = Append(s, c)
      BY <1>8 DEF s
    <3> QED  BY <1>0, <1>4, <3>1, <3>2
  <2>2. EntOK(ents[me], me)'
    <3>1. /\ me \in DOMAIN ents /\ ents[me].tag /\ ents[me].ready /\ x = ents[me]
          /\ y \in Entity /\ ents'[me] = y /\ r = last' /\ last' \in Calls
          /\ y.tag /\ y.pos = r.next /\ y.offset = x.offset /\ y.name = x.name
      BY <1>0, <1>1, <1>2, <1>3, <1>5, <1>8, <2>1, Zenon
    <3>2. /\ r.kind = "text" \/ (r.kind = "tag" /\ ~IsClosing(r.open))
          /\ y.kids = Append(x.kids, Len(ents) + 1)
          /\ y.inserted = Len(x.kids) + 1
          /\ Len(ents') = Len(ents) + 1
      BY <1>0, <1>8, <2>1, Zenon
    <3> QED  BY <1>3, <3>1, <3>2, ReadOnOK, Zenon
  <2>3. EntOK(ents[n], n)'
    BY <1>3, <1>4, <1>8, <2>1, NewEntity
  <2>4. y.kids # <<>>
    <3>1. Append(x.kids, n) # <<>>
      <4>1. \A s \in Seq(Nat), m \in Nat : Append(s, m) # <<>>
        OBVIOUS
      <4> QED  BY <1>4, <1>6, <4>1, Zenon
    <3> QED  BY <1>8, <3>1, Zenon
  <2> QED
    BY <1>0, <1>2, <1>3, <1>4, <1>8, <2>2, <2>3, <2>4, EntsBecome
<1>9. ents' \in Seq(Entity) /\ EntInv' /\ Grown
  <2>1. CASE r.kind = "none"
    <3>1. PICK y : y = [read EXCEPT !.error = TRUE]
      OBVIOUS
    <3>2. /\ y \in Entity /\ y.tag /\ y.kids = x.kids /\ y.pos = r.next /\ ~y.ready
          /\ y.offset = x.offset /\ y.inserted = x.inserted /\ y.name = x.name
      BY <1>5, <3>1 DEF Entity
    <3>3. ~PassedOver(r, x.name)
      BY <2>1 DEF PassedOver
    <3> QED  BY <1>1, <1>7, <2>1, <3>1, <3>2, <3>3
  <2>0. CASE r.kind = "throw"
    <3>1. PICK y : y = [x EXCEPT !.pos = r.next]
      OBVIOUS
    <3>2. /\ y \in Entity /\ y.tag /\ y.kids = x.kids /\ y.pos = r.next /\ y.ready
          /\ y.offset = x.offset /\ y.inserted = x.inserted /\ y.name = x.name
      BY <1>1, <1>2, <1>4, <3>1 DEF Entity
    <3>3. PassedOver(r, x.name)
      BY <2>0 DEF PassedOver
    <3> QED  BY <1>1, <1>7, <2>0, <3>1, <3>2, <3>3
  <2>2. ASSUME NEW c \in Entity, r.kind = "text" \/ (r.kind = "tag" /\ ~IsClosing(r.open)),
               c = TagEntity(r) \/ c = TextEntity(r),
               ents' = Append([ents EXCEPT ![me] = Child(c)], c)
        PROVE  ents' \in Seq(Entity) /\ EntInv' /\ Grown
    <3>1. PICK k : k = Append(x.kids, n)
      OBVIOUS
    <3>2. k \in Seq(Nat) /\ Len(x.kids) + 1 \in Nat /\ StaysReady(c) \in BOOLEAN
      BY <1>4, <1>6, <3>1 DEF StaysReady, Entity
    <3>3. PICK y : y = [read EXCEPT !.kids = k, !.inserted = Len(x.kids) + 1,
                                    !.ready = StaysReady(c)]
      OBVIOUS
    <3>4. y = Child(c)
      BY <1>5, <3>1, <3>3 DEF Child
    <3>5. y \in Entity
      BY <1>5, <3>2, <3>3 DEF Entity
    <3>6. /\ y.tag /\ y.kids = k /\ y.pos = read.pos
          /\ y.offset = read.offset /\ y.inserted = Len(x.kids) + 1 /\ y.name = x.name
      BY <1>5, <3>3 DEF Entity
    <3> QED  BY <1>8, <2>2, <3>1, <3>4, <3>5, <3>6
  <2>3. CASE r.kind = "text"
    <3>1. TextEntity(r) \in Entity
      BY <1>3, <2>3, TextType
    <3> QED  BY <1>1, <2>2, <2>3, <3>1
  <2>4. CASE r.kind = "tag" /\ ~IsClosing(r.open)
    <3>1. TagEntity(r) \in Entity
      <4>1. IsTag(r.asked, r.open, r.close) /\ Parsed(r.open, r.close)
        BY <1>0, <1>3, <2>4, TagAnswered
      <4> QED  BY <1>3, <1>4, <2>4, <4>1, TagType
    <3> QED  BY <1>1, <2>2, <2>4, <3>1
  <2>5. CASE r.kind = "tag" /\ IsClosing(r.open)
    <3> DEFINE c == x.complete \/ closes
               g == ~closes /\ IsSelf(r.open, r.close)
               y == [read EXCEPT !.complete = c, !.ready = g]
    <3>1. read.complete = x.complete
      BY <1>2 DEF Entity, read
    <3>2. c \in BOOLEAN /\ g \in BOOLEAN
      BY <1>2 DEF Entity, IsSelf
    <3>4. g <=> PassedOver(r, x.name)
      BY <2>5 DEF PassedOver
    <3>5. ents' = [ents EXCEPT ![me] = y]
      BY <1>1, <2>5, <3>1
    <3> HIDE DEF c, g
    <3>3. /\ y \in Entity /\ y.tag /\ y.kids = x.kids /\ y.pos = r.next /\ y.ready = g
          /\ y.offset = x.offset /\ y.inserted = x.inserted /\ y.name = x.name
      BY <1>5, <3>2 DEF Entity
    <3> HIDE DEF y
    <3> QED  BY <1>7, <2>5, <3>3, <3>4, <3>5
  <2>6. r.kind \in {"none", "text", "tag", "throw"}
    BY <1>3 DEF Calls, Kinds
  <2> QED  BY <2>0, <2>1, <2>3, <2>4, <2>5, <2>6
<1> QED
  <2>1. CallInv' /\ stack' \in Seq(Frames)
    <3>1. CASE r.kind = "throw"
      BY <1>1, <3>1 DEF CallInv, CallsOK
    <3>2. CASE r.kind # "throw"
      <4>1. PICK s : s = stack
        OBVIOUS
      <4>2. CallsOK(s)'
        BY <1>2, <1>9, <4>1, GrownOK
      <4> QED  BY <1>1, <1>2, <3>2, <4>1, <4>2 DEF CallInv
    <3> QED  BY <3>1, <3>2
  <2>2. last'.next \in offsets'
    BY <1>0, <1>3
  <2> QED  BY <1>3, <1>9, <2>1, <2>2 DEF TInv, TreeTypes

LEMMA ReadRootStep == TInv /\ ReadRoot => TInv'
<1> SUFFICES ASSUME TInv, ReadRoot PROVE TInv'
  OBVIOUS
<1>0. PICK r, o : r = last' /\ o = last.next
  OBVIOUS
<1>1. /\ ents = <<>> /\ UNCHANGED stack /\ GetTag(o) /\ o \in offsets
      /\ ents' = IF r.kind = "tag" THEN <<TagEntity(r)>> ELSE <<>>
  BY <1>0 DEF ReadRoot, TInv
<1>2. /\ RInv' /\ Answered' /\ doc' = doc /\ r.asked = o
      /\ offsets' = offsets \union {r.next} /\ r \in Calls
      /\ r.kind = "tag" => r.open \in DOMAIN doc /\ r.close \in DOMAIN doc
  BY <1>0, <1>1, GetTagKeepsReader DEF TInv
<1>3. doc \in Seq(STRING) /\ stack \in Seq(Frames)
  BY DEF TInv, RInv, ReaderTypeOK, TreeTypes
<1>4. stack = <<>>
  BY <1>1, TopFacts
<1>5. CallInv'
  <2>1. DOMAIN stack' = {} /\ 1..(Len(stack') - 1) = {}
    BY <1>1, <1>4
  <2> QED  BY <2>1 DEF CallInv, CallsOK
<1>6. CASE r.kind = "tag"
  <2>1. PICK c : c = TagEntity(r)
    OBVIOUS
  <2>2. c \in Entity
    <3>1. IsTag(r.asked, r.open, r.close) /\ Parsed(r.open, r.close)
      BY <1>0, <1>2, <1>6, TagAnswered
    <3> QED  BY <1>2, <1>3, <1>6, <2>1, <3>1, TagType
  <2>3. ents' = <<c>> /\ DOMAIN ents' = {1} /\ ents'[1] = c /\ ents' \in Seq(Entity)
    BY <1>1, <1>6, <2>1, <2>2
  <2>4. EntOK(ents[1], 1)'
    <3>1. r.next \in Nat
      BY <1>2 DEF Calls
    <3> QED  BY <1>2, <1>3, <2>1, <2>3, <3>1, NewEntity
  <2>5. EntInv'
    BY <2>3, <2>4 DEF EntInv
  <2> QED  BY <1>0, <1>1, <1>2, <1>3, <1>5, <2>3, <2>5 DEF TInv, TreeTypes
<1>7. CASE r.kind # "tag"
  <2>1. ents' = <<>> /\ DOMAIN ents' = {} /\ ents' \in Seq(Entity)
    BY <1>1, <1>7
  <2>2. EntInv'
    BY <2>1 DEF EntInv
  <2> QED  BY <1>0, <1>1, <1>2, <1>3, <1>5, <2>1, <2>2 DEF TInv, TreeTypes
<1> QED  BY <1>6, <1>7

\* The user calls on a tag, nothing else being in progress.
LEMMA CallStep ==
  ASSUME TInv, NEW e \in Entities,
         CallParse(e) \/ CallGetNext(e) \/ CallGetNextTag(e)
           \/ CallUnParse(e) \/ CallReParse(e)
  PROVE  TInv'
<1>1. stack = <<>> /\ ents[e].tag /\ e \in DOMAIN ents /\ UNCHANGED readerVars
  BY DEF CallParse, CallGetNext, CallGetNextTag, CallUnParse, CallReParse, Called,
         Idle, Usable, Entities
<1>2. e \in Nat /\ ents[e].kids \in Seq(Nat)
  <2>1. e \in Nat /\ ents[e] \in Entity
    BY <1>1 DEF TInv, TreeTypes
  <2> QED  BY <2>1 DEF Entity
<1>3. ASSUME NEW f \in Frames, f.ent = e
      PROVE  <<f>> \in Seq(Frames) /\ CallsOK(<<f>>)
  BY <1>1, <1>3 DEF CallsOK
<1>4. <<>> \in Seq(Frames) /\ CallsOK(<<>>)
  BY DEF CallsOK
<1>5. ASSUME NEW op \in Ops, NEW place \in Places
      PROVE  Frame(op, e, place) \in Frames /\ Frame(op, e, place).ent = e
  BY <1>2 DEF Frame, Frames
<1>6. CASE CallParse(e) \/ CallGetNext(e) \/ CallGetNextTag(e)
  <2>1. PICK f \in Frames : f.ent = e /\ (stack' = <<f>> \/ stack' = stack)
    <3>1. PICK op \in Ops, place \in Places :
            stack' = <<Frame(op, e, place)>> \/ stack' = stack
      BY <1>6 DEF CallParse, CallGetNext, CallGetNextTag, Ops, Places
    <3> QED  BY <1>5, <3>1
  <2>2. stack' \in Seq(Frames) /\ CallsOK(stack')
    BY <1>1, <1>3, <1>4, <2>1
  <2>3. UNCHANGED ents
    BY <1>6 DEF CallParse, CallGetNext, CallGetNextTag
  <2> QED  BY <1>1, <2>2, <2>3, CallsMove
<1>7. CASE CallUnParse(e) \/ CallReParse(e)
  <2>1. PICK f : f = [Frame("parse", e, "outer") EXCEPT !.had = 0]
    OBVIOUS
  <2>2. f \in Frames /\ f.ent = e
    BY <1>2, <2>1 DEF Frame, Frames, Ops, Places
  <2>3. stack' = <<>> \/ stack' = <<f>>
    BY <1>1, <1>7, <2>1 DEF CallUnParse, CallReParse
  <2>4. stack' \in Seq(Frames) /\ CallsOK(stack') /\ Len(stack') <= 1
    <3>1. CASE stack' = <<>>
      BY <1>4, <3>1
    <3>2. CASE stack' = <<f>>
      BY <1>3, <2>2, <3>2
    <3> QED  BY <2>3, <3>1, <3>2
  <2>5. ents' = UnParsed(e)
    BY <1>7 DEF CallUnParse, CallReParse
  <2> QED  BY <1>1, <2>4, <2>5, TakenApart
<1> QED  BY <1>6, <1>7

\* The other steps only move the calls on.
LEMMA MoveStep ==
  TInv /\ (\/ LeaveInner \/ SubCall \/ ParseAgain
           \/ NextReturns \/ NextTagCalls \/ NextTagGot \/ NextTagEnds) => TInv'
<1> SUFFICES ASSUME TInv, \/ LeaveInner \/ SubCall \/ ParseAgain
                          \/ NextReturns \/ NextTagCalls \/ NextTagGot \/ NextTagEnds
             PROVE  TInv'
  OBVIOUS
<1>1. stack # <<>> /\ UNCHANGED <<readerVars, ents>>
  BY DEF LeaveInner, SubCall, ParseAgain, NextReturns, NextTagCalls, NextTagGot, NextTagEnds
<1>2. /\ stack \in Seq(Frames) /\ CallsOK(stack) /\ Top \in Frames
      /\ Me \in DOMAIN ents /\ Mine \in Entity /\ Mine.tag /\ EntOK(Mine, Me)
  BY <1>1, TopFacts
<1>3. ASSUME NEW place \in Places, Goto(place) PROVE TInv'
  BY <1>1, <1>2, <1>3, GotoOK, CallsMove DEF Goto
<1>4. ASSUME stack' = Tail(stack) PROVE TInv'
  BY <1>1, <1>2, <1>4, ReturnOK, CallsMove
<1>5. CASE LeaveInner
  <2>1. \E place \in Places : Goto(place)
    BY <1>5 DEF LeaveInner, Places
  <2> QED  BY <1>3, <2>1
<1>6. CASE ParseAgain
  <2>1. Goto("inner") /\ "inner" \in Places
    BY <1>6 DEF ParseAgain, Places
  <2> QED  BY <1>3, <2>1
<1>7. CASE NextReturns \/ NextTagEnds
  BY <1>4, <1>7 DEF NextReturns, NextTagEnds
<1>8. CASE NextTagGot
  <2>1. (Goto("outer") /\ "outer" \in Places) \/ stack' = Tail(stack)
    BY <1>8 DEF NextTagGot, Places
  <2> QED  BY <1>3, <1>4, <2>1
<1>9. CASE SubCall
  <2>1. /\ Top.at = "sub" /\ ~Mine.ready /\ Mine.inserted # Npos
        /\ Unread(LastKid) /\ stack' = <<Frame("parse", LastKid, "outer")>> \o stack
    BY <1>9 DEF SubCall
  <2>2. Mine.kids # <<>> /\ Mine.inserted = Len(Mine.kids) /\ Mine.kids \in Seq(Nat)
    BY <1>2, <2>1 DEF EntOK, Entity
  <2>3. Mine.inserted \in DOMAIN Mine.kids /\ Me \in Nat
    BY <1>2, <2>2 DEF TInv, TreeTypes
  <2>4. LastKid \in (Me + 1)..Len(ents)
    BY <1>2, <2>3 DEF EntOK, LastKid
  <2>5. LastKid \in DOMAIN ents /\ LastKid \in Nat
    BY <2>3, <2>4 DEF TInv, TreeTypes
  <2>6. ents[LastKid].tag /\ ents[LastKid].kids \in Seq(Nat)
    <3>1. ents[LastKid] \in Entity
      BY <2>5 DEF TInv, TreeTypes
    <3> QED  BY <2>1, <3>1 DEF Unread, Entity
  <2>7. PICK f : f = Frame("parse", LastKid, "outer")
    OBVIOUS
  <2>8. f \in Frames /\ f.ent = LastKid /\ f.op = "parse"
    BY <2>5, <2>6, <2>7 DEF Frame, Frames, Ops, Places
  <2>9. stack' \in Seq(Frames) /\ CallsOK(stack')
    BY <1>1, <1>2, <2>1, <2>2, <2>5, <2>6, <2>7, <2>8, CallOK DEF Top, Me, Mine
  <2> QED  BY <1>1, <2>9, CallsMove
<1>10. CASE NextTagCalls
  <2>1. PICK s : s = [stack EXCEPT ![1].at = "return"]
    OBVIOUS
  <2>2. s \in Seq(Frames) /\ CallsOK(s)
    BY <1>1, <1>2, <2>1, GotoOK DEF Places
  <2>3. PICK f : f = Frame("getNext", Me, "inner")
    OBVIOUS
  <2>4. f \in Frames /\ f.ent = Me /\ f.op = "getNext"
    <3>1. Me \in Nat /\ ents[Me].kids \in Seq(Nat)
      BY <1>2 DEF TInv, TreeTypes, Mine, Entity
    <3> QED  BY <2>3, <3>1 DEF Frame, Frames, Ops, Places
  <2>5. stack' = <<f>> \o s
    BY <1>10, <2>1, <2>3 DEF NextTagCalls
  <2>6. stack' \in Seq(Frames) /\ CallsOK(stack')
    BY <1>2, <2>2, <2>4, <2>5, CallOK DEF Mine
  <2> QED  BY <1>1, <2>6, CallsMove
<1> QED  BY <1>5, <1>6, <1>7, <1>8, <1>9, <1>10

LEMMA TreeStep == TInv /\ [Next]_vars => TInv'
<1> SUFFICES ASSUME TInv, [Next]_vars PROVE TInv'
  OBVIOUS
<1>1. CASE ReadRoot
  BY <1>1, ReadRootStep
<1>2. CASE UserCalls
  BY <1>2, CallStep DEF UserCalls
<1>3. CASE Works
  BY <1>3, ParseOneStep, SubSteps, ReturnStep, MoveStep DEF Works
<1>4. CASE UNCHANGED vars
  <2>1. UNCHANGED <<readerVars, ents>> /\ stack' = stack
    BY <1>4 DEF vars, treeVars
  <2>2. stack' \in Seq(Frames) /\ CallsOK(stack')
    BY <2>1 DEF TInv, TreeTypes, CallInv
  <2> QED  BY <2>1, <2>2, CallsMove
<1> QED  BY <1>1, <1>2, <1>3, <1>4 DEF Next

\* The inductive invariant of the tree, over any document.
THEOREM TreeInvariant == TreeSpec => []TInv
<1>1. doc \in Seq(STRING) /\ TreeInit => TInv
  BY TreeFirst
<1> QED  BY <1>1, TreeStep, PTL DEF TreeSpec, Spec

(* parseSub() never asks for a child that unParse() threw away, although     *)
(* m_inserted survives it (xmltag.cpp:189-195).                              *)
THEOREM IndexStaysInRange == TreeSpec => []IndexInRange
<1>1. TInv => IndexInRange
  <2> SUFFICES ASSUME TInv, stack # <<>>, ~Mine.ready, Mine.inserted # Npos
               PROVE  Mine.inserted \in DOMAIN Mine.kids
    BY DEF IndexInRange
  <2>1. EntOK(Mine, Me) /\ Mine \in Entity
    BY TopFacts
  <2>2. Mine.kids # <<>> /\ Mine.inserted = Len(Mine.kids) /\ Mine.kids \in Seq(Nat)
    BY <2>1 DEF EntOK, Entity
  <2> QED  BY <2>2
<1> QED  BY <1>1, TreeInvariant, PTL

(* The tree uses the parser as its specification allows: it asks only for    *)
(* offsets that it was handed (xmltag.cpp:103-162, XmlParser.cpp:54) ...     *)
THEOREM TreeAsksKnownOffsets == TreeSpec => AsksKnownOffsets
<1>1. doc \in Seq(STRING) /\ TreeInit => ReaderInit
  BY DEF TreeInit, ReaderInit
<1>2. TInv /\ [Next]_vars =>
        [last'.asked \in offsets /\ GetTag(last'.asked)]_readerVars
  <2> SUFFICES ASSUME TInv, [Next]_vars, ~UNCHANGED readerVars
               PROVE  last'.asked \in offsets /\ GetTag(last'.asked)
    OBVIOUS
  <2>1. CASE ReadRoot
    BY <2>1, GetTagKeepsReader DEF ReadRoot, TInv
  <2>2. CASE ParseOne
    BY <2>2, TopFacts, GetTagKeepsReader DEF ParseOne, TInv
  <2>3. UNCHANGED readerVars \/ ReadRoot \/ ParseOne
    BY DEF Next, UserCalls, Works, LeaveInner, SubFails, SubCall, SubDone, ParseAgain,
           ParseReturns, NextReturns, NextTagCalls, NextTagGot, NextTagEnds,
           CallParse, CallGetNext, CallGetNextTag, CallUnParse, CallReParse,
           vars
  <2> QED  BY <2>1, <2>2, <2>3
<1> QED  BY <1>1, <1>2, TreeInvariant, PTL DEF TreeSpec, Spec, AsksKnownOffsets

(* ... so that what was proved of the parser holds under the tree as well.   *)
THEOREM TreeReadsTrue == TreeSpec => []ReadsWhereAsked
<1>1. AsksKnownOffsets => ReaderSpec
  <2>1. last'.asked \in offsets /\ GetTag(last'.asked) => ReaderNext
    BY DEF ReaderNext
  <2> QED  BY <2>1, PTL DEF AsksKnownOffsets, ReaderSpec
<1> QED  BY <1>1, TreeAsksKnownOffsets, ReadsTrue, PTL

-----------------------------------------------------------------------------
(* No child is skipped *)

\* The calls in progress are for an entity each, the innermost the latest; only
\* getNextTag() and the getNext() it calls share theirs.  A getNext() that is
\* not the innermost waits in parseSub().
NestOK(s) ==
  /\ \A n, m \in DOMAIN s :
       n < m => s[m].op = "getNextTag" \/ s[m].ent < s[n].ent
  /\ \A n \in DOMAIN s : n > 1 /\ s[n].op = "getNext" => s[n].at = "sub"

HasContent(e) == ents[e].tag /\ ~ents[e].self

\* An element that getNext() came upon is the last child, since the entity is
\* not ready from then on; at the return it has been read.
SkipOK(f) ==
  LET x == ents[f.ent] IN
  f.op = "getNext" =>
    \A n \in (f.had + 1)..Len(x.kids) : HasContent(x.kids[n]) =>
      /\ n = Len(x.kids)
      /\ f.at \in {"inner", "sub"} => ~x.ready
      /\ f.at = "inner" => ~x.complete
      /\ f.at = "return" => ~Unread(x.kids[n])

SkipInv == \A n \in DOMAIN stack : SkipOK(stack[n])

\* The invariant behind NoElementSkipped.
NInv == TInv /\ NestOK(stack) /\ SkipInv

\* The frames of a stack without its first, with another first, with one more.
LEMMA NestTail ==
  ASSUME NEW s \in Seq(Frames), s # <<>>, NestOK(s)
  PROVE  NestOK(Tail(s)) /\ \A n \in DOMAIN Tail(s) : n + 1 \in DOMAIN s /\ Tail(s)[n] = s[n + 1]
<1>1. /\ Len(s) \in Nat /\ DOMAIN Tail(s) \subseteq Nat
      /\ \A n \in DOMAIN Tail(s) : n \in 1..(Len(s) - 1) /\ n + 1 \in DOMAIN s /\ Tail(s)[n] = s[n + 1]
  OBVIOUS
<1>2. ASSUME NEW n \in DOMAIN Tail(s), NEW m \in DOMAIN Tail(s), n < m
      PROVE  Tail(s)[m].op = "getNextTag" \/ Tail(s)[m].ent < Tail(s)[n].ent
  <2>1. n + 1 < m + 1
    BY <1>1, <1>2
  <2> QED  BY <1>1, <2>1 DEF NestOK
<1>3. \A n \in DOMAIN Tail(s) : n + 1 > 1
  BY <1>1
<1> QED  BY <1>1, <1>2, <1>3 DEF NestOK

LEMMA NestGoto ==
  ASSUME NEW s \in Seq(Frames), s # <<>>, NestOK(s), NEW place \in Places
  PROVE  /\ NestOK([s EXCEPT ![1].at = place])
         /\ DOMAIN [s EXCEPT ![1].at = place] = DOMAIN s
         /\ \A n \in DOMAIN s : n # 1 => [s EXCEPT ![1].at = place][n] = s[n]
         /\ [s EXCEPT ![1].at = place][1] = [s[1] EXCEPT !.at = place]
<1> DEFINE g == [s EXCEPT ![1].at = place]
<1>1. /\ DOMAIN g = DOMAIN s /\ 1 \in DOMAIN s /\ s[1] \in Frames
      /\ \A n \in DOMAIN s : n # 1 => g[n] = s[n]
      /\ g[1] = [s[1] EXCEPT !.at = place]
  OBVIOUS
<1>2. \A n \in DOMAIN s : g[n].op = s[n].op /\ g[n].ent = s[n].ent
  BY <1>1 DEF Frames
<1>3. \A n \in DOMAIN s : n > 1 => g[n].at = s[n].at
  BY <1>1
<1> QED  BY <1>1, <1>2, <1>3 DEF NestOK

LEMMA NestCall ==
  ASSUME NEW s \in Seq(Frames), s # <<>>, NestOK(s), NEW f \in Frames,
         f.ent >= s[1].ent, f.ent = s[1].ent => s[1].op = "getNextTag",
         s[1].op = "getNext" => s[1].at = "sub"
  PROVE  /\ NestOK(<<f>> \o s)
         /\ \A n \in DOMAIN (<<f>> \o s) :
              (<<f>> \o s)[n] = f \/ \E m \in DOMAIN s : (<<f>> \o s)[n] = s[m]
<1> DEFINE g == <<f>> \o s
<1>1. /\ Len(s) \in Nat /\ DOMAIN s = 1..Len(s) /\ 1 \in DOMAIN s
      /\ g[1] = f /\ DOMAIN g = 1..(Len(s) + 1)
      /\ \A n \in DOMAIN s : g[n + 1] = s[n] /\ s[n] \in Frames
  OBVIOUS
<1> HIDE DEF g
<1>2. \A n \in DOMAIN g : n = 1 \/ (n - 1 \in DOMAIN s /\ g[n] = s[n - 1])
  BY <1>1
<1>3. \A n \in DOMAIN s : s[n].ent \in Nat /\ f.ent \in Nat
  BY <1>1 DEF Frames
<1>4. \A m \in DOMAIN s : s[m].op = "getNextTag" \/ s[m].ent < f.ent
  <2> SUFFICES ASSUME NEW m \in DOMAIN s, s[m].op # "getNextTag" PROVE s[m].ent < f.ent
    OBVIOUS
  <2>1. CASE m = 1
    BY <1>1, <1>3, <2>1
  <2>2. CASE m # 1
    <3>1. s[m].ent < s[1].ent
      BY <1>1, <2>2 DEF NestOK
    <3> QED  BY <1>1, <1>3, <3>1
  <2> QED  BY <2>1, <2>2
<1>5. ASSUME NEW n \in DOMAIN g, NEW m \in DOMAIN g, n < m
      PROVE  g[m].op = "getNextTag" \/ g[m].ent < g[n].ent
  <2>1. m # 1 /\ m - 1 \in DOMAIN s /\ g[m] = s[m - 1] /\ n \in Nat /\ m \in Nat
    BY <1>1, <1>2, <1>5
  <2>2. CASE n = 1
    BY <1>1, <1>4, <2>1, <2>2
  <2>3. CASE n # 1
    <3>1. n - 1 \in DOMAIN s /\ g[n] = s[n - 1] /\ n - 1 < m - 1
      BY <1>2, <1>5, <2>1, <2>3
    <3> QED  BY <2>1, <3>1 DEF NestOK
  <2> QED  BY <2>2, <2>3
<1>6. ASSUME NEW n \in DOMAIN g, n > 1, g[n].op = "getNext"
      PROVE  g[n].at = "sub"
  <2>1. n - 1 \in DOMAIN s /\ g[n] = s[n - 1]
    BY <1>2, <1>6
  <2>2. CASE n - 1 = 1
    BY <1>6, <2>1, <2>2
  <2>3. CASE n - 1 # 1
    <3>1. n - 1 > 1
      BY <1>1, <2>1, <2>3
    <3> QED  BY <1>6, <2>1, <3>1 DEF NestOK
  <2> QED  BY <2>2, <2>3
<1>7. NestOK(g)
  BY <1>5, <1>6 DEF NestOK
<1> QED  BY <1>2, <1>7 DEF g

\* What a frame says of its entity survives a step that leaves its children.
LEMMA SkipKept ==
  ASSUME TInv, NEW f \in Frames, f.ent \in DOMAIN ents, SkipOK(f),
         \A d \in DOMAIN ents :
            ents'[d].tag = ents[d].tag /\ ents'[d].self = ents[d].self,
         ents'[f.ent].kids = ents[f.ent].kids,
         f.at \in {"inner", "sub"} =>
            ents'[f.ent].ready = ents[f.ent].ready,
         f.at = "inner" => ents'[f.ent].complete = ents[f.ent].complete,
         f.at = "return" =>
           \A d \in DOMAIN ents :
             ents'[d].complete = ents[d].complete /\ ents'[d].error = ents[d].error
  PROVE  SkipOK(f)'
<1> DEFINE x == ents[f.ent]
<1>1. /\ f.had \in Nat /\ x.kids \in Seq(Nat)
      /\ \A n \in DOMAIN x.kids : x.kids[n] \in DOMAIN ents
  <2>1. f.had \in Nat /\ x \in Entity /\ EntOK(x, f.ent) /\ f.ent \in Nat
        /\ Len(ents) \in Nat /\ DOMAIN ents = 1..Len(ents)
    BY DEF TInv, TreeTypes, EntInv, Frames
  <2> QED  BY <2>1 DEF EntOK, Entity
<1>2. \A n \in (f.had + 1)..Len(x.kids) : x.kids[n] \in DOMAIN ents
  BY <1>1
<1> QED  BY <1>2 DEF SkipOK, HasContent, Unread

\* Without children that came since the call there is nothing to say.
LEMMA SkipNew ==
  ASSUME NEW f, f.op # "getNext" \/ (f.had \in Nat /\ f.had = Len(ents[f.ent].kids))
  PROVE  SkipOK(f)
BY DEF SkipOK

LEMMA SkipSame ==
  ASSUME NEW f, SkipOK(f), ents' = ents
  PROVE  SkipOK(f)'
BY DEF SkipOK, HasContent, Unread

LEMMA NFirst == doc \in Seq(STRING) /\ TreeInit => NInv
<1> SUFFICES ASSUME doc \in Seq(STRING), TreeInit PROVE NInv
  OBVIOUS
<1>1. TInv
  BY TreeFirst
<1>2. DOMAIN stack = {}
  BY DEF TreeInit
<1> QED  BY <1>1, <1>2 DEF NInv, NestOK, SkipInv

\* What parseOne changes: the entity read on, and the child it found.
LEMMA ParseOneChanges ==
  ASSUME TInv, ParseOne
  PROVE  /\ \A d \in DOMAIN ents :
              /\ ents'[d].tag = ents[d].tag /\ ents'[d].self = ents[d].self
              /\ d # Me => ents'[d] = ents[d]
         /\ \/ ents'[Me].kids = Mine.kids
            \/ \E n \in Nat :
                 /\ ents'[Me].kids = Append(Mine.kids, n)
                 /\ ents'[Me].complete = Mine.complete
                 /\ ents'[n].tag /\ ~ents'[n].self => ~ents'[Me].ready
<1>0. PICK r, me, x, n : r = last' /\ me = Me /\ x = ents[me] /\ n = Len(ents) + 1
  OBVIOUS
<1> DEFINE read == [x EXCEPT !.pos = r.next, !.ready = FALSE]
           closes == IsClosing(r.open) /\ NameOf(r.open) = x.name
           Child(c) == [read EXCEPT !.kids = Append(@, n),
                                    !.inserted = Len(x.kids) + 1,
                                    !.ready = StaysReady(c)]
<1>1. /\ stack # <<>> /\ GetTag(x.pos)
      /\ CASE r.kind = "throw" -> ents' = [ents EXCEPT ![me] = [x EXCEPT !.pos = r.next]]
           [] r.kind = "none" -> ents' = [ents EXCEPT ![me] = [read EXCEPT !.error = TRUE]]
           [] r.kind = "text" ->
                ents' = Append([ents EXCEPT ![me] = Child(TextEntity(r))], TextEntity(r))
           [] r.kind = "tag" /\ ~IsClosing(r.open) ->
                ents' = Append([ents EXCEPT ![me] = Child(TagEntity(r))], TagEntity(r))
           [] OTHER ->
                ents' = [ents EXCEPT ![me] =
                           [read EXCEPT !.complete = @ \/ closes,
                                        !.ready = ~closes /\ IsSelf(r.open, r.close)]]
  BY <1>0 DEF ParseOne, ParseOneEnts, Mine
<1>2. /\ me \in DOMAIN ents /\ x \in Entity /\ x.pos \in offsets
      /\ ents \in Seq(Entity) /\ n \in Nat
  BY <1>0, <1>1, TopFacts DEF Mine, TInv, TreeTypes
<1>3. r \in Calls /\ r.kind \in {"none", "text", "tag", "throw"}
  BY <1>0, <1>1, <1>2, GetTagKeepsReader DEF TInv, Calls, Kinds
<1>4. read \in Entity /\ read.tag = x.tag /\ read.self = x.self /\ read.kids = x.kids
      /\ read.complete = x.complete
  <2>1. r.next \in Nat
    BY <1>3 DEF Calls
  <2> QED  BY <1>2, <2>1 DEF Entity
<1> HIDE DEF read, Child
<1> DEFINE Goal == /\ \A d \in DOMAIN ents :
                        /\ ents'[d].tag = ents[d].tag /\ ents'[d].self = ents[d].self
                        /\ d # me => ents'[d] = ents[d]
                   /\ \/ ents'[me].kids = x.kids
                      \/ \E k \in Nat :
                           /\ ents'[me].kids = Append(x.kids, k)
                           /\ ents'[me].complete = x.complete
                           /\ ents'[k].tag /\ ~ents'[k].self => ~ents'[me].ready
<1>5. ASSUME NEW y, ents' = [ents EXCEPT ![me] = y], y.tag = x.tag, y.self = x.self,
             y.kids = x.kids
      PROVE  Goal
  BY <1>0, <1>2, <1>5
<1>6. ASSUME NEW y, NEW c, ents' = Append([ents EXCEPT ![me] = y], c), y \in Entity, c \in Entity,
             y.tag = x.tag, y.self = x.self, y.kids = Append(x.kids, n),
             y.complete = x.complete, c.tag /\ ~c.self => ~y.ready
      PROVE  Goal
  <2>1. PICK s : s = [ents EXCEPT ![me] = y]
    OBVIOUS
  <2>2. s \in Seq(Entity) /\ Len(s) = Len(ents) /\ s[me] = y /\ DOMAIN s = DOMAIN ents
        /\ \A d \in DOMAIN ents : d # me => s[d] = ents[d]
    BY <1>2, <1>6, <2>1
  <2>3. /\ \A d \in DOMAIN s : ents'[d] = s[d]
        /\ ents'[n] = c
    <3>1. ents' = Append(s, c) /\ n = Len(s) + 1
      BY <1>0, <1>6, <2>1, <2>2
    <3> QED  BY <1>6, <2>2, <3>1, OneMore
  <2>4. ents'[me] = y /\ \A d \in DOMAIN ents : d # me => ents'[d] = ents[d]
    BY <1>2, <2>2, <2>3
  <2>5. \A d \in DOMAIN ents :
          /\ ents'[d].tag = ents[d].tag /\ ents'[d].self = ents[d].self
          /\ d # me => ents'[d] = ents[d]
    BY <1>0, <1>6, <2>4, Zenon
  <2>6. /\ ents'[me].kids = Append(x.kids, n)
        /\ ents'[me].complete = x.complete
        /\ ents'[n].tag /\ ~ents'[n].self => ~ents'[me].ready
    BY <1>6, <2>3, <2>4, Zenon
  <2> QED  BY <1>2, <2>5, <2>6, Zenon
<1>7. Goal
  <2> HIDE DEF Goal
  <2>0. CASE r.kind = "throw"
    <3>1. PICK y : y = [x EXCEPT !.pos = r.next]
      OBVIOUS
    <3>2. y.tag = x.tag /\ y.self = x.self /\ y.kids = x.kids
      BY <1>2, <3>1 DEF Entity
    <3> QED  BY <1>1, <1>5, <2>0, <3>1, <3>2
  <2>1. CASE r.kind = "none"
    <3>1. PICK y : y = [read EXCEPT !.error = TRUE]
      OBVIOUS
    <3>2. y.tag = x.tag /\ y.self = x.self /\ y.kids = x.kids
      BY <1>4, <3>1 DEF Entity
    <3> QED  BY <1>1, <1>5, <2>1, <3>1, <3>2
  <2>2. ASSUME NEW c \in Entity, ents' = Append([ents EXCEPT ![me] = Child(c)], c)
        PROVE  Goal
    <3>1. PICK k : k = Append(x.kids, n)
      OBVIOUS
    <3>2. /\ k \in Seq(Nat) /\ Len(x.kids) + 1 \in Nat
          /\ StaysReady(c) \in BOOLEAN /\ (c.tag /\ ~c.self => ~StaysReady(c))
      <4>1. x.kids \in Seq(Nat)
        BY <1>2 DEF Entity
      <4>2. StaysReady(c) \in BOOLEAN /\ (c.tag /\ ~c.self => ~StaysReady(c))
        BY DEF StaysReady, Entity
      <4> QED  BY <1>2, <3>1, <4>1, <4>2
    <3>3. PICK y : y = [read EXCEPT !.kids = k, !.inserted = Len(x.kids) + 1,
                                    !.ready = StaysReady(c)]
      OBVIOUS
    <3>4. y = Child(c)
      BY <1>4, <3>1, <3>3 DEF Child
    <3>5. y \in Entity
      BY <1>4, <3>2, <3>3 DEF Entity
    <3>6. /\ y.tag = x.tag /\ y.self = x.self /\ y.kids = k /\ y.complete = x.complete
          /\ y.ready = StaysReady(c)
      BY <1>4, <3>3 DEF Entity
    <3> QED  BY <1>6, <2>2, <3>1, <3>2, <3>4, <3>5, <3>6
  <2>3. CASE r.kind = "text"
    <3>1. TextEntity(r) \in Entity
      BY <1>3, <2>3, TextType
    <3> QED  BY <1>1, <2>2, <2>3, <3>1
  <2>4. CASE r.kind = "tag" /\ ~IsClosing(r.open)
    <3>1. TagEntity(r) \in Entity
      <4>1. /\ doc \in Seq(STRING) /\ r.open \in DOMAIN doc /\ r.close \in DOMAIN doc
            /\ Answered' /\ doc' = doc
        BY <1>0, <1>1, <1>2, <2>4, GetTagKeepsReader DEF TInv, RInv, ReaderTypeOK
      <4>2. IsTag(r.asked, r.open, r.close) /\ Parsed(r.open, r.close)
        BY <1>0, <2>4, <4>1, TagAnswered
      <4> QED  BY <1>3, <2>4, <4>1, <4>2, TagType
    <3> QED  BY <1>1, <2>2, <2>4, <3>1
  <2>5. CASE r.kind = "tag" /\ IsClosing(r.open)
    <3> DEFINE c == x.complete \/ closes
               g == ~closes /\ IsSelf(r.open, r.close)
               y == [read EXCEPT !.complete = c, !.ready = g]
    <3>1. ents' = [ents EXCEPT ![me] = y]
      BY <1>1, <1>4, <2>5
    <3> HIDE DEF c, g
    <3>2. y.tag = x.tag /\ y.self = x.self /\ y.kids = x.kids
      BY <1>4 DEF Entity
    <3> HIDE DEF y
    <3> QED  BY <1>5, <3>1, <3>2
  <2> QED  BY <1>3, <2>0, <2>1, <2>3, <2>4, <2>5
<1> QED  BY <1>0, <1>7 DEF Mine

\* Where a frame and its entity stand.
LEMMA FrameFacts ==
  ASSUME NInv, NEW n \in DOMAIN stack
  PROVE  /\ stack[n] \in Frames /\ stack[n].ent \in DOMAIN ents /\ SkipOK(stack[n])
         /\ stack # <<>> /\ 1 \in DOMAIN stack /\ n \in Nat
         /\ n # 1 /\ stack[n].op = "getNext" => stack[n].at = "sub" /\ stack[n].ent # Me
<1>1. stack \in Seq(Frames) /\ CallsOK(stack) /\ NestOK(stack) /\ SkipInv
  BY DEF NInv, TInv, TreeTypes, CallInv
<1>2. /\ stack[n] \in Frames /\ stack[n].ent \in DOMAIN ents /\ SkipOK(stack[n])
      /\ stack # <<>> /\ 1 \in DOMAIN stack /\ n \in Nat /\ n >= 1
  BY <1>1 DEF CallsOK, SkipInv
<1>3. ASSUME n # 1, stack[n].op = "getNext"
      PROVE  stack[n].at = "sub" /\ stack[n].ent # Me
  <2>1. n > 1 /\ 1 < n
    BY <1>2, <1>3
  <2>2. stack[n].at = "sub" /\ stack[n].ent < stack[1].ent
    BY <1>1, <1>2, <1>3, <2>1 DEF NestOK
  <2>3. stack[n].ent \in Nat /\ stack[1].ent \in Nat
    <3>1. stack[n] \in Frames /\ stack[1] \in Frames
      BY <1>1, <1>2
    <3> QED  BY <3>1 DEF Frames
  <2> QED  BY <2>2, <2>3 DEF Me, Top
<1> QED  BY <1>2, <1>3

\* A getNext() on top that is in parseSub() or reads on, and the elements it met.
LEMMA TopSkip ==
  ASSUME NInv, stack # <<>>, Top.op = "getNext", Top.at \in {"inner", "sub"},
         NEW n \in (Top.had + 1)..Len(Mine.kids), HasContent(Mine.kids[n])
  PROVE  /\ n = Len(Mine.kids) /\ ~Mine.ready /\ Mine.inserted = n /\ n # Npos
         /\ Top.at = "inner" => ~Mine.complete
<1>1. 1 \in DOMAIN stack
  BY DEF NInv, TInv, TreeTypes
<1>2. SkipOK(Top) /\ Top.had \in Nat
  BY <1>1, FrameFacts DEF Top, Frames
<1>3. /\ n = Len(Mine.kids) /\ ~Mine.ready
      /\ Top.at = "inner" => ~Mine.complete
  BY <1>2 DEF SkipOK, Mine, Me
<1>4. EntOK(Mine, Me) /\ Mine.kids \in Seq(Nat)
  BY TopFacts DEF NInv, Entity
<1>5. n > 0 /\ Mine.kids # <<>>
  BY <1>2, <1>3, <1>4
<1> QED  BY <1>3, <1>4, <1>5 DEF EntOK, Npos

\* The children of a tag in a call are entities.
LEMMA KidsThere ==
  ASSUME TInv, NEW e \in DOMAIN ents, NEW had \in Nat
  PROVE  /\ ents[e].kids \in Seq(Nat)
         /\ \A n \in (had + 1)..Len(ents[e].kids) : ents[e].kids[n] \in DOMAIN ents
<1>1. ents[e] \in Entity /\ EntOK(ents[e], e) /\ e \in Nat
      /\ Len(ents) \in Nat /\ DOMAIN ents = 1..Len(ents)
  BY DEF TInv, TreeTypes, EntInv
<1> QED  BY <1>1 DEF EntOK, Entity

LEMMA SkipParseOne == NInv /\ ParseOne => SkipInv'
<1> SUFFICES ASSUME NInv, ParseOne PROVE SkipInv'
  OBVIOUS
<1>0. CASE last'.kind = "throw"
  <2>1. DOMAIN stack' = {}
    BY <1>0 DEF ParseOne
  <2> QED  BY <2>1 DEF SkipInv
<1> SUFFICES ASSUME last'.kind # "throw" PROVE SkipInv'
  BY <1>0
<1>1. /\ TInv /\ stack # <<>> /\ UNCHANGED stack /\ Top.at = "inner" /\ Mine.ready
      /\ Top.op = "getNext" => ~Mine.complete
  BY DEF ParseOne, NInv, Reading
<1>2. /\ \A d \in DOMAIN ents :
           /\ ents'[d].tag = ents[d].tag /\ ents'[d].self = ents[d].self
           /\ d # Me => ents'[d] = ents[d]
      /\ \/ ents'[Me].kids = Mine.kids
         \/ \E k \in Nat :
              /\ ents'[Me].kids = Append(Mine.kids, k)
              /\ ents'[Me].complete = Mine.complete
              /\ ents'[k].tag /\ ~ents'[k].self => ~ents'[Me].ready
  BY <1>1, ParseOneChanges
<1>3. ASSUME NEW n \in DOMAIN stack, n # 1
      PROVE  SkipOK(stack[n])'
  <2>1. PICK f : f = stack[n]
    OBVIOUS
  <2>2. f \in Frames /\ f.ent \in DOMAIN ents /\ SkipOK(f)
        /\ (f.op = "getNext" => f.at = "sub" /\ f.ent # Me)
    BY <1>3, <2>1, FrameFacts
  <2>3. CASE f.op = "getNext"
    <3>1. SkipOK(f)'
      BY <1>1, <1>2, <2>2, <2>3, SkipKept
    <3> QED  BY <1>1, <2>1, <3>1
  <2>4. CASE f.op # "getNext"
    <3>1. SkipOK(f)'
      BY <2>4 DEF SkipOK
    <3> QED  BY <1>1, <2>1, <3>1
  <2> QED  BY <2>3, <2>4
<1>4. SkipOK(Top)'
  <2>1. PICK f, me, x : f = Top /\ me = Me /\ x = Mine
    OBVIOUS
  <2>2. 1 \in DOMAIN stack
    BY <1>1 DEF TInv, TreeTypes
  <2>3. f \in Frames /\ me \in DOMAIN ents /\ f.ent = me /\ f.had \in Nat /\ x = ents[me]
    BY <2>1, <2>2, FrameFacts DEF Top, Me, Mine, Frames
  <2>4. /\ x.kids \in Seq(Nat)
        /\ \A n \in (f.had + 1)..Len(x.kids) : x.kids[n] \in DOMAIN ents
    BY <1>1, <2>3, KidsThere
  <2>5. f.op = "getNext" => \A n \in (f.had + 1)..Len(x.kids) : ~HasContent(x.kids[n])
    BY <1>1, <2>1, TopSkip
  <2>6. f.op = "getNext" => \A n \in (f.had + 1)..Len(x.kids) : ~HasContent(x.kids[n])'
    BY <1>2, <2>4, <2>5 DEF HasContent
  <2>7. SkipOK(f)'
    <3>1. CASE ents'[me].kids = x.kids
      BY <2>3, <2>6, <3>1 DEF SkipOK
    <3>2. ASSUME NEW k \in Nat, ents'[me].kids = Append(x.kids, k),
                 ents'[me].complete = x.complete,
                 ents'[k].tag /\ ~ents'[k].self => ~ents'[me].ready
          PROVE  SkipOK(f)'
      <4>1. PICK kids, l : kids = Append(x.kids, k) /\ l = Len(x.kids)
        OBVIOUS
      <4>2. l \in Nat /\ Len(kids) = l + 1 /\ kids[l + 1] = k
            /\ \A n \in 1..l : kids[n] = x.kids[n]
        BY <2>4, <4>1
      <4>3. SUFFICES ASSUME f.op = "getNext", NEW n \in (f.had + 1)..(l + 1), HasContent(kids[n])'
                     PROVE  n = l + 1 /\ ~ents'[me].ready /\ ~ents'[me].complete /\ f.at = "inner"
        BY <2>3, <3>2, <4>1, <4>2 DEF SkipOK
      <4>4. n = l + 1
        <5>1. n \in Nat /\ f.had \in Nat /\ n <= l + 1 /\ n > f.had
          BY <2>3, <4>2
        <5>2. SUFFICES ASSUME n # l + 1 PROVE FALSE
          OBVIOUS
        <5>3. n \in 1..l /\ n \in (f.had + 1)..l
          BY <4>2, <5>1, <5>2
        <5> QED  BY <2>6, <4>1, <4>2, <4>3, <5>3
      <4>5. ents'[k].tag /\ ~ents'[k].self
        BY <4>2, <4>3, <4>4 DEF HasContent
      <4> QED  BY <1>1, <2>1, <3>2, <4>3, <4>4, <4>5
    <3> QED  BY <1>2, <2>1, <3>1, <3>2
  <2> QED  BY <1>1, <2>1, <2>7 DEF Top
<1> QED  BY <1>1, <1>3, <1>4 DEF SkipInv, Top

LEMMA SkipParseReturns == NInv /\ ParseReturns => NestOK(stack)' /\ SkipInv'
<1> SUFFICES ASSUME NInv, ParseReturns PROVE NestOK(stack)' /\ SkipInv'
  OBVIOUS
<1>1. /\ TInv /\ stack # <<>> /\ stack' = Tail(stack)
      /\ ents' = IF Len(stack) > 1
                   THEN [ents EXCEPT ![stack[2].ent].pos = Mine.pos]
                   ELSE ents
  BY DEF ParseReturns, ResumePos, NInv
<1>2. stack \in Seq(Frames) /\ NestOK(stack) /\ ents \in Seq(Entity)
  BY DEF NInv, TInv, TreeTypes
<1>3. /\ NestOK(Tail(stack))
      /\ \A n \in DOMAIN Tail(stack) : n + 1 \in DOMAIN stack /\ Tail(stack)[n] = stack[n + 1]
  BY <1>1, <1>2, NestTail
<1>4. \A d \in DOMAIN ents :
        /\ ents'[d].tag = ents[d].tag /\ ents'[d].self = ents[d].self
        /\ ents'[d].kids = ents[d].kids /\ ents'[d].ready = ents[d].ready
        /\ ents'[d].complete = ents[d].complete /\ ents'[d].error = ents[d].error
  <2>1. PICK e, p : e = stack[2].ent /\ p = Mine.pos
    OBVIOUS
  <2>2. CASE ents' = [ents EXCEPT ![e].pos = p]
    <3>1. \A d \in DOMAIN ents : ents[d] \in Entity
      BY <1>2
    <3>2. \A d \in DOMAIN ents : ents'[d] = ents[d] \/ ents'[d] = [ents[d] EXCEPT !.pos = p]
      BY <1>2, <2>2
    <3> QED  BY <3>1, <3>2 DEF Entity
  <2> QED  BY <1>1, <2>1, <2>2
<1>5. ASSUME NEW n \in DOMAIN stack' PROVE SkipOK(stack[n])'
  <2>1. PICK f : f = stack'[n]
    OBVIOUS
  <2>2. f \in Frames /\ f.ent \in DOMAIN ents /\ SkipOK(f)
    BY <1>1, <1>3, <1>5, <2>1, FrameFacts
  <2>3. SkipOK(f)'
    BY <1>1, <1>4, <2>2, SkipKept
  <2> QED  BY <2>1, <2>3 DEF SkipOK
<1> QED  BY <1>1, <1>3, <1>5 DEF SkipInv

\* A step that moves the innermost call to a place and changes its entity at most.
LEMMA SkipGoto ==
  ASSUME NInv, stack # <<>>, NEW place \in Places, Goto(place),
         \A d \in DOMAIN ents :
           /\ ents'[d].tag = ents[d].tag /\ ents'[d].self = ents[d].self
           /\ d # Me => ents'[d] = ents[d],
         NEW g, g = [Top EXCEPT !.at = place], SkipOK(g)'
  PROVE  NestOK(stack)' /\ SkipInv'
<1>1. TInv /\ stack \in Seq(Frames) /\ NestOK(stack)
  BY DEF NInv, TInv, TreeTypes
<1>2. PICK s : s = [stack EXCEPT ![1].at = place]
  OBVIOUS
<1>3. /\ NestOK(s) /\ DOMAIN s = DOMAIN stack /\ s[1] = g
      /\ \A n \in DOMAIN stack : n # 1 => s[n] = stack[n]
  <2>1. /\ NestOK(s) /\ DOMAIN s = DOMAIN stack
        /\ \A n \in DOMAIN stack : n # 1 => s[n] = stack[n]
        /\ s[1] = [stack[1] EXCEPT !.at = place]
    <3>1. stack \in Seq(Frames) /\ stack # <<>> /\ NestOK(stack) /\ place \in Places
      BY <1>1
    <3> QED  BY <1>2, <3>1, NestGoto
  <2> QED  BY <2>1 DEF Top
<1>4. stack' = s
  BY <1>2 DEF Goto
<1>5. ASSUME NEW n \in DOMAIN stack' PROVE SkipOK(stack[n])'
  <2>1. CASE n = 1
    BY <1>3, <1>4, <2>1 DEF SkipOK
  <2>2. CASE n # 1
    <3>1. PICK f : f = stack[n]
      OBVIOUS
    <3>2. f \in Frames /\ f.ent \in DOMAIN ents /\ SkipOK(f)
          /\ (f.op = "getNext" => f.at = "sub" /\ f.ent # Me)
      BY <1>3, <1>4, <2>2, <3>1, FrameFacts
    <3>3. SkipOK(f)'
      <4>1. CASE f.op = "getNext"
        BY <1>1, <3>2, <4>1, SkipKept
      <4>2. CASE f.op # "getNext"
        BY <4>2 DEF SkipOK
      <4> QED  BY <4>1, <4>2
    <3>4. stack'[n] = f
      BY <1>3, <1>4, <2>2, <3>1
    <3> QED  BY <3>3, <3>4 DEF SkipOK
  <2> QED  BY <2>1, <2>2
<1> QED  BY <1>3, <1>4, <1>5 DEF SkipInv

LEMMA SkipSub == NInv /\ (SubFails \/ SubDone) => NestOK(stack)' /\ SkipInv'
<1> SUFFICES ASSUME NInv, SubFails \/ SubDone PROVE NestOK(stack)' /\ SkipInv'
  OBVIOUS
<1>1. /\ TInv /\ stack # <<>> /\ Goto(AfterSub) /\ Top.at = "sub"
      /\ \/ /\ ents' = [ents EXCEPT ![Me].error = TRUE]
            /\ Mine.ready \/ Mine.inserted = Npos
         \/ /\ ents' = [ents EXCEPT ![Me].ready = TRUE]
            /\ ~Unread(LastKid)
  BY DEF SubFails, SubDone, NInv
<1>2. PICK f, me, x, g :
        f = Top /\ me = Me /\ x = Mine /\ g = [f EXCEPT !.at = AfterSub]
  OBVIOUS
<1>3. /\ f \in Frames /\ me \in DOMAIN ents /\ f.ent = me /\ f.had \in Nat
      /\ x = ents[me] /\ x \in Entity /\ ents \in Seq(Entity)
  BY <1>1, <1>2, TopFacts DEF Top, Me, Mine, Frames, TInv, TreeTypes
<1>4. /\ x.kids \in Seq(Nat)
      /\ \A n \in (f.had + 1)..Len(x.kids) : x.kids[n] \in DOMAIN ents
  BY <1>1, <1>3, KidsThere
<1>5. \A d \in DOMAIN ents :
        /\ ents'[d].tag = ents[d].tag /\ ents'[d].self = ents[d].self
        /\ d # me => ents'[d] = ents[d]
        /\ ents'[d].kids = ents[d].kids
  <2>1. \A d \in DOMAIN ents : ents[d] \in Entity
    BY <1>3
  <2>2. \/ \A d \in DOMAIN ents : ents'[d] = IF d = me THEN [ents[d] EXCEPT !.error = TRUE] ELSE ents[d]
        \/ \A d \in DOMAIN ents : ents'[d] = IF d = me THEN [ents[d] EXCEPT !.ready = TRUE] ELSE ents[d]
    BY <1>1, <1>2, <1>3
  <2> QED  BY <2>1, <2>2 DEF Entity
<1>6. g.op = f.op /\ g.ent = me /\ g.had = f.had /\ g.at = AfterSub
  BY <1>2, <1>3 DEF Frames
<1>7. SkipOK(g)'
  <2> SUFFICES ASSUME f.op = "getNext", NEW n \in (f.had + 1)..Len(x.kids), HasContent(x.kids[n])
               PROVE  n = Len(x.kids) /\ ~Unread(x.kids[n])' /\ g.at = "return"
    <3>1. ents'[me].kids = x.kids
      BY <1>3, <1>5
    <3>2. \A n \in (f.had + 1)..Len(x.kids) : HasContent(x.kids[n])' <=> HasContent(x.kids[n])
      BY <1>4, <1>5 DEF HasContent
    <3> QED  BY <1>6, <3>1, <3>2 DEF SkipOK
  <2>1. n = Len(x.kids) /\ ~x.ready /\ x.inserted = n /\ n # Npos
    BY <1>1, <1>2, TopSkip
  <2>2. ents' = [ents EXCEPT ![me].ready = TRUE] /\ ~Unread(x.kids[n])
    BY <1>1, <1>2, <2>1 DEF LastKid
  <2>3. x.kids[n] \in DOMAIN ents
    BY <1>4
  <2>4. \A d \in DOMAIN ents : ents'[d].tag = ents[d].tag /\ ents'[d].complete = ents[d].complete
                               /\ ents'[d].error = ents[d].error
    <3>1. \A d \in DOMAIN ents : ents[d] \in Entity
      BY <1>3
    <3>2. \A d \in DOMAIN ents : ents'[d] = ents[d] \/ ents'[d] = [ents[d] EXCEPT !.ready = TRUE]
      BY <1>3, <2>2
    <3> QED  BY <3>1, <3>2 DEF Entity
  <2>5. ~Unread(x.kids[n])'
    BY <2>2, <2>3, <2>4 DEF Unread
  <2>6. g.at = "return"
    BY <1>2, <1>6 DEF AfterSub
  <2> QED  BY <2>1, <2>5, <2>6
<1>8. AfterSub \in Places
  BY DEF AfterSub, Places
<1> QED  BY <1>1, <1>2, <1>5, <1>7, <1>8, SkipGoto

\* The other steps leave the entities alone.
LEMMA SkipMoves ==
  NInv /\ (\/ LeaveInner \/ SubCall \/ ParseAgain
           \/ NextReturns \/ NextTagCalls \/ NextTagGot \/ NextTagEnds)
    => NestOK(stack)' /\ SkipInv'
<1> SUFFICES ASSUME NInv, \/ LeaveInner \/ SubCall \/ ParseAgain
                          \/ NextReturns \/ NextTagCalls \/ NextTagGot \/ NextTagEnds
             PROVE  NestOK(stack)' /\ SkipInv'
  OBVIOUS
<1>1. TInv /\ stack # <<>> /\ ents' = ents /\ stack \in Seq(Frames) /\ NestOK(stack)
  BY DEF LeaveInner, SubCall, ParseAgain, NextReturns, NextTagCalls, NextTagGot,
         NextTagEnds, NInv, TInv, TreeTypes
<1>2. /\ Top \in Frames /\ Me \in DOMAIN ents /\ SkipOK(Top) /\ Top.had \in Nat
      /\ Top.ent = Me /\ Me \in Nat
  BY <1>1, FrameFacts, TopFacts DEF Top, Me, Frames, TreeTypes
<1>3. ASSUME NEW place \in Places, Goto(place),
             NEW g, g = [Top EXCEPT !.at = place], SkipOK(g)
      PROVE  NestOK(stack)' /\ SkipInv'
  <2>1. SkipOK(g)'
    BY <1>1, <1>3, SkipSame
  <2> QED  BY <1>1, <1>3, <2>1, SkipGoto
<1>4. ASSUME NEW place \in Places, Goto(place), Top.op # "getNext"
      PROVE  NestOK(stack)' /\ SkipInv'
  <2>1. PICK g : g = [Top EXCEPT !.at = place]
    OBVIOUS
  <2>2. SkipOK(g)
    BY <1>2, <1>4, <2>1 DEF SkipOK, Frames
  <2> QED  BY <1>3, <1>4, <2>1, <2>2
<1>5. ASSUME stack' = Tail(stack) PROVE NestOK(stack)' /\ SkipInv'
  <2>1. /\ NestOK(Tail(stack))
        /\ \A n \in DOMAIN Tail(stack) : n + 1 \in DOMAIN stack /\ Tail(stack)[n] = stack[n + 1]
    BY <1>1, NestTail
  <2>2. ASSUME NEW n \in DOMAIN stack' PROVE SkipOK(stack[n])'
    <3>1. PICK f : f = stack'[n]
      OBVIOUS
    <3>2. SkipOK(f)
      BY <1>5, <2>1, <2>2, <3>1, FrameFacts
    <3>3. SkipOK(f)'
      BY <1>1, <3>2, SkipSame
    <3> QED  BY <3>1, <3>3 DEF SkipOK
  <2> QED  BY <1>5, <2>1, <2>2 DEF SkipInv
<1>6. ASSUME NEW s \in Seq(Frames), s # <<>>, NestOK(s), \A n \in DOMAIN s : SkipOK(s[n]),
             NEW f \in Frames, SkipOK(f), stack' = <<f>> \o s,
             f.ent >= s[1].ent, f.ent = s[1].ent => s[1].op = "getNextTag",
             s[1].op = "getNext" => s[1].at = "sub"
      PROVE  NestOK(stack)' /\ SkipInv'
  <2>1. PICK g : g = <<f>> \o s
    BY Zenon
  <2>2. NestOK(g) /\ \A n \in DOMAIN g : g[n] = f \/ \E m \in DOMAIN s : g[n] = s[m]
    <3>1. /\ s \in Seq(Frames) /\ s # <<>> /\ NestOK(s) /\ f \in Frames
          /\ f.ent >= s[1].ent /\ (f.ent = s[1].ent => s[1].op = "getNextTag")
          /\ (s[1].op = "getNext" => s[1].at = "sub")
      BY <1>6
    <3> QED  BY <2>1, <3>1, NestCall
  <2>3. ASSUME NEW n \in DOMAIN g PROVE SkipOK(stack[n])'
    <3>1. SkipOK(g[n])
      BY <1>6, <2>2, <2>3
    <3>2. SkipOK(g[n])'
      BY <1>1, <3>1, SkipSame
    <3> QED  BY <1>6, <2>1, <3>2 DEF SkipOK
  <2> QED  BY <1>6, <2>1, <2>2, <2>3 DEF SkipInv
<1>7. CASE LeaveInner
  <2>1. PICK place, g :
          /\ place = IF Top.op = "getNext" /\ Mine.complete THEN "return" ELSE "sub"
          /\ g = [Top EXCEPT !.at = place]
    OBVIOUS
  <2>2. Goto(place) /\ place \in Places /\ Top.at = "inner"
    BY <1>7, <2>1 DEF LeaveInner, Places
  <2>3. g.op = Top.op /\ g.ent = Me /\ g.had = Top.had /\ g.at = place
    BY <1>2, <2>1 DEF Frames
  <2>4. Top.op = "getNext" =>
          \A n \in (Top.had + 1)..Len(Mine.kids) : HasContent(Mine.kids[n]) =>
            n = Len(Mine.kids) /\ ~Mine.ready /\ ~Mine.complete
    BY <1>1, <2>2, TopSkip
  <2>5. SkipOK(g)
    <3> SUFFICES ASSUME Top.op = "getNext", NEW n \in (Top.had + 1)..Len(Mine.kids),
                        HasContent(Mine.kids[n])
                 PROVE  n = Len(Mine.kids) /\ ~Mine.ready /\ g.at = "sub"
      BY <2>3 DEF SkipOK, Mine
    <3> QED  BY <2>1, <2>3, <2>4
  <2> QED  BY <1>3, <2>1, <2>2, <2>5
<1>8. CASE ParseAgain
  <2>1. Goto("inner") /\ "inner" \in Places /\ Top.op # "getNext"
    BY <1>8 DEF ParseAgain, Places
  <2> QED  BY <1>4, <2>1
<1>9. CASE NextReturns \/ NextTagEnds
  BY <1>5, <1>9 DEF NextReturns, NextTagEnds
<1>10. CASE NextTagGot
  <2>1. stack' = Tail(stack) \/ (Goto("outer") /\ "outer" \in Places /\ Top.op # "getNext")
    BY <1>10 DEF NextTagGot, Places
  <2> QED  BY <1>4, <1>5, <2>1
<1>11. ASSUME NEW op \in Ops, NEW e \in DOMAIN ents, NEW place \in Places
       PROVE  /\ Frame(op, e, place) \in Frames /\ Frame(op, e, place).ent = e
              /\ SkipOK(Frame(op, e, place))
  <2>1. e \in Nat /\ Len(ents[e].kids) \in Nat
    <3>1. e \in Nat /\ ents[e] \in Entity
      BY <1>1 DEF TInv, TreeTypes
    <3>2. ents[e].kids \in Seq(Nat)
      BY <3>1 DEF Entity
    <3> QED  BY <3>1, <3>2
  <2>2. PICK f : f = Frame(op, e, place)
    OBVIOUS
  <2>3. f \in Frames /\ f.ent = e /\ f.had = Len(ents[e].kids)
    BY <2>1, <2>2 DEF Frame, Frames
  <2>4. SkipOK(f)
    BY <2>1, <2>3, SkipNew
  <2> QED  BY <2>2, <2>3, <2>4
<1>12. CASE SubCall
  <2>1. /\ Top.at = "sub" /\ ~Mine.ready /\ Mine.inserted # Npos
        /\ stack' = <<Frame("parse", LastKid, "outer")>> \o stack
    BY <1>12 DEF SubCall
  <2>2. LastKid \in DOMAIN ents /\ LastKid > Me
    <3>1. EntOK(Mine, Me) /\ Mine \in Entity
      BY <1>1, TopFacts
    <3>2. Mine.kids # <<>> /\ Mine.inserted = Len(Mine.kids) /\ Mine.kids \in Seq(Nat)
      BY <2>1, <3>1 DEF EntOK, Entity
    <3>3. Mine.inserted \in DOMAIN Mine.kids
      BY <3>2
    <3>4. LastKid \in (Me + 1)..Len(ents)
      BY <3>1, <3>3 DEF EntOK, LastKid
    <3>5. DOMAIN ents = 1..Len(ents) /\ Len(ents) \in Nat
      BY <1>1 DEF TInv, TreeTypes
    <3> QED  BY <1>2, <3>4, <3>5
  <2>3. PICK f : f = Frame("parse", LastKid, "outer")
    OBVIOUS
  <2>4. f \in Frames /\ f.ent = LastKid /\ SkipOK(f)
    BY <1>11, <2>2, <2>3 DEF Ops, Places
  <2>5. LastKid \in Nat /\ LastKid >= Me /\ LastKid # Me
    BY <1>1, <1>2, <2>2 DEF TInv, TreeTypes
  <2>6. \A n \in DOMAIN stack : SkipOK(stack[n])
    BY FrameFacts
  <2> QED  BY <1>1, <1>6, <2>1, <2>3, <2>4, <2>5, <2>6 DEF Top, Me
<1>13. CASE NextTagCalls
  <2>1. PICK s : s = [stack EXCEPT ![1].at = "return"]
    OBVIOUS
  <2>2. PICK f : f = Frame("getNext", Me, "inner")
    OBVIOUS
  <2>3. stack' = <<f>> \o s /\ Top.op = "getNextTag"
    BY <1>13, <2>1, <2>2 DEF NextTagCalls
  <2>4. /\ NestOK(s) /\ DOMAIN s = DOMAIN stack /\ s[1] = [stack[1] EXCEPT !.at = "return"]
        /\ \A n \in DOMAIN stack : n # 1 => s[n] = stack[n]
    BY <1>1, <2>1, NestGoto DEF Places
  <2>5. s \in Seq(Frames) /\ s # <<>>
    <3>1. CallsOK(stack)
      BY <1>1, TopFacts
    <3>2. s \in Seq(Frames)
      BY <1>1, <2>1, <3>1, GotoOK DEF Places
    <3> QED  BY <1>1, <2>4, <3>2
  <2>6. s[1].op = "getNextTag" /\ s[1].ent = Me
    BY <1>2, <2>3, <2>4 DEF Top, Me, Frames
  <2>7. \A n \in DOMAIN s : SkipOK(s[n])
    <3>1. SkipOK(s[1])
      BY <2>6 DEF SkipOK
    <3> QED  BY <2>4, <3>1, FrameFacts
  <2>8. f \in Frames /\ f.ent = Me /\ SkipOK(f)
    BY <1>2, <1>11, <2>2 DEF Ops, Places
  <2>9. f.ent >= s[1].ent
    BY <1>2, <2>6, <2>8
  <2> QED  BY <1>6, <2>3, <2>4, <2>5, <2>6, <2>7, <2>8, <2>9
<1> QED  BY <1>7, <1>8, <1>9, <1>10, <1>12, <1>13

\* The user's calls start with nothing to say.
LEMMA SkipCalls ==
  ASSUME NInv, NEW e \in Entities,
         CallParse(e) \/ CallGetNext(e) \/ CallGetNextTag(e)
           \/ CallUnParse(e) \/ CallReParse(e)
  PROVE  NestOK(stack)' /\ SkipInv'
<1>1. /\ TInv /\ stack = <<>> /\ e \in DOMAIN ents
      /\ e \in Nat /\ ents[e] \in Entity /\ ents[e].kids \in Seq(Nat)
  <2>1. TInv /\ stack = <<>> /\ e \in DOMAIN ents
    BY DEF CallParse, CallGetNext, CallGetNextTag, CallUnParse, CallReParse, Called,
           Idle, Entities, NInv
  <2>2. e \in Nat /\ ents[e] \in Entity
    BY <2>1 DEF TInv, TreeTypes
  <2> QED  BY <2>1, <2>2 DEF Entity
<1>2. CASE stack' = <<>>
  BY <1>2 DEF NestOK, SkipInv
<1>3. ASSUME NEW f, stack' = <<f>>,
             f.op # "getNext" \/ (ents' = ents /\ f.had \in Nat /\ f.had = Len(ents[f.ent].kids))
      PROVE  NestOK(stack)' /\ SkipInv'
  <2>1. DOMAIN stack' = {1} /\ stack'[1] = f
    BY <1>3
  <2>2. NestOK(stack)'
    BY <2>1 DEF NestOK
  <2>3. SkipOK(f)'
    <3>1. CASE f.op # "getNext"
      BY <3>1 DEF SkipOK
    <3>2. CASE f.op = "getNext"
      <4>1. SkipOK(f)
        BY <1>3, <3>2, SkipNew
      <4> QED  BY <1>3, <3>2, <4>1, SkipSame
    <3> QED  BY <3>1, <3>2
  <2> QED  BY <2>1, <2>2, <2>3 DEF SkipInv, SkipOK
<1>4. CASE CallParse(e) \/ CallGetNextTag(e) \/ CallReParse(e)
  <2>1. PICK f : stack' = <<f>> /\ f.op # "getNext"
    BY <1>4 DEF CallParse, CallGetNextTag, CallReParse, Frame
  <2> QED  BY <1>3, <2>1
<1>5. CASE CallGetNext(e)
  <2>1. PICK f : f = Frame("getNext", e, "inner")
    OBVIOUS
  <2>2. f.ent = e /\ f.had = Len(ents[e].kids)
    BY <2>1 DEF Frame
  <2>3. ents' = ents /\ (stack' = stack \/ stack' = <<f>>)
    BY <1>5, <2>1 DEF CallGetNext
  <2>4. f.had \in Nat
    BY <1>1, <2>2
  <2> QED  BY <1>1, <1>2, <1>3, <2>2, <2>3, <2>4
<1>6. CASE CallUnParse(e)
  BY <1>1, <1>2, <1>6 DEF CallUnParse
<1> QED  BY <1>4, <1>5, <1>6

LEMMA NStep == NInv /\ [Next]_vars => NInv'
<1> SUFFICES ASSUME NInv, [Next]_vars PROVE NestOK(stack)' /\ SkipInv'
  BY TreeStep DEF NInv
<1>1. CASE ReadRoot
  <2>1. stack = <<>> /\ stack' = stack
    BY <1>1, TopFacts DEF ReadRoot, NInv
  <2>2. DOMAIN stack' = {}
    BY <2>1
  <2> QED  BY <2>2 DEF NestOK, SkipInv
<1>2. CASE UserCalls
  BY <1>2, SkipCalls DEF UserCalls
<1>3. CASE ParseOne
  <2>1. NestOK(stack)'
    BY <1>3 DEF ParseOne, NInv, NestOK
  <2> QED  BY <1>3, <2>1, SkipParseOne
<1>4. CASE Works /\ ~ParseOne
  BY <1>4, SkipSub, SkipMoves, SkipParseReturns DEF Works
<1>5. CASE UNCHANGED vars
  <2>1. ents' = ents /\ stack' = stack
    BY <1>5 DEF vars, treeVars
  <2>2. NestOK(stack)'
    BY <2>1 DEF NestOK, NInv
  <2>3. ASSUME NEW n \in DOMAIN stack' PROVE SkipOK(stack[n])'
    <3>1. SkipOK(stack[n])
      BY <2>1, <2>3 DEF NInv, SkipInv
    <3> QED  BY <2>1, <3>1 DEF SkipOK, HasContent, Unread
  <2> QED  BY <2>2, <2>3 DEF SkipInv
<1> QED  BY <1>1, <1>2, <1>3, <1>4, <1>5 DEF Next

(* getNext() skips text and self-closing tags only; an element it comes upon *)
(* it reads to its end and returns, whatever calls went before               *)
(* (xmltag.cpp:59-73).                                                       *)
THEOREM NoElementIsSkipped == TreeSpec => NoElementSkipped
<1>1. TreeSpec => []NInv
  BY NFirst, NStep, PTL DEF TreeSpec, Spec
<1>2. NInv /\ [Next]_vars =>
        [NextReturns =>
           \A n \in (Top.had + 1)..Len(Mine.kids) :
             LET k == Mine.kids[n] IN
             ents[k].tag /\ ~ents[k].self => ret' = k /\ ~Unread(k)]_vars
  <2> SUFFICES ASSUME NInv, NextReturns, NEW n \in (Top.had + 1)..Len(Mine.kids),
                      HasContent(Mine.kids[n])
               PROVE  ret' = Mine.kids[n] /\ ~Unread(Mine.kids[n])
    BY DEF HasContent
  <2>1. /\ stack # <<>> /\ Top.op = "getNext" /\ Top.at = "return" /\ ret' = Given
    BY DEF NextReturns
  <2>2. 1 \in DOMAIN stack
    BY <2>1 DEF NInv, TInv, TreeTypes
  <2>3. SkipOK(Top) /\ Top.had \in Nat
    BY <2>2, FrameFacts DEF Top, Frames
  <2>4. n = Len(Mine.kids) /\ ~Unread(Mine.kids[n])
    BY <2>1, <2>3 DEF SkipOK, Mine, Me
  <2>5. EntOK(Mine, Me) /\ Mine.kids \in Seq(Nat)
    BY <2>1, TopFacts DEF NInv, Entity
  <2>6. Mine.kids # <<>> /\ n \in 1..Len(Mine.kids)
    BY <2>3, <2>4, <2>5
  <2>7. Mine.inserted = n
    BY <2>4, <2>5, <2>6 DEF EntOK
  <2> QED  BY <2>1, <2>4, <2>6, <2>7 DEF Given, LastKid
<1> QED  BY <1>1, <1>2, PTL DEF TreeSpec, Spec, NoElementSkipped

-----------------------------------------------------------------------------
(* The tree of a document *)

\* A bracket is a place of the document.
LEMMA BracketPlaces ==
  ASSUME NEW d \in Seq(STRING), NEW b \in Brackets(d)
  PROVE  /\ b \in DOMAIN d /\ b \in Nat /\ b > 0 /\ b <= Len(d) /\ d[b] = "<" /\ Len(d) \in Nat
         /\ DOMAIN d = 1..Len(d)
BY DEF Brackets

\* A tag ends at the first ">" behind its bracket, before any other bracket.
LEMMA TagEnd ==
  ASSUME NEW d \in Seq(STRING), WholeTags(d), NEW b \in Brackets(d)
  PROVE  /\ CloseOf(d, b) \in DOMAIN d /\ CloseOf(d, b) \in Nat /\ b + 2 <= CloseOf(d, b)
         /\ d[CloseOf(d, b)] = ">"
         /\ \A k \in Nat : b < k /\ k < CloseOf(d, b) => d[k] \notin {"<", ">"}
<1>1. b \in DOMAIN d /\ b \in Nat /\ b > 0 /\ Len(d) \in Nat /\ DOMAIN d = 1..Len(d)
  BY BracketPlaces
<1>2. PICK j \in (b + 2)..Len(d) :
        d[j] = ">" /\ \A k \in (b + 1)..(j - 1) : d[k] \notin {"<", ">"}
  BY DEF WholeTags
<1>3. j \in Nat /\ j \in DOMAIN d /\ j > b
  BY <1>1, <1>2
<1> DEFINE EndsAt(c) == c > b /\ d[c] = ">" /\ \A k \in (b + 1)..(c - 1) : d[k] # ">"
<1>4. CloseOf(d, b) = CHOOSE c \in DOMAIN d : EndsAt(c)
  BY DEF CloseOf
<1>5. EndsAt(j)
  BY <1>2, <1>3
<1>6. PICK c : c = CloseOf(d, b)
  OBVIOUS
<1>7. c \in DOMAIN d /\ EndsAt(c)
  BY <1>3, <1>4, <1>5, <1>6
<1>8. c \in Nat /\ c = j
  <2>1. c \in Nat /\ d[c] = ">"
    BY <1>1, <1>7
  <2>2. ~(c < j)
    BY <1>1, <1>2, <1>3, <1>7, <2>1
  <2>3. ~(j < c)
    BY <1>1, <1>2, <1>3, <1>7, <2>1
  <2> QED  BY <1>3, <2>1, <2>2, <2>3
<1>9. \A k \in Nat : b < k /\ k < j => k \in (b + 1)..(j - 1)
  BY <1>1, <1>3
<1>10. b + 2 <= j
  BY <1>2, <1>1
<1> QED  BY <1>2, <1>3, <1>6, <1>8, <1>9, <1>10

\* A tag ends at the first ">" there is.
LEMMA FirstEnd ==
  ASSUME NEW d \in Seq(STRING), WholeTags(d), NEW b \in Brackets(d), NEW c \in Nat,
         b < c, d[c] = ">", \A k \in Nat : b < k /\ k < c => d[k] # ">"
  PROVE  c = CloseOf(d, b)
<1>1. PICK e \in Nat : e = CloseOf(d, b)
  BY TagEnd
<1>2. b + 2 <= e /\ d[e] = ">" /\ \A k \in Nat : b < k /\ k < e => d[k] # ">"
  BY <1>1, TagEnd
<1>3. b \in Nat
  BY BracketPlaces
<1>4. ~(c < e) /\ ~(e < c)
  BY <1>2, <1>3
<1> QED  BY <1>1, <1>4

\* A tag ends before the next begins.
LEMMA TagsApart ==
  ASSUME NEW d \in Seq(STRING), WholeTags(d), NEW b \in Brackets(d), NEW h \in Brackets(d), b < h
  PROVE  CloseOf(d, b) < h
<1>1. PICK e \in Nat : e = CloseOf(d, b)
  BY TagEnd
<1>2. b + 2 <= e /\ d[e] = ">" /\ \A k \in Nat : b < k /\ k < e => d[k] # "<"
  BY <1>1, TagEnd
<1>3. b \in Nat /\ h \in Nat /\ d[h] = "<"
  BY BracketPlaces
<1>4. ~(h < e) /\ h # e
  BY <1>2, <1>3
<1> QED  BY <1>1, <1>3, <1>4

\* The depth counts what is open; it adds up.
LEMMA CountsFinite ==
  ASSUME NEW d \in Seq(STRING), NEW i, NEW j
  PROVE  /\ IsFiniteSet(OpensIn(d, i, j)) /\ IsFiniteSet(EndsIn(d, i, j))
         /\ Cardinality(OpensIn(d, i, j)) \in Nat /\ Cardinality(EndsIn(d, i, j)) \in Nat
         /\ Depth(d, i, j) \in Int
<1>1. IsFiniteSet(DOMAIN d)
  <2>1. DOMAIN d = 1..Len(d) /\ Len(d) \in Int
    OBVIOUS
  <2> QED  BY <2>1, FS_Interval
<1>2. OpensIn(d, i, j) \in SUBSET DOMAIN d /\ EndsIn(d, i, j) \in SUBSET DOMAIN d
  BY DEF OpensIn, EndsIn, Brackets
<1>3. IsFiniteSet(OpensIn(d, i, j)) /\ IsFiniteSet(EndsIn(d, i, j))
  BY <1>1, <1>2, FS_Subset
<1>4. Cardinality(OpensIn(d, i, j)) \in Nat /\ Cardinality(EndsIn(d, i, j)) \in Nat
  BY <1>3, FS_CardinalityType
<1> QED  BY <1>3, <1>4 DEF Depth

LEMMA Apart ==
  ASSUME NEW S, NEW T, IsFiniteSet(S), IsFiniteSet(T), S \cap T = {}
  PROVE  Cardinality(S \union T) = Cardinality(S) + Cardinality(T)
<1>1. Cardinality(S \cap T) = 0
  BY FS_EmptySet
<1>2. Cardinality(S) \in Nat /\ Cardinality(T) \in Nat
  BY FS_CardinalityType
<1>3. Cardinality(S \union T) = Cardinality(S) + Cardinality(T) - Cardinality(S \cap T)
  BY FS_Union
<1> QED  BY <1>1, <1>2, <1>3

\* The depth adds up over adjacent stretches of the document.
LEMMA DepthSplit ==
  ASSUME NEW d \in Seq(STRING), NEW i \in Nat, NEW k \in Nat, NEW x \in Nat, 0 < k, i <= k, k <= x + 1
  PROVE  /\ Depth(d, i, x) = Depth(d, i, k - 1) + Depth(d, k, x)
         /\ Depth(d, i, x) \in Int /\ Depth(d, i, k - 1) \in Int /\ Depth(d, k, x) \in Int
<1>1. /\ OpensIn(d, i, x) = OpensIn(d, i, k - 1) \union OpensIn(d, k, x)
      /\ OpensIn(d, i, k - 1) \cap OpensIn(d, k, x) = {}
  BY BracketPlaces DEF OpensIn
<1>2. /\ EndsIn(d, i, x) = EndsIn(d, i, k - 1) \union EndsIn(d, k, x)
      /\ EndsIn(d, i, k - 1) \cap EndsIn(d, k, x) = {}
  BY BracketPlaces DEF EndsIn
<1>3. Cardinality(OpensIn(d, i, x)) = Cardinality(OpensIn(d, i, k - 1)) + Cardinality(OpensIn(d, k, x))
  BY <1>1, Apart, CountsFinite
<1>4. Cardinality(EndsIn(d, i, x)) = Cardinality(EndsIn(d, i, k - 1)) + Cardinality(EndsIn(d, k, x))
  BY <1>2, Apart, CountsFinite
<1>5. PICK a \in Nat : a = Cardinality(OpensIn(d, i, k - 1))
  BY CountsFinite
<1>6. PICK b \in Nat : b = Cardinality(OpensIn(d, k, x))
  BY CountsFinite
<1>7. PICK u \in Nat : u = Cardinality(EndsIn(d, i, k - 1))
  BY CountsFinite
<1>8. PICK v \in Nat : v = Cardinality(EndsIn(d, k, x))
  BY CountsFinite
<1>9. /\ Depth(d, i, x) = (a + b) - (u + v) /\ Depth(d, i, k - 1) = a - u /\ Depth(d, k, x) = b - v
  BY <1>3, <1>4, <1>5, <1>6, <1>7, <1>8 DEF Depth
<1> QED  BY <1>9

\* From a bracket to the next the depth is that behind the first.
LEMMA DepthEmpty ==
  ASSUME NEW d \in Seq(STRING), NEW i, NEW x, \A k \in Brackets(d) : ~(i <= k /\ k <= x)
  PROVE  Depth(d, i, x) = 0
<1>1. OpensIn(d, i, x) = {} /\ EndsIn(d, i, x) = {}
  BY DEF OpensIn, EndsIn
<1>2. Cardinality(OpensIn(d, i, x)) = 0 /\ Cardinality(EndsIn(d, i, x)) = 0
  BY <1>1, FS_EmptySet
<1> QED  BY <1>2 DEF Depth

\* A stretch with one tag.
LEMMA DepthOne ==
  ASSUME NEW d \in Seq(STRING), NEW b \in Brackets(d), NEW i \in Nat, NEW x \in Nat, i <= b, b <= x,
         \A k \in Brackets(d) : i <= k /\ k <= x => k = b
  PROVE  /\ IsOpen(d, b) => Depth(d, i, x) = 1
         /\ EndTag(d, b) => Depth(d, i, x) = -1
         /\ ~IsOpen(d, b) /\ ~EndTag(d, b) => Depth(d, i, x) = 0
<1>1. IsOpen(d, b) => ~EndTag(d, b)
  BY DEF IsOpen
<1>2. OpensIn(d, i, x) = IF IsOpen(d, b) THEN {b} ELSE {}
  BY DEF OpensIn
<1>3. EndsIn(d, i, x) = IF EndTag(d, b) THEN {b} ELSE {}
  BY DEF EndsIn
<1>4. Cardinality({}) = 0 /\ Cardinality({b}) = 1
  BY FS_EmptySet, FS_Singleton
<1>5. IsOpen(d, b) => Cardinality(OpensIn(d, i, x)) = 1 /\ Cardinality(EndsIn(d, i, x)) = 0
  BY <1>1, <1>2, <1>3, <1>4
<1>6. EndTag(d, b) => Cardinality(OpensIn(d, i, x)) = 0 /\ Cardinality(EndsIn(d, i, x)) = 1
  BY <1>1, <1>2, <1>3, <1>4
<1>7. ~IsOpen(d, b) /\ ~EndTag(d, b) => Cardinality(OpensIn(d, i, x)) = 0 /\ Cardinality(EndsIn(d, i, x)) = 0
  BY <1>2, <1>3, <1>4
<1> QED  BY <1>5, <1>6, <1>7 DEF Depth

\* Only an opening tag has an element to close.
LEMMA ClosingOpens ==
  ASSUME NEW d \in Seq(STRING), NEW i \in Nat, NEW j \in Nat, Closing(d, i, j)
  PROVE  i \in Brackets(d) /\ IsOpen(d, i)
<1>1. Depth(d, i, i) > 0
  BY DEF Closing
<1>2. PICK a \in Nat : a = Cardinality(OpensIn(d, i, i))
  BY CountsFinite
<1>3. PICK b \in Nat : b = Cardinality(EndsIn(d, i, i))
  BY CountsFinite
<1>4. a > 0
  BY <1>1, <1>2, <1>3 DEF Depth
<1>5. OpensIn(d, i, i) # {}
  <2>1. Cardinality({}) = 0
    BY FS_EmptySet
  <2>2. Cardinality(OpensIn(d, i, i)) # 0
    BY <1>2, <1>4
  <2> QED  BY <2>1, <2>2, Zenon
<1>6. \A k \in OpensIn(d, i, i) : k = i
  BY BracketPlaces DEF OpensIn
<1> QED  BY <1>5, <1>6 DEF OpensIn

\* The tag that closes an element.
Shut(d, i) == CHOOSE j \in Brackets(d) : Closing(d, i, j)

LEMMA ShutCloses ==
  ASSUME NEW d \in Seq(STRING), NEW i, Shuts(d, i)
  PROVE  Shut(d, i) \in Brackets(d) /\ Closing(d, i, Shut(d, i))
BY DEF Shuts, Shut

\* An element is closed once.
LEMMA ClosingOnce ==
  ASSUME NEW d \in Seq(STRING), NEW i \in Nat, NEW j \in Nat, NEW k \in Nat,
         Closing(d, i, j), Closing(d, i, k)
  PROVE  j = k
<1>1. i < j /\ i < k /\ Depth(d, i, j) = 0 /\ Depth(d, i, k) = 0
  BY DEF Closing
<1>2. ASSUME NEW a \in Nat, NEW c \in Nat, a < c, i < a, Closing(d, i, c) PROVE Depth(d, i, a) > 0
  <2>1. a \in i..(c - 1)
    BY <1>2
  <2> QED  BY <1>2, <2>1 DEF Closing
<1>3. ~(j < k)
  BY <1>1, <1>2
<1>4. ~(k < j)
  BY <1>1, <1>2
<1> QED  BY <1>3, <1>4

\* The facts of an element that is closed, with its place as numbers.
LEMMA ElementFacts ==
  ASSUME NEW d \in Seq(STRING), WholeTags(d), NEW i \in Nat, Shuts(d, i)
  PROVE  /\ i \in Brackets(d) /\ IsOpen(d, i) /\ CloseOf(d, i) \in Nat /\ i < CloseOf(d, i)
         /\ Shut(d, i) \in Nat /\ Shut(d, i) \in Brackets(d) /\ CloseOf(d, i) < Shut(d, i)
         /\ EndTag(d, Shut(d, i)) /\ TagName(d, Shut(d, i)) = TagName(d, i)
         /\ Depth(d, i, Shut(d, i)) = 0 /\ Depth(d, i, i) = 1 /\ Depth(d, i, CloseOf(d, i)) = 1
         /\ \A k \in Nat : i <= k /\ k < Shut(d, i) => Depth(d, i, k) > 0
         /\ \A k \in Nat : Within(d, i, k) <=> i < k /\ k < Shut(d, i)
<1>1. PICK s : s = Shut(d, i)
  OBVIOUS
<1>2. s \in Brackets(d) /\ Closing(d, i, s) /\ s \in Nat
  BY <1>1, ShutCloses, BracketPlaces
<1>3. i < s /\ EndTag(d, s) /\ TagName(d, s) = TagName(d, i) /\ Depth(d, i, s) = 0
  BY <1>2 DEF Closing
<1>4. ASSUME NEW k \in Nat, i <= k, k < s PROVE Depth(d, i, k) > 0
  <2>1. k \in i..(s - 1)
    BY <1>2, <1>4
  <2> QED  BY <1>2, <2>1 DEF Closing
<1>5. i \in Brackets(d) /\ IsOpen(d, i)
  BY <1>2, ClosingOpens
<1>6. PICK c \in Nat : c = CloseOf(d, i)
  BY <1>5, TagEnd
<1>7. i < c /\ c < s
  BY <1>2, <1>3, <1>5, <1>6, TagEnd, TagsApart
<1>8. \A k \in Brackets(d) : i <= k /\ k <= c => k = i
  <2> SUFFICES ASSUME NEW k \in Brackets(d), i <= k, k <= c PROVE k = i
    OBVIOUS
  <2>1. k \in Nat
    BY BracketPlaces
  <2>2. i < k => c < k
    BY <1>5, <1>6, TagsApart
  <2> QED  BY <2>1, <2>2
<1>9. Depth(d, i, i) = 1
  BY <1>5, <1>7, <1>8, DepthOne
<1>10. Depth(d, i, c) = 1
  BY <1>5, <1>7, <1>8, DepthOne
<1>11. ASSUME NEW k \in Nat PROVE Within(d, i, k) <=> i < k /\ k < s
  <2>1. ASSUME NEW j \in Brackets(d), Closing(d, i, j) PROVE j = s
    <3>1. j \in Nat
      BY BracketPlaces
    <3> QED  BY <1>2, <2>1, <3>1, ClosingOnce
  <2> QED  BY <1>2, <2>1 DEF Within
<1> QED  BY <1>1, <1>2, <1>3, <1>4, <1>5, <1>6, <1>7, <1>9, <1>10, <1>11

\* An element that starts within another ends within it.
LEMMA Nested ==
  ASSUME NEW d \in Seq(STRING), WholeTags(d), NEW i \in Nat, NEW h \in Nat, Shuts(d, i), Shuts(d, h),
         i < h, h < Shut(d, i)
  PROVE  Shut(d, h) <= Shut(d, i)
<1>1. PICK s \in Nat : s = Shut(d, i)
  BY ElementFacts
<1>2. PICK t \in Nat : t = Shut(d, h)
  BY ElementFacts
<1>3. Depth(d, i, s) = 0
  BY <1>1, ElementFacts
<1>4. h - 1 \in Nat /\ i <= h - 1 /\ h - 1 < s
  BY <1>1
<1>5. Depth(d, i, h - 1) > 0
  BY <1>1, <1>4, ElementFacts
<1>6. ASSUME s < t PROVE FALSE
  <2>1. Depth(d, h, s) > 0
    BY <1>1, <1>2, <1>6, ElementFacts
  <2>2. /\ Depth(d, i, s) = Depth(d, i, h - 1) + Depth(d, h, s)
        /\ Depth(d, i, h - 1) \in Int /\ Depth(d, h, s) \in Int
    <3>1. 0 < h /\ i <= h /\ h <= s + 1
      BY <1>1
    <3> QED  BY <3>1, DepthSplit
  <2> QED  BY <1>3, <1>5, <2>1, <2>2
<1> QED  BY <1>1, <1>2, <1>6

-----------------------------------------------------------------------------
(* Reading on within an element *)

\* Between the children of the element at i: right behind a tag, or before one.
Level(d, i, p) ==
  /\ p \in Nat /\ CloseOf(d, i) <= p /\ p < Shut(d, i) /\ Depth(d, i, p) = 1
  /\ \A b \in Brackets(d) : b <= p => CloseOf(d, b) <= p
  /\ (\E b \in Brackets(d) : CloseOf(d, b) = p) \/ d[p + 1] = "<"

\* k is the next character that counts.
FirstBehind(d, p, k) ==
  /\ k \in DOMAIN d /\ p < k /\ d[k] \notin White
  /\ \A h \in Nat : p < h /\ h < k => d[h] \in White

\* Nothing that counts comes before the next character that does.
LEMMA BlanksBetween ==
  ASSUME NEW d \in Seq(STRING), NEW p \in Nat, NEW k \in Nat, FirstBehind(d, p, k), NEW b \in Brackets(d), p < b
  PROVE  k <= b
<1>1. b \in Nat /\ d[b] = "<"
  BY BracketPlaces
<1>2. d[b] \notin White
  BY <1>1, WhiteAssumption
<1> QED  BY <1>1, <1>2 DEF FirstBehind

LEMMA BehindStart ==
  ASSUME NEW d \in Seq(STRING), NEW p \in Nat, NEW k \in Nat, FirstBehind(d, p, k), NEW h \in Starters(d), p < h
  PROVE  k <= h /\ h \in Nat
<1>1. h \in Nat /\ h \in DOMAIN d
  BY BracketPlaces DEF Starters
<1>2. d[h] \notin White
  BY WhiteAssumption DEF Starters, Brackets
<1> QED  BY <1>1, <1>2 DEF FirstBehind

\* Nothing starts within a tag.
LEMMA NothingInTag ==
  ASSUME NEW d \in Seq(STRING), WholeTags(d), NEW b \in Brackets(d), NEW k \in Starters(d), b < k
  PROVE  CloseOf(d, b) < k /\ k \in Nat
<1>1. PICK c \in Nat : c = CloseOf(d, b)
  BY TagEnd
<1>2. b + 2 <= c /\ d[c] = ">" /\ \A h \in Nat : b < h /\ h < c => d[h] # "<"
  BY <1>1, TagEnd
<1>3. k \in Nat /\ b \in Nat /\ d[b] = "<"
  BY BracketPlaces DEF Starters
<1>4. CASE k \in Brackets(d)
  BY <1>1, <1>4, <1>3, TagsApart
<1>5. CASE k \notin Brackets(d)
  <2>1. PICK g \in Brackets(d) :
          CloseOf(d, g) < k /\ \A h \in (CloseOf(d, g) + 1)..(k - 1) : d[h] \in White
    BY <1>5 DEF Starters
  <2>2. PICK e \in Nat : e = CloseOf(d, g)
    BY TagEnd
  <2>3. g \in Nat /\ g < e
    BY <2>2, TagEnd, BracketPlaces
  <2>4. ASSUME g < b PROVE FALSE
    <3>1. e < b
      BY <2>2, <2>4, TagsApart
    <3>2. b \in (e + 1)..(k - 1)
      BY <1>3, <3>1
    <3>3. d[b] \in White
      BY <2>1, <2>2, <3>2
    <3> QED  BY <1>3, <3>3, WhiteAssumption
  <2>5. b < g => c < g
    BY <1>1, TagsApart
  <2>6. g = b => e = c
    BY <1>1, <2>2
  <2> QED  BY <1>1, <1>3, <2>1, <2>2, <2>3, <2>4, <2>5, <2>6
<1> QED  BY <1>4, <1>5

\* What is left is above the element read in: no other is open where it goes on.
LEMMA OwnLevel ==
  ASSUME NEW d \in Seq(STRING), WholeTags(d), NEW i \in Nat, Shuts(d, i), NEW p \in Nat,
         i <= p, p < Shut(d, i), Depth(d, i, p) = 1, NEW h \in Brackets(d), Shuts(d, h), i < h, h <= p
  PROVE  Shut(d, h) <= p
<1>1. h \in Nat
  BY BracketPlaces
<1>2. PICK t \in Nat : t = Shut(d, h)
  BY <1>1, ElementFacts
<1>3. PICK s \in Nat : s = Shut(d, i)
  BY ElementFacts
<1>4. ASSUME p < t PROVE FALSE
  <2>1. Depth(d, h, p) > 0
    BY <1>1, <1>2, <1>4, ElementFacts
  <2>2. 0 < h /\ i <= h /\ h <= p + 1 /\ h - 1 \in Nat /\ i <= h - 1
    BY <1>1
  <2>3. /\ Depth(d, i, p) = Depth(d, i, h - 1) + Depth(d, h, p)
        /\ Depth(d, i, h - 1) \in Int /\ Depth(d, h, p) \in Int
    BY <1>1, <2>2, DepthSplit
  <2>4. Depth(d, i, h - 1) > 0
    <3>1. h - 1 < s
      BY <1>1, <1>3
    <3> QED  BY <1>3, <2>2, <3>1, ElementFacts
  <2> QED  BY <2>1, <2>3, <2>4
<1> QED  BY <1>2, <1>4

\* The next thing that starts is a child of the element, and the only one up to
\* the end of it.
LEMMA NextIsChild ==
  ASSUME NEW d \in Seq(STRING), WholeTags(d), NEW i \in Nat, Shuts(d, i),
         NEW p \in Nat, Level(d, i, p),
         NEW k \in Starters(d), FirstBehind(d, p, k), k < Shut(d, i)
  PROVE  k \in Children(d, i)
<1>1. k \in Nat /\ p < k
  BY DEF FirstBehind
<1>2. PICK s \in Nat : s = Shut(d, i)
  BY ElementFacts
<1>3. i < k
  <2>1. CloseOf(d, i) <= p /\ i < CloseOf(d, i) /\ CloseOf(d, i) \in Nat
    BY ElementFacts DEF Level
  <2> QED  BY <1>1, <2>1
<1>4. Within(d, i, k)
  BY <1>1, <1>3, ElementFacts
<1>5. ASSUME NEW h \in Brackets(d), IsOpen(d, h), Within(d, h, k) PROVE h <= i
  <2>1. h \in Nat
    BY BracketPlaces
  <2>2. Shuts(d, h)
    BY <1>5 DEF Within, Shuts
  <2>3. PICK t \in Nat : t = Shut(d, h)
    BY <2>1, <2>2, ElementFacts
  <2>4. h < k /\ k < t
    BY <1>1, <1>5, <2>1, <2>2, <2>3, ElementFacts
  <2>5. h <= p
    <3>1. p < h => k <= h
      BY <1>1, BlanksBetween
    <3> QED  BY <1>1, <2>1, <2>4, <3>1
  <2>6. i < h => t <= p
    <3>1. i <= p /\ p < Shut(d, i) /\ Depth(d, i, p) = 1
      <4>1. CloseOf(d, i) <= p /\ i < CloseOf(d, i) /\ CloseOf(d, i) \in Nat
        BY ElementFacts DEF Level
      <4>2. i <= p
        BY <4>1
      <4> QED  BY <4>2 DEF Level
    <3> QED  BY <2>2, <2>3, <2>5, <3>1, OwnLevel
  <2> QED  BY <1>1, <2>1, <2>4, <2>6
<1> QED  BY <1>4, <1>5 DEF Children

\* The children up to a place.
Upto(d, i, p) == {k \in Children(d, i) : k <= p}

\* The children up to a place, and up to a place behind it.
LEMMA OneChildMore ==
  ASSUME NEW d \in Seq(STRING), NEW i, NEW p \in Nat, NEW k \in Children(d, i), NEW q \in Nat, p < k, k <= q,
         \A h \in Starters(d) : p < h /\ h <= q => h = k
  PROVE  Upto(d, i, q) = Upto(d, i, p) \union {k}
<1>1. \A h \in Children(d, i) : h \in Starters(d) /\ h \in Nat
  BY BracketPlaces DEF Children, Starters
<1>2. \A h \in Children(d, i) : h <= q <=> h <= p \/ h = k
  BY <1>1
<1> QED  BY <1>2 DEF Upto

LEMMA NoChildMore ==
  ASSUME NEW d \in Seq(STRING), NEW i, NEW p \in Nat, NEW q \in Nat, p <= q,
         \A h \in Children(d, i) : ~(p < h /\ h <= q)
  PROVE  Upto(d, i, q) = Upto(d, i, p)
<1>1. \A h \in Children(d, i) : h \in Nat
  BY BracketPlaces DEF Children, Starters
<1>2. \A h \in Children(d, i) : h <= q <=> h <= p
  BY <1>1
<1> QED  BY <1>2 DEF Upto

\* The element at i and every one within it is closed.
Whole(d, i) == i \in Nat /\ Shuts(d, i) /\ \A h \in OpensIn(d, i, Shut(d, i)) : Shuts(d, h)

\* What holds of an element holds of those within it.
LEMMA WholeWithin ==
  ASSUME NEW d \in Seq(STRING), WholeTags(d), NEW i, Whole(d, i), NEW b \in Brackets(d), IsOpen(d, b),
         i < b, b < Shut(d, i)
  PROVE  Whole(d, b) /\ Shut(d, b) <= Shut(d, i)
<1>1. i \in Nat /\ b \in Nat
  BY BracketPlaces DEF Whole
<1>2. PICK s \in Nat : s = Shut(d, i)
  BY <1>1, ElementFacts DEF Whole
<1>3. i <= b /\ b <= s
  BY <1>1, <1>2
<1>4. Shuts(d, b)
  BY <1>2, <1>3 DEF Whole, OpensIn
<1>5. PICK t \in Nat : t = Shut(d, b)
  BY <1>1, <1>4, ElementFacts
<1>6. t <= s
  BY <1>1, <1>2, <1>4, <1>5, Nested DEF Whole
<1>7. OpensIn(d, b, t) \subseteq OpensIn(d, i, s)
  <2> SUFFICES ASSUME NEW h \in OpensIn(d, b, t) PROVE h \in OpensIn(d, i, s)
    OBVIOUS
  <2>1. h \in Brackets(d) /\ b <= h /\ h <= t /\ IsOpen(d, h)
    BY DEF OpensIn
  <2>2. i <= h /\ h <= s
    BY <1>1, <1>3, <1>6, <2>1, BracketPlaces
  <2> QED  BY <2>1, <2>2 DEF OpensIn
<1> QED  BY <1>1, <1>2, <1>4, <1>5, <1>6, <1>7 DEF Whole

LEMMA RootWhole ==
  ASSUME NEW d \in Seq(STRING), NEW r \in Nat, WellFormedFrom(d, r)
  PROVE  WholeTags(d) /\ Whole(d, r) /\ r \in Brackets(d)
<1>1. PICK j \in Brackets(d) : Closing(d, r, j) /\ \A i \in OpensIn(d, r, j) : Shuts(d, i)
  BY DEF WellFormedFrom
<1>2. WholeTags(d) /\ Shuts(d, r)
  BY <1>1 DEF WellFormedFrom, Shuts
<1>3. j = Shut(d, r)
  BY <1>1, <1>2, ShutCloses, ClosingOnce, BracketPlaces
<1>4. r \in Brackets(d)
  BY <1>2, ElementFacts
<1> QED  BY <1>1, <1>2, <1>3, <1>4 DEF Whole

\* Up to where a tag ends no other begins.
LEMMA TagsBefore ==
  ASSUME NEW d \in Seq(STRING), WholeTags(d), NEW b \in Brackets(d), NEW h \in Brackets(d), h <= CloseOf(d, b)
  PROVE  h <= b /\ CloseOf(d, h) <= CloseOf(d, b)
<1>1. b \in Nat /\ h \in Nat /\ CloseOf(d, b) \in Nat /\ CloseOf(d, h) \in Nat /\ b < CloseOf(d, b)
  BY BracketPlaces, TagEnd
<1>2. ~(b < h)
  BY <1>1, TagsApart
<1>3. h < b => CloseOf(d, h) < b
  BY TagsApart
<1>4. h = b => CloseOf(d, h) = CloseOf(d, b)
  OBVIOUS
<1>5. h = b \/ h < b
  BY <1>1, <1>2
<1> QED  BY <1>1, <1>3, <1>4, <1>5

\* Reading starts behind the opening tag.
LEMMA LevelFirst ==
  ASSUME NEW d \in Seq(STRING), WholeTags(d), NEW i, Whole(d, i)
  PROVE  Level(d, i, CloseOf(d, i)) /\ Upto(d, i, CloseOf(d, i)) = {}
<1>1. i \in Nat /\ Shuts(d, i)
  BY DEF Whole
<1>2. PICK c \in Nat : c = CloseOf(d, i)
  BY <1>1, ElementFacts
<1>3. i \in Brackets(d) /\ c < Shut(d, i) /\ Depth(d, i, c) = 1
  BY <1>1, <1>2, ElementFacts
<1>4. \A b \in Brackets(d) : b <= c => CloseOf(d, b) <= c
  BY <1>2, <1>3, TagsBefore
<1>5. Level(d, i, c)
  BY <1>2, <1>3, <1>4 DEF Level
<1>6. ASSUME NEW k \in Children(d, i), k <= c PROVE FALSE
  <2>1. k \in Starters(d) /\ k \in Nat /\ Within(d, i, k)
    BY BracketPlaces DEF Children, Starters
  <2>2. i < k
    BY <1>1, <2>1, ElementFacts
  <2>3. c < k
    BY <1>2, <1>3, <2>1, <2>2, NothingInTag
  <2> QED  BY <1>2, <1>6, <2>1, <2>3
<1> QED  BY <1>2, <1>5, <1>6 DEF Upto

\* A closing tag that is read next closes the element, all children are read.
LEMMA EndRead ==
  ASSUME NEW d \in Seq(STRING), WholeTags(d), NEW i, Whole(d, i), NEW p, Level(d, i, p),
         NEW b \in Brackets(d), FirstBehind(d, p, b), EndTag(d, b)
  PROVE  b = Shut(d, i) /\ Upto(d, i, p) = Children(d, i)
<1>1. i \in Nat /\ Shuts(d, i) /\ p \in Nat
  BY DEF Whole, Level
<1>2. PICK s \in Nat : s = Shut(d, i)
  BY <1>1, ElementFacts
<1>3. PICK c \in Nat : c = CloseOf(d, i)
  BY <1>1, ElementFacts
<1>4. s \in Brackets(d) /\ i < c /\ c <= p /\ p < s /\ Depth(d, i, p) = 1
  BY <1>1, <1>2, <1>3, ElementFacts DEF Level
<1>5. b \in Nat /\ p < b
  BY BracketPlaces DEF FirstBehind
<1>6. b <= s
  BY <1>1, <1>4, <1>5, BlanksBetween
<1>7. Depth(d, p + 1, b) = -1
  <2>1. \A k \in Brackets(d) : p + 1 <= k /\ k <= b => k = b
    <3> SUFFICES ASSUME NEW k \in Brackets(d), p + 1 <= k, k <= b PROVE k = b
      OBVIOUS
    <3>1. k \in Nat
      BY BracketPlaces
    <3>2. b <= k
      BY <1>1, <1>5, <3>1, BlanksBetween
    <3> QED  BY <1>5, <3>1, <3>2
  <2>2. p + 1 \in Nat /\ p + 1 <= b /\ b <= b
    BY <1>1, <1>5
  <2> QED  BY <1>5, <2>1, <2>2, DepthOne
<1>8. Depth(d, i, b) = 0
  <2>1. p + 1 \in Nat /\ 0 < p + 1 /\ i <= p + 1 /\ p + 1 <= b + 1 /\ (p + 1) - 1 = p
    BY <1>1, <1>4, <1>5
  <2>2. Depth(d, i, b) = Depth(d, i, p) + Depth(d, p + 1, b)
    BY <1>1, <1>5, <2>1, DepthSplit
  <2> QED  BY <1>4, <1>7, <2>2
<1>9. b = s
  <2>1. ~(b < s)
    <3>1. i <= b
      BY <1>1, <1>4, <1>5
    <3>2. b < s => Depth(d, i, b) > 0
      BY <1>1, <1>2, <1>5, <3>1, ElementFacts
    <3> QED  BY <1>8, <3>2
  <2> QED  BY <1>5, <1>6, <2>1
<1>10. ASSUME NEW k \in Children(d, i) PROVE k <= p
  <2>1. k \in Starters(d) /\ k \in Nat /\ Within(d, i, k)
    BY BracketPlaces DEF Children, Starters
  <2>2. k < b
    BY <1>1, <1>2, <1>9, <2>1, ElementFacts
  <2>3. p < k => b <= k
    BY <1>1, <1>5, <2>1, BehindStart
  <2> QED  BY <1>1, <1>5, <2>1, <2>2, <2>3
<1> QED  BY <1>2, <1>9, <1>10 DEF Upto

\* The facts of a place within an element, as numbers.
LEMMA LevelFacts ==
  ASSUME NEW d \in Seq(STRING), WholeTags(d), NEW i, Whole(d, i), NEW p, Level(d, i, p)
  PROVE  /\ i \in Nat /\ Shuts(d, i) /\ p \in Nat /\ i < p /\ p < Shut(d, i) /\ Depth(d, i, p) = 1
         /\ Shut(d, i) \in Nat /\ Shut(d, i) \in Brackets(d) /\ CloseOf(d, i) <= p /\ CloseOf(d, i) \in Nat
<1>1. i \in Nat /\ Shuts(d, i) /\ p \in Nat
  BY DEF Whole, Level
<1>2. PICK c \in Nat : c = CloseOf(d, i)
  BY <1>1, ElementFacts
<1>3. i < c /\ c <= p
  BY <1>1, <1>2, ElementFacts DEF Level
<1>4. i < p
  BY <1>1, <1>2, <1>3
<1> QED  BY <1>1, <1>2, <1>3, <1>4, ElementFacts DEF Level

\* A tag that opens or stands alone is read next: it is a child, ...
LEMMA TagChild ==
  ASSUME NEW d \in Seq(STRING), WholeTags(d), NEW i, Whole(d, i), NEW p, Level(d, i, p),
         NEW b \in Brackets(d), FirstBehind(d, p, b), ~EndTag(d, b)
  PROVE  /\ p < b /\ i < b /\ b < Shut(d, i) /\ Depth(d, i, b - 1) = 1 /\ b \in Children(d, i)
         /\ Upto(d, i, CloseOf(d, b)) = Upto(d, i, p) \union {b}
<1>1. i \in Nat /\ Shuts(d, i) /\ p \in Nat /\ i < p /\ p < Shut(d, i) /\ Depth(d, i, p) = 1
      /\ CloseOf(d, i) <= p
  BY LevelFacts
<1>2. PICK s \in Nat : s = Shut(d, i)
  BY <1>1, ElementFacts
<1>3. s \in Brackets(d) /\ EndTag(d, s)
  BY <1>1, <1>2, ElementFacts
<1>4. b \in Nat /\ p < b
  BY BracketPlaces DEF FirstBehind
<1>5. b < s
  <2>1. b <= s
    BY <1>1, <1>2, <1>3, BlanksBetween
  <2> QED  BY <1>3, <1>4, <2>1
<1>6. i < b /\ b - 1 \in Nat /\ p + 1 \in Nat /\ 0 < p + 1 /\ i <= p + 1 /\ p + 1 <= (b - 1) + 1 /\ (p + 1) - 1 = p
  BY <1>1, <1>4
<1>7. Depth(d, i, b - 1) = 1
  <2>1. \A k \in Brackets(d) : ~(p + 1 <= k /\ k <= b - 1)
    <3> SUFFICES ASSUME NEW k \in Brackets(d), p + 1 <= k, k <= b - 1 PROVE FALSE
      OBVIOUS
    <3>1. k \in Nat
      BY BracketPlaces
    <3>2. b <= k
      BY <1>1, <1>4, <3>1, BlanksBetween
    <3> QED  BY <1>4, <3>1, <3>2
  <2>2. Depth(d, p + 1, b - 1) = 0
    BY <2>1, DepthEmpty
  <2>3. Depth(d, i, b - 1) = Depth(d, i, p) + Depth(d, p + 1, b - 1)
    BY <1>1, <1>6, DepthSplit
  <2> QED  BY <1>1, <2>2, <2>3
<1>8. b \in Starters(d)
  BY DEF Starters
<1>9. b \in Children(d, i)
  BY <1>1, <1>2, <1>4, <1>5, <1>8, NextIsChild
<1>10. PICK c \in Nat : c = CloseOf(d, b) /\ b < c
  BY <1>4, TagEnd
<1>11. \A h \in Starters(d) : p < h /\ h <= c => h = b
  <2> SUFFICES ASSUME NEW h \in Starters(d), p < h, h <= c PROVE h = b
    OBVIOUS
  <2>1. b <= h /\ h \in Nat
    BY <1>1, <1>4, BehindStart
  <2>2. b < h => c < h
    BY <1>10, NothingInTag
  <2> QED  BY <1>4, <1>10, <2>1, <2>2
<1>12. Upto(d, i, c) = Upto(d, i, p) \union {b}
  <2>1. b <= c
    BY <1>4, <1>10
  <2>2. p \in Nat /\ p < b /\ b \in Children(d, i)
    BY <1>1, <1>4, <1>9
  <2> QED  BY ONLY d \in Seq(STRING), <2>1, <2>2, <1>11, c \in Nat, OneChildMore
<1> QED  BY <1>2, <1>4, <1>5, <1>6, <1>7, <1>9, <1>10, <1>12

\* ... and when it stands alone reading goes on behind it.
LEMMA LoneChild ==
  ASSUME NEW d \in Seq(STRING), WholeTags(d), NEW i, Whole(d, i), NEW p, Level(d, i, p),
         NEW b \in Brackets(d), FirstBehind(d, p, b), ~EndTag(d, b), EmptyTag(d, b)
  PROVE  Level(d, i, CloseOf(d, b)) /\ Children(d, b) = {}
<1>1. i \in Nat /\ Shuts(d, i) /\ p \in Nat /\ i < p /\ p < Shut(d, i) /\ Depth(d, i, p) = 1
      /\ CloseOf(d, i) <= p /\ CloseOf(d, i) \in Nat
  BY LevelFacts
<1>2. p < b /\ i < b /\ b < Shut(d, i) /\ Depth(d, i, b - 1) = 1
  BY TagChild
<1>3. PICK c \in Nat : c = CloseOf(d, b) /\ b < c
  BY BracketPlaces, TagEnd
<1>4. b \in Nat /\ b > 0
  BY BracketPlaces
<1>5. c < Shut(d, i)
  BY <1>1, <1>2, <1>3, ElementFacts, TagsApart
<1>6. Depth(d, b, c) = 0
  <2>1. \A k \in Brackets(d) : b <= k /\ k <= c => k = b
    <3> SUFFICES ASSUME NEW k \in Brackets(d), b <= k, k <= c PROVE k = b
      OBVIOUS
    <3>1. k \in Nat /\ k <= b
      BY <1>3, BracketPlaces, TagsBefore
    <3> QED  BY <1>4, <3>1
  <2>2. ~IsOpen(d, b)
    BY DEF IsOpen
  <2>3. b <= b /\ b <= c
    BY <1>3, <1>4
  <2> QED  BY <1>4, <2>1, <2>2, <2>3, DepthOne
<1>7. Depth(d, i, c) = 1
  <2>1. 0 < b /\ i <= b /\ b <= c + 1
    BY <1>1, <1>2, <1>3, <1>4
  <2>2. Depth(d, i, c) = Depth(d, i, b - 1) + Depth(d, b, c)
    BY <1>1, <1>4, <2>1, DepthSplit
  <2> QED  BY <1>2, <1>6, <2>2
<1>8. CloseOf(d, i) <= c
  BY <1>1, <1>2, <1>3, <1>4
<1>9. \A h \in Brackets(d) : h <= c => CloseOf(d, h) <= c
  BY <1>3, TagsBefore
<1>10. Level(d, i, c)
  BY <1>3, <1>5, <1>7, <1>8, <1>9 DEF Level
<1>11. Children(d, b) = {}
  <2>1. ASSUME NEW k \in Children(d, b) PROVE FALSE
    <3>1. PICK j \in Brackets(d) : Closing(d, b, j)
      BY DEF Children, Within
    <3>2. IsOpen(d, b)
      BY <1>4, <3>1, BracketPlaces, ClosingOpens
    <3> QED  BY <3>2 DEF IsOpen
  <2> QED  BY <2>1
<1> QED  BY <1>3, <1>10, <1>11

\* A literal is read next, to the bracket that ends it.
LEMMA TextChild ==
  ASSUME NEW d \in Seq(STRING), WholeTags(d), NEW i, Whole(d, i), NEW p, Level(d, i, p),
         NEW k \in Nat, FirstBehind(d, p, k), d[k] # "<",
         NEW j \in Nat, k < j, d[j] = "<", \A h \in Nat : k < h /\ h < j => d[h] # "<"
  PROVE  /\ p < k /\ Level(d, i, j - 1) /\ Upto(d, i, j - 1) = Upto(d, i, p) \union {k}
<1>1. i \in Nat /\ Shuts(d, i) /\ p \in Nat /\ i < p /\ p < Shut(d, i) /\ Depth(d, i, p) = 1
      /\ CloseOf(d, i) <= p /\ CloseOf(d, i) \in Nat
  BY LevelFacts
<1>2. PICK s \in Nat : s = Shut(d, i)
  BY <1>1, ElementFacts
<1>3. s \in Brackets(d) /\ s \in Nat
  BY <1>1, <1>2, ElementFacts
<1>4. k \in DOMAIN d /\ p < k /\ \A h \in Nat : p < h /\ h < k => d[h] \in White
  BY DEF FirstBehind
<1>5. \A b \in Brackets(d) : p < b => j <= b
  <2> SUFFICES ASSUME NEW b \in Brackets(d), p < b PROVE j <= b
    OBVIOUS
  <2>1. b \in Nat /\ d[b] = "<" /\ k <= b
    BY <1>1, BracketPlaces, BlanksBetween
  <2>2. b # k
    BY <2>1
  <2>3. ~(b < j)
    BY <2>1, <2>2
  <2> QED  BY <2>1, <2>3
<1>6. j <= s /\ k < s
  <2>1. j <= s
    BY <1>1, <1>2, <1>3, <1>5
  <2> QED  BY <1>3, <2>1
<1>7. PICK g \in Brackets(d) : CloseOf(d, g) = p
  <2>1. d[p + 1] # "<"
    <3>1. CASE p + 1 = k
      BY <3>1
    <3>2. CASE p + 1 # k
      <4>1. p + 1 \in Nat /\ p < p + 1 /\ p + 1 < k
        BY <1>1, <1>4, <3>2
      <4> QED  BY <1>4, <4>1, WhiteAssumption
    <3> QED  BY <3>1, <3>2
  <2> QED  BY <2>1 DEF Level
<1>8. k \in Starters(d)
  <2>1. \A h \in (p + 1)..(k - 1) : d[h] \in White
    BY <1>1, <1>4
  <2>2. d[k] \notin White \union {"<"}
    BY DEF FirstBehind
  <2> QED  BY <1>4, <1>7, <2>1, <2>2 DEF Starters
<1>9. k \in Children(d, i)
  BY <1>1, <1>2, <1>6, <1>8, NextIsChild
<1>10. \A b \in Brackets(d) : b <= j - 1 => b <= p
  <2> SUFFICES ASSUME NEW b \in Brackets(d), b <= j - 1 PROVE b <= p
    OBVIOUS
  <2>1. b \in Nat
    BY BracketPlaces
  <2> QED  BY <1>1, <1>5, <2>1
<1>11. \A h \in Starters(d) : p < h /\ h <= j - 1 => h = k
  <2> SUFFICES ASSUME NEW h \in Starters(d), p < h, h <= j - 1, h # k PROVE FALSE
    OBVIOUS
  <2>1. h \in Nat /\ k < h
    BY <1>1, BehindStart
  <2>2. h \notin Brackets(d)
    BY <1>1, <1>10, <2>1
  <2>3. PICK b \in Brackets(d) : CloseOf(d, b) < h /\ \A x \in (CloseOf(d, b) + 1)..(h - 1) : d[x] \in White
    BY <2>2 DEF Starters
  <2>4. PICK e \in Nat : e = CloseOf(d, b) /\ b < e /\ b \in Nat
    BY BracketPlaces, TagEnd
  <2>5. b <= p
    BY <1>10, <2>1, <2>3, <2>4
  <2>6. e <= p
    BY <2>4, <2>5 DEF Level
  <2>7. k \in (e + 1)..(h - 1)
    <3>1. p \in Nat /\ p < k
      BY <1>1, <1>4, Zenon
    <3>2. e \in Nat /\ k \in Nat /\ h \in Nat /\ e <= p /\ k < h
      BY <2>1, <2>4, <2>6, Zenon
    <3> QED  BY <3>1, <3>2
  <2> QED  BY <2>3, <2>4, <2>7 DEF FirstBehind
<1>12. j - 1 \in Nat /\ p <= j - 1 /\ k <= j - 1
  BY <1>1, <1>4
<1>13. Upto(d, i, j - 1) = Upto(d, i, p) \union {k}
  <2>1. PICK q \in Nat : q = j - 1
    BY <1>12
  <2>2. Upto(d, i, q) = Upto(d, i, p) \union {k}
    <3>1. \A h \in Starters(d) : p < h /\ h <= q => h = k
      BY <1>11, <2>1
    <3>2. k <= q
      BY <1>12, <2>1
    <3> QED  BY <1>1, <1>4, <1>9, <3>1, <3>2, OneChildMore
  <2> QED  BY <2>1, <2>2
<1>14. Depth(d, i, j - 1) = 1
  <2>1. \A b \in Brackets(d) : ~(p + 1 <= b /\ b <= j - 1)
    <3> SUFFICES ASSUME NEW b \in Brackets(d), p + 1 <= b, b <= j - 1 PROVE FALSE
      OBVIOUS
    <3>1. b \in Nat /\ b <= p
      BY <1>10, BracketPlaces
    <3> QED  BY <1>1, <3>1
  <2>2. Depth(d, p + 1, j - 1) = 0
    BY <2>1, DepthEmpty
  <2>3. p + 1 \in Nat /\ 0 < p + 1 /\ i <= p + 1 /\ p + 1 <= (j - 1) + 1 /\ (p + 1) - 1 = p
    BY <1>1, <1>12
  <2>4. Depth(d, i, j - 1) = Depth(d, i, p) + Depth(d, p + 1, j - 1)
    BY <1>1, <1>12, <2>3, DepthSplit
  <2> QED  BY <1>1, <2>2, <2>4
<1>15. \A b \in Brackets(d) : b <= j - 1 => CloseOf(d, b) <= j - 1
  <2> SUFFICES ASSUME NEW b \in Brackets(d), b <= j - 1 PROVE CloseOf(d, b) <= j - 1
    OBVIOUS
  <2>1. PICK e \in Nat : e = CloseOf(d, b)
    BY TagEnd
  <2>2. e <= p
    BY <1>10, <2>1 DEF Level
  <2> QED  BY <1>1, <1>12, <2>1, <2>2
<1>16. CloseOf(d, i) <= j - 1 /\ j - 1 < s /\ (j - 1) + 1 = j
  BY <1>1, <1>6, <1>12
<1>17. Level(d, i, j - 1)
  BY <1>2, <1>12, <1>14, <1>15, <1>16 DEF Level
<1> QED  BY <1>4, <1>13, <1>17

\* Behind a child that has content reading goes on.
LEMMA ResumeLevel ==
  ASSUME NEW d \in Seq(STRING), WholeTags(d), NEW i, Whole(d, i), NEW b \in Brackets(d), IsOpen(d, b),
         i < b, b < Shut(d, i), Depth(d, i, b - 1) = 1
  PROVE  /\ Level(d, i, CloseOf(d, Shut(d, b)))
         /\ Upto(d, i, CloseOf(d, Shut(d, b))) = Upto(d, i, CloseOf(d, b))
<1>1. i \in Nat /\ Shuts(d, i) /\ b \in Nat /\ b > 0
  BY BracketPlaces DEF Whole
<1>2. PICK s \in Nat : s = Shut(d, i)
  BY <1>1, ElementFacts
<1>3. s \in Brackets(d) /\ Depth(d, i, s) = 0
  BY <1>1, <1>2, ElementFacts
<1>4. Shuts(d, b) /\ Shut(d, b) <= s
  BY <1>2, WholeWithin DEF Whole
<1>5. PICK t \in Nat : t = Shut(d, b)
  BY <1>1, <1>4, ElementFacts
<1>6. t \in Brackets(d) /\ Depth(d, b, t) = 0 /\ b < t /\ CloseOf(d, b) < t /\ EndTag(d, t)
  <2>1. PICK c \in Nat : c = CloseOf(d, b)
    BY <1>1, <1>4, ElementFacts
  <2>2. b < c /\ c < t
    BY <1>1, <1>4, <1>5, <2>1, ElementFacts
  <2> QED  BY <1>1, <1>4, <1>5, <2>1, <2>2, ElementFacts
<1>7. Depth(d, i, t) = 1
  <2>1. 0 < b /\ i <= b /\ b <= t + 1
    BY <1>1, <1>6
  <2>2. Depth(d, i, t) = Depth(d, i, b - 1) + Depth(d, b, t)
    BY <1>1, <2>1, DepthSplit
  <2> QED  BY <1>6, <2>2
<1>8. t < s
  <2>1. t # s
    BY <1>3, <1>7
  <2> QED  BY <1>4, <1>5, <2>1
<1>9. PICK u \in Nat : u = CloseOf(d, t) /\ t < u
  BY <1>6, TagEnd
<1>10. u < s
  BY <1>3, <1>6, <1>8, <1>9, TagsApart
<1>11. \A k \in Brackets(d) : k <= u => k <= t /\ CloseOf(d, k) <= u
  BY <1>6, <1>9, TagsBefore
<1>12. Depth(d, i, u) = 1
  <2>1. \A k \in Brackets(d) : ~(t + 1 <= k /\ k <= u)
    <3> SUFFICES ASSUME NEW k \in Brackets(d), t + 1 <= k, k <= u PROVE FALSE
      OBVIOUS
    <3>1. k \in Nat /\ k <= t
      BY <1>11, BracketPlaces
    <3> QED  BY <3>1
  <2>2. Depth(d, t + 1, u) = 0
    BY <2>1, DepthEmpty
  <2>3. t + 1 \in Nat /\ 0 < t + 1 /\ i <= t + 1 /\ t + 1 <= u + 1 /\ (t + 1) - 1 = t
    BY <1>1, <1>6, <1>9
  <2>4. Depth(d, i, u) = Depth(d, i, t) + Depth(d, t + 1, u)
    BY <1>1, <2>3, DepthSplit
  <2> QED  BY <1>7, <2>2, <2>4
<1>13. CloseOf(d, i) <= u
  <2>1. PICK c \in Nat : c = CloseOf(d, i) /\ c < b
    BY <1>1, ElementFacts, TagsApart
  <2> QED  BY <1>1, <1>6, <1>9, <2>1
<1>14. Level(d, i, u)
  BY <1>2, <1>6, <1>9, <1>10, <1>11, <1>12, <1>13 DEF Level
<1>15. PICK c \in Nat : c = CloseOf(d, b) /\ c < t
  BY <1>1, <1>4, <1>6, ElementFacts
<1>16. ASSUME NEW h \in Children(d, i), c < h, h <= u PROVE FALSE
  <2>1. h \in Starters(d) /\ h \in Nat /\ \A g \in Brackets(d) : IsOpen(d, g) /\ Within(d, g, h) => g <= i
    BY BracketPlaces DEF Children, Starters
  <2>2. ~(t < h)
    <3>1. t < h => u < h
      BY <1>6, <1>9, <2>1, NothingInTag
    <3> QED  BY <1>9, <1>16, <2>1, <3>1
  <2>3. h # t
    BY <1>6, <2>1, BracketPlaces DEF Starters, Brackets
  <2>4. h < t /\ b < h
    <3>1. b < c
      BY <1>1, <1>4, <1>15, ElementFacts
    <3> QED  BY <1>1, <1>15, <1>16, <2>1, <2>2, <2>3, <3>1
  <2>5. Within(d, b, h)
    BY <1>1, <1>4, <1>5, <2>1, <2>4, ElementFacts
  <2>6. b <= i
    BY <2>1, <2>5
  <2> QED  BY <1>1, <2>6
<1>17. Upto(d, i, u) = Upto(d, i, c)
  <2>1. c <= u
    BY <1>9, <1>15
  <2> QED  BY <1>16, <2>1, NoChildMore
<1> QED  BY <1>5, <1>9, <1>14, <1>15, <1>17

\* A tag with a name, all of which fits, is one that parseTag takes.
LEMMA TagsTaken ==
  ASSUME doc \in Seq(STRING), WholeTags(doc), Fits(doc), NEW b \in Brackets(doc)
  PROVE  Parsed(b, CloseOf(doc, b))
<1>1. b \in Nat /\ Len(doc) \in Nat
  BY BracketPlaces
<1>2. PICK j \in (b + 2)..Len(doc) :
        /\ doc[j] = ">" /\ \A k \in (b + 1)..(j - 1) : doc[k] \notin {"<", ">"}
        /\ \E k \in Inner(doc, b, j) : doc[k] \notin White
  BY DEF WholeTags
<1>3. j \in Nat /\ b < j /\ j # b + 1
  BY <1>1, <1>2
<1>4. \A k \in Nat : b < k /\ k < j => doc[k] # ">"
  BY <1>1, <1>2, <1>3
<1>5. j = CloseOf(doc, b)
  BY <1>2, <1>3, <1>4, FirstEnd
<1>6. \A k \in Inner(doc, b, j) : doc[k] \notin Oversized \union Unended
  BY <1>5 DEF Fits
<1>7. ~Refused(b, j)
  BY <1>3, <1>6 DEF Refused
<1>8. ~Throws(b, j)
  BY <1>2, <1>6 DEF Throws
<1> QED  BY <1>5, <1>7, <1>8 DEF Parsed

\* Within an element that is closed the reader never comes to an end.
LEMMA SomethingNext ==
  ASSUME doc \in Seq(STRING), WholeTags(doc), NEW i, Whole(doc, i), NEW p, Level(doc, i, p)
  PROVE  \E k, j \in DOMAIN doc :
           \/ IsText(p, k, j)
           \/ IsTag(p, k, j) /\ k \in Brackets(doc) /\ j = CloseOf(doc, k)
<1>1. PICK s \in Nat : s = Shut(doc, i) /\ s \in Brackets(doc) /\ p < s /\ p \in Nat
  BY LevelFacts
<1>2. s \in DOMAIN doc /\ doc[s] = "<" /\ DOMAIN doc \subseteq Nat
  BY <1>1, BracketPlaces
<1> DEFINE T == {k \in DOMAIN doc : p < k /\ doc[k] \notin White}
<1>3. PICK k \in T : \A h \in T : k <= h
  <2>1. s \in T
    BY <1>1, <1>2, WhiteAssumption
  <2>2. T \subseteq Nat
    BY <1>2
  <2> HIDE DEF T
  <2> QED  BY <2>1, <2>2, Smallest
<1>4. k \in DOMAIN doc /\ k \in Nat /\ p < k /\ k <= s
  BY <1>1, <1>2, <1>3, WhiteAssumption
<1>5. Starts(p, k)
  <2>1. \A h \in DOMAIN doc : p < h /\ h < k => doc[h] \in White
    BY <1>2, <1>3
  <2> QED  BY <1>3, <1>4, <2>1 DEF Starts
<1>6. CASE doc[k] = "<"
  <2>1. k \in Brackets(doc)
    BY <1>4, <1>6 DEF Brackets
  <2>2. PICK c \in Nat : c = CloseOf(doc, k) /\ c \in DOMAIN doc /\ k + 2 <= c /\ doc[c] = ">"
                         /\ \A h \in Nat : k < h /\ h < c => doc[h] \notin {"<", ">"}
    BY <2>1, TagEnd
  <2>3. k < c
    BY <1>4, <2>2
  <2>4. IsTag(p, k, c)
    BY <1>2, <1>5, <1>6, <2>2, <2>3 DEF IsTag, Reaches
  <2> QED  BY <1>4, <2>1, <2>2, <2>4
<1>7. CASE doc[k] # "<"
  <2> DEFINE U == {j \in DOMAIN doc : k < j /\ doc[j] = "<"}
  <2>1. s \in U
    BY <1>1, <1>2, <1>4, <1>7
  <2>2. PICK j \in U : \A h \in U : j <= h
    <3>1. U \subseteq Nat
      BY <1>2
    <3> HIDE DEF U
    <3> QED  BY <2>1, <3>1, Smallest
  <2>3. \A h \in DOMAIN doc : k < h /\ h < j => doc[h] # "<"
    BY <1>2, <2>2
  <2>4. IsText(p, k, j)
    BY <1>5, <1>7, <2>2, <2>3 DEF IsText, Reaches
  <2> QED  BY <1>4, <2>2, <2>4
<1> QED  BY <1>6, <1>7

(* What the reader gives the tree *)

\* What the call of getTag returned, as the document sees it.
TagRead(d, p, r) ==
  /\ r.open \in Brackets(d) /\ FirstBehind(d, p, r.open)
  /\ r.close = CloseOf(d, r.open) /\ r.next = r.close

TextRead(d, p, r) ==
  /\ FirstBehind(d, p, r.open) /\ d[r.open] # "<" /\ r.close \in Nat /\ r.open < r.close /\ d[r.close] = "<"
  /\ \A h \in Nat : r.open < h /\ h < r.close => d[h] # "<"
  /\ r.next = r.close - 1

\* What the reader answers is what the document has there.
LEMMA ReadFacts ==
  ASSUME doc \in Seq(STRING), WholeTags(doc), Fits(doc), doc' = doc, Answered',
         NEW r \in Calls, r = last',
         r.kind # "none" => r.open \in DOMAIN doc /\ r.close \in DOMAIN doc
  PROVE  /\ r.kind = "tag" => TagRead(doc, r.asked, r)
         /\ r.kind = "text" => TextRead(doc, r.asked, r)
         /\ r.kind # "throw"
<1>1. r.asked \in Nat /\ r.open \in Nat /\ r.close \in Nat /\ DOMAIN doc = 1..Len(doc) /\ Len(doc) \in Nat
  BY DEF Calls
<1>2. ASSUME NEW k \in DOMAIN doc, Starts(r.asked, k)'
      PROVE  FirstBehind(doc, r.asked, k)
  <2>1. /\ k > r.asked /\ doc[k] \notin White
        /\ \A h \in DOMAIN doc : r.asked < h /\ h < k => doc[h] \in White
    BY <1>2 DEF Starts
  <2>2. \A h \in Nat : r.asked < h /\ h < k => h \in DOMAIN doc
    BY <1>1
  <2> QED  BY <2>1, <2>2 DEF FirstBehind
<1>3. ASSUME NEW a \in DOMAIN doc, NEW b \in DOMAIN doc, NEW stop, Reaches(a, b, stop)'
      PROVE  a < b /\ doc[b] \in stop /\ \A h \in Nat : a < h /\ h < b => doc[h] \notin stop
  <2>1. /\ a < b /\ doc[b] \in stop
        /\ \A h \in DOMAIN doc : a < h /\ h < b => doc[h] \notin stop
    BY <1>3 DEF Reaches
  <2>2. \A h \in Nat : a < h /\ h < b => h \in DOMAIN doc
    BY <1>1
  <2> QED  BY <2>1, <2>2
<1>4. ASSUME r.kind \in {"tag", "throw"}
      PROVE  TagRead(doc, r.asked, r)
  <2>1. PICK a \in DOMAIN doc, b \in DOMAIN doc : a = r.open /\ b = r.close
    BY <1>4
  <2>2. IsTag(r.asked, a, b)' /\ r.next = b
    BY <1>4, <2>1 DEF Answered
  <2>3. Starts(r.asked, a)' /\ doc[a] = "<" /\ Reaches(a, b, {"<", ">"})' /\ doc[b] = ">"
    BY <2>2 DEF IsTag
  <2>4. a \in Brackets(doc)
    BY <2>3 DEF Brackets
  <2>5. a < b /\ \A h \in Nat : a < h /\ h < b => doc[h] # ">"
    BY <1>3, <2>3
  <2>6. b = CloseOf(doc, a)
    <3>1. b \in Nat
      BY <1>1
    <3> QED  BY <2>3, <2>4, <2>5, <3>1, FirstEnd
  <2> QED  BY <1>2, <2>1, <2>2, <2>3, <2>4, <2>6 DEF TagRead
<1>5. ASSUME r.kind = "text" PROVE TextRead(doc, r.asked, r)
  <2>1. PICK a \in DOMAIN doc, b \in DOMAIN doc : a = r.open /\ b = r.close
    BY <1>5
  <2>2. IsText(r.asked, a, b)' /\ r.next = b - 1
    BY <1>5, <2>1 DEF Answered
  <2>3. Starts(r.asked, a)' /\ doc[a] # "<" /\ Reaches(a, b, {"<"})'
    BY <2>2 DEF IsText
  <2>4. a < b /\ doc[b] = "<" /\ \A h \in Nat : a < h /\ h < b => doc[h] # "<"
    BY <1>3, <2>3
  <2> QED  BY <1>1, <1>2, <2>1, <2>2, <2>3, <2>4 DEF TextRead
<1>6. r.kind # "throw"
  <2> SUFFICES ASSUME r.kind = "throw" PROVE FALSE
    OBVIOUS
  <2>1. PICK a, b : a = r.open /\ b = r.close
    OBVIOUS
  <2>2. Throws(a, b)' /\ Throws(a, b)' = Throws(a, b)
    BY <2>1, SameDoc DEF Answered
  <2>3. Parsed(a, b)
    BY <1>4, <2>1, TagsTaken DEF TagRead
  <2> QED  BY <2>2, <2>3 DEF Parsed
<1> QED  BY <1>4, <1>5, <1>6

\* The machine's reading of a tag is the document's.
LEMMA TagAsRead ==
  ASSUME NEW r, TagRead(doc, r.asked, r)
  PROVE  /\ IsClosing(r.open) <=> EndTag(doc, r.open)
         /\ IsSelf(r.open, r.close) <=> EmptyTag(doc, r.open)
         /\ NameOf(r.open) = TagName(doc, r.open)
BY DEF TagRead, IsClosing, IsSelf, NameOf, EndTag, EmptyTag

-----------------------------------------------------------------------------
(* The tree of a well-formed document *)

\* What a tag of the tree holds for good is what its bracket says.
TagDoc(d, x) ==
  LET i == x.at IN
  /\ i \in Brackets(d) /\ ~EndTag(d, i) /\ x.self = EmptyTag(d, i)
  /\ x.offset = CloseOf(d, i) /\ x.name = TagName(d, i)
  /\ ~x.self => Whole(d, i)

\* Where the children of x begin, and which is the last.
KidAts(s, x) == {s[x.kids[n]].at : n \in DOMAIN x.kids}
LastOf(x) == x.kids[Len(x.kids)]

\* An element that is not ready waits for its last child to be read.
Waiting(d, s, x) ==
  LET i == x.at
      l == s[LastOf(x)]
  IN /\ x.kids # <<>> /\ l.tag /\ ~l.self
     /\ i < l.at /\ l.at < Shut(d, i) /\ Depth(d, i, l.at - 1) = 1
     /\ KidAts(s, x) = Upto(d, i, CloseOf(d, l.at))

\* The children of an entity in the sequence s are those of the document, as
\* far as it was read; in a well-formed one only an element without children
\* gets an error.
KidsDoc(d, s, x) ==
  /\ x.self \/ x.error => x.complete /\ x.kids = <<>>
  /\ \A n, m \in DOMAIN x.kids : n < m => s[x.kids[n]].at < s[x.kids[m]].at
  /\ x.complete => KidAts(s, x) = Children(d, x.at)
  /\ ~x.complete /\ x.ready => Level(d, x.at, x.pos) /\ KidAts(s, x) = Upto(d, x.at, x.pos)
  /\ ~x.complete /\ ~x.ready => Waiting(d, s, x)

\* A literal has nothing to read.
EntDoc(d, s, x) ==
  IF x.tag THEN TagDoc(d, x) /\ KidsDoc(d, s, x) ELSE ~x.complete /\ ~x.error

\* A call that reads on is for an element that can be, one in parseSub() for one that waits.
FrameDoc(s, f) ==
  /\ f.at = "inner" => ~s[f.ent].error /\ (s[f.ent].complete => ~s[f.ent].ready)
  /\ f.at = "sub" => ~s[f.ent].ready
  /\ f.op = "getNextTag" => f.at \in {"outer", "return"}

\* Only getNextTag() calls getNext(), and only the user calls getNextTag().
CallersOK(st) ==
  \A n \in 1..(Len(st) - 1) :
    st[n].op = "parse" \/ (st[n].op = "getNext" /\ st[n + 1].op = "getNextTag")

\* Between the calls of the user every element not complete can be read on.
Awaited(s, st) ==
  \A e \in DOMAIN s : s[e].tag /\ ~s[e].complete /\ ~s[e].ready =>
    \E n \in DOMAIN st : st[n].ent = e /\ st[n].at \in {"inner", "sub"}

\* The child e has not been read to its end, which is at Stop.
UnreadIn(s, e) == s[e].tag /\ ~s[e].complete /\ ~s[e].error

Stop(d, i) == CloseOf(d, Shut(d, i))

\* The entity being read waits for a child not yet begun, or stands behind it.
TopDoc(d, s, st) ==
  LET x == s[st[1].ent] IN
  st # <<>> /\ st[1].at \in {"inner", "sub"} /\ ~x.complete /\ ~x.ready =>
    /\ UnreadIn(s, LastOf(x)) => s[LastOf(x)].kids = <<>>
    /\ ~UnreadIn(s, LastOf(x)) => x.pos = Stop(d, s[LastOf(x)].at)

\* An element that is read by a parse() of its own stands where it ends, and
\* has no child but the last left to read.
Fresh(d, s, x) ==
  /\ x.complete => x.pos = Stop(d, x.at)
  /\ \A n \in DOMAIN x.kids :
       UnreadIn(s, x.kids[n]) => n = Len(x.kids) /\ ~x.ready /\ ~x.complete

\* A parse() that parseSub() called reads the last child of its parent.
SubCalls(d, s, st) ==
  \A n \in 1..(Len(st) - 1) : st[n].op = "parse" =>
    /\ st[n].ent = LastOf(s[st[n + 1].ent])
    /\ ~s[st[n + 1].ent].complete =>
         Fresh(d, s, s[st[n].ent]) /\ (n > 1 => ~s[st[n].ent].complete)

DocInv(d, s, st) ==
  /\ \A e \in DOMAIN s : EntDoc(d, s, s[e])
  /\ \A n \in DOMAIN st : FrameDoc(s, st[n])
  /\ CallersOK(st) /\ Awaited(s, st) /\ TopDoc(d, s, st) /\ SubCalls(d, s, st)

\* Without these the tree may differ from the document.
Sound == ~stray /\ WellFormed /\ Fits(doc)

DInv == Sound => DocInv(doc, ents, stack)

\* What holds of an entity's children depends on their places alone.
LEMMA SameKids ==
  ASSUME NEW s, NEW t, NEW x, x.kids \in Seq(Nat), \A n \in DOMAIN x.kids : x.kids[n] \in DOMAIN s,
         \A e \in DOMAIN s : t[e].tag = s[e].tag /\ t[e].self = s[e].self /\ t[e].at = s[e].at
  PROVE  /\ KidAts(t, x) = KidAts(s, x)
         /\ \A d : EntDoc(d, s, x) => EntDoc(d, t, x)
<1>1. KidAts(t, x) = KidAts(s, x)
  <2>1. KidAts(t, x) \subseteq KidAts(s, x)
    BY DEF KidAts
  <2>2. KidAts(s, x) \subseteq KidAts(t, x)
    BY DEF KidAts
  <2> QED  BY <2>1, <2>2
<1>2. ASSUME NEW d, Waiting(d, s, x) PROVE Waiting(d, t, x)
  <2>1. LastOf(x) \in DOMAIN s
    <3>1. Len(x.kids) \in DOMAIN x.kids
      BY <1>2 DEF Waiting
    <3> QED  BY <3>1 DEF LastOf
  <2>2. PICK l : l = LastOf(x)
    OBVIOUS
  <2>3. t[l].tag = s[l].tag /\ t[l].self = s[l].self /\ t[l].at = s[l].at
    BY <2>1, <2>2
  <2> HIDE DEF LastOf
  <2> QED  BY <1>1, <1>2, <2>2, <2>3 DEF Waiting
<1>3. \A n, m \in DOMAIN x.kids : t[x.kids[n]].at = s[x.kids[n]].at
  OBVIOUS
<1>4. ASSUME NEW d, EntDoc(d, s, x) PROVE EntDoc(d, t, x)
  BY <1>1, <1>2, <1>3, <1>4 DEF EntDoc, KidsDoc
<1> QED  BY <1>1, <1>4

\* A tag just read, in an element or as the root.
LEMMA NewTagDoc ==
  ASSUME doc \in Seq(STRING), WholeTags(doc), NEW r, TagRead(doc, r.asked, r), ~EndTag(doc, r.open),
         EmptyTag(doc, r.open) => Children(doc, r.open) = {},
         ~EmptyTag(doc, r.open) => Whole(doc, r.open), NEW s
  PROVE  /\ EntDoc(doc, s, TagEntity(r)) /\ TagEntity(r).self = EmptyTag(doc, r.open)
         /\ ~EmptyTag(doc, r.open) => ~TagEntity(r).complete /\ TagEntity(r).ready
<1>1. PICK z : z = TagEntity(r)
  OBVIOUS
<1>2. /\ z.tag /\ z.at = r.open /\ z.self = EmptyTag(doc, r.open) /\ z.complete = EmptyTag(doc, r.open)
      /\ z.ready /\ ~z.error /\ z.offset = CloseOf(doc, r.open) /\ z.pos = CloseOf(doc, r.open)
      /\ z.name = TagName(doc, r.open) /\ z.kids = <<>>
  <2>1. /\ z.tag /\ z.at = r.open /\ z.self = IsSelf(r.open, r.close) /\ z.complete = IsSelf(r.open, r.close)
        /\ z.ready /\ ~z.error /\ z.offset = r.next /\ z.pos = r.next
        /\ z.name = NameOf(r.open) /\ z.kids = <<>>
    BY <1>1 DEF TagEntity, Complete, Offset
  <2>2. r.next = CloseOf(doc, r.open)
    BY DEF TagRead
  <2>3. IsSelf(r.open, r.close) = EmptyTag(doc, r.open)
    BY DEF TagRead, IsSelf, EmptyTag
  <2> QED  BY <2>1, <2>2, <2>3, TagAsRead
<1>3. TagDoc(doc, z)
  BY <1>2 DEF TagDoc, TagRead
<1>4. KidAts(s, z) = {}
  BY <1>2 DEF KidAts
<1>5. \A n, m \in DOMAIN z.kids : FALSE
  BY <1>2
<1>6. ~EmptyTag(doc, r.open) => Level(doc, z.at, z.pos) /\ Upto(doc, z.at, z.pos) = {}
  BY <1>2, LevelFirst
<1>7. KidsDoc(doc, s, z)
  BY <1>2, <1>4, <1>5, <1>6 DEF KidsDoc
<1> QED  BY <1>1, <1>2, <1>3, <1>7 DEF EntDoc

\* The root, with nothing read of it.
LEMMA ReadRootDoc == NInv /\ ReadRoot => DInv'
<1> SUFFICES ASSUME NInv, ReadRoot, Sound' PROVE DocInv(doc', ents', stack')
  BY DEF DInv
<1>0. PICK r, o : r = last' /\ o = last.next
  OBVIOUS
<1>1. /\ ents = <<>> /\ UNCHANGED stack /\ GetTag(o) /\ o \in offsets /\ TInv
      /\ ents' = IF r.kind = "tag" THEN <<TagEntity(r)>> ELSE <<>>
  BY <1>0 DEF ReadRoot, NInv, TInv
<1>2. /\ Answered' /\ doc' = doc /\ r.asked = o /\ r \in Calls
      /\ r.kind # "none" => r.open \in DOMAIN doc /\ r.close \in DOMAIN doc
  BY <1>0, <1>1, GetTagKeepsReader DEF TInv
<1>3. doc \in Seq(STRING) /\ stack = <<>> /\ Fits(doc)
  BY <1>1, <1>2, TopFacts DEF TInv, RInv, ReaderTypeOK, Sound
<1>4. r.kind = "tag" /\ WellFormedFrom(doc, ents'[1].at)
  BY <1>1, <1>2 DEF Sound, WellFormed
<1>5. ents' = <<TagEntity(r)>> /\ DOMAIN ents' = {1} /\ ents'[1] = TagEntity(r)
  BY <1>1, <1>4
<1>6. ents'[1].at = r.open /\ r.open \in Nat
  BY <1>2, <1>5 DEF TagEntity, Calls
<1>7. WholeTags(doc) /\ Whole(doc, r.open)
  BY <1>3, <1>4, <1>6, RootWhole
<1>8. TagRead(doc, r.asked, r)
  BY <1>0, <1>2, <1>3, <1>4, <1>7, ReadFacts
<1>9. ~EndTag(doc, r.open) /\ ~EmptyTag(doc, r.open)
  BY <1>3, <1>6, <1>7, ElementFacts DEF Whole, IsOpen
<1>10. PICK z : z = TagEntity(r)
  OBVIOUS
<1>11. /\ \A s : EntDoc(doc, s, z)
       /\ ~z.complete /\ z.ready
  BY <1>3, <1>7, <1>8, <1>9, <1>10, NewTagDoc
<1>12. \A e \in DOMAIN ents' : EntDoc(doc', ents', ents'[e])
  BY <1>2, <1>5, <1>10, <1>11
<1>13. stack' = <<>> /\ DOMAIN stack' = {} /\ 1..(Len(stack') - 1) = {}
  BY <1>1, <1>3
<1>14. Awaited(ents', stack')
  BY <1>5, <1>10, <1>11 DEF Awaited
<1> QED  BY <1>12, <1>13, <1>14 DEF DocInv, CallersOK, TopDoc, SubCalls

\* x and y differ in how far they were read.
SameHead(x, y) ==
  /\ y.tag = x.tag /\ y.self = x.self /\ y.at = x.at /\ y.name = x.name
  /\ y.offset = x.offset /\ y.error = x.error

\* What a step makes of the entities: e becomes y ...
Becomes(e, y) ==
  /\ DOMAIN ents' = DOMAIN ents /\ ents'[e] = y
  /\ \A d \in DOMAIN ents : d # e => ents'[d] = ents[d]

\* ... or also gets the child z, the last of them all.
Gets(e, y, z) ==
  /\ DOMAIN ents' = DOMAIN ents \union {Len(ents) + 1} /\ ents'[e] = y /\ ents'[Len(ents) + 1] = z
  /\ \A d \in DOMAIN ents : d # e => ents'[d] = ents[d]
  /\ y.kids = Append(ents[e].kids, Len(ents) + 1) /\ y.complete = ents[e].complete

\* In a well-formed document parseOne() comes upon the closing tag or a child.
LEMMA ParseOneReads ==
  ASSUME NInv, DInv, Sound, ParseOne
  PROVE  /\ Mine.tag /\ ~Mine.complete /\ ~Mine.error /\ Mine.ready /\ Mine.self = FALSE
         /\ doc' = doc /\ last' \in Calls
         /\ Whole(doc, Mine.at) /\ Level(doc, Mine.at, Mine.pos)
         /\ KidAts(ents, Mine) = Upto(doc, Mine.at, Mine.pos)
         /\ \/ TagRead(doc, Mine.pos, last')
            \/ TextRead(doc, Mine.pos, last')
         /\ TagRead(doc, Mine.pos, last') <=> last'.kind = "tag"
         /\ TextRead(doc, Mine.pos, last') <=> last'.kind = "text"
<1>1. /\ TInv /\ stack # <<>> /\ Top.at = "inner" /\ Mine.ready /\ ~Mine.error /\ GetTag(Mine.pos)
  BY DEF ParseOne, Reading, NInv
<1>2. /\ Me \in DOMAIN ents /\ Mine \in Entity /\ Mine.tag /\ Mine.pos \in offsets /\ 1 \in DOMAIN stack
      /\ stack \in Seq(Frames)
  BY <1>1, TopFacts
<1>3. DocInv(doc, ents, stack)
  BY DEF DInv
<1>4. ~Mine.complete
  <2>1. FrameDoc(ents, stack[1])
    BY <1>2, <1>3 DEF DocInv
  <2> QED  BY <1>1, <2>1 DEF FrameDoc, Mine, Me, Top
<1>5. EntDoc(doc, ents, Mine)
  BY <1>2, <1>3 DEF DocInv, Mine
<1>6. /\ ~Mine.self /\ TagDoc(doc, Mine) /\ Whole(doc, Mine.at) /\ Level(doc, Mine.at, Mine.pos)
      /\ KidAts(ents, Mine) = Upto(doc, Mine.at, Mine.pos)
  BY <1>1, <1>2, <1>4, <1>5 DEF EntDoc, KidsDoc, TagDoc
<1>7. Mine.self = FALSE
  BY <1>2, <1>6 DEF Entity
<1>8. PICK r, p : r = last' /\ p = Mine.pos
  OBVIOUS
<1>9. /\ Answered' /\ doc' = doc /\ r.asked = p /\ r \in Calls
      /\ r.kind # "none" => r.open \in DOMAIN doc /\ r.close \in DOMAIN doc
  BY <1>1, <1>2, <1>8, GetTagKeepsReader DEF TInv
<1>10. doc \in Seq(STRING) /\ WholeTags(doc) /\ Fits(doc)
  BY <1>1 DEF TInv, RInv, ReaderTypeOK, Sound, WellFormed, WellFormedFrom
<1>11. r.kind # "none"
  <2>1. PICK k \in DOMAIN doc, j \in DOMAIN doc :
          \/ IsText(p, k, j)
          \/ IsTag(p, k, j) /\ k \in Brackets(doc) /\ j = CloseOf(doc, k)
    BY <1>6, <1>8, <1>10, SomethingNext
  <2>2. /\ IsText(p, k, j)' = IsText(p, k, j) /\ IsTag(p, k, j)' = IsTag(p, k, j)
        /\ Refused(k, j)' = Refused(k, j)
    BY <1>9, SameDoc
  <2>3. IsTag(p, k, j) => ~Refused(k, j)
    BY <1>10, <2>1, TagsTaken DEF Parsed, IsText, IsTag
  <2> QED  BY <1>8, <1>9, <2>1, <2>2, <2>3 DEF Answered
<1>12. /\ r.kind = "tag" => TagRead(doc, p, r)
       /\ r.kind = "text" => TextRead(doc, p, r)
       /\ r.kind # "throw"
  BY <1>8, <1>9, <1>10, ReadFacts
<1>13. r.kind \in {"none", "text", "tag", "throw"}
  BY <1>9 DEF Calls, Kinds
<1>14. ~(TagRead(doc, p, r) /\ TextRead(doc, p, r))
  BY DEF TagRead, TextRead, Brackets
<1> QED  BY <1>1, <1>2, <1>4, <1>6, <1>7, <1>8, <1>9, <1>11, <1>12, <1>13, <1>14

\* An entity read on, as the fields that the document knows.
ReadTo(x, next) == [x EXCEPT !.pos = next, !.ready = FALSE]
Closed(x, next) == [ReadTo(x, next) EXCEPT !.complete = TRUE]
Extended(x, next, k, m, z) == [ReadTo(x, next) EXCEPT !.kids = k, !.inserted = m, !.ready = StaysReady(z)]

LEMMA ReadFields ==
  ASSUME NEW x \in Entity, NEW next \in Nat
  PROVE  LET read == ReadTo(x, next) IN
         /\ read \in Entity /\ SameHead(x, read) /\ read.kids = x.kids /\ read.complete = x.complete
         /\ read.pos = next /\ read.ready = FALSE
BY DEF ReadTo, Entity, SameHead

LEMMA ClosedFields ==
  ASSUME NEW x \in Entity, NEW next \in Nat
  PROVE  LET y == Closed(x, next) IN
         y \in Entity /\ SameHead(x, y) /\ y.kids = x.kids /\ y.complete /\ ~y.ready /\ y.pos = next
<1>1. PICK read, y : read = ReadTo(x, next) /\ y = Closed(x, next)
  OBVIOUS
<1>2. /\ read \in Entity /\ SameHead(x, read) /\ read.kids = x.kids /\ read.complete = x.complete
      /\ read.pos = next /\ read.ready = FALSE
  BY <1>1, ReadFields
<1>3. y = [read EXCEPT !.complete = TRUE]
  BY <1>1 DEF Closed
<1>4. y \in Entity /\ SameHead(read, y) /\ y.kids = read.kids /\ y.complete /\ y.ready = read.ready
      /\ y.pos = read.pos
  BY <1>2, <1>3 DEF Entity, SameHead
<1> QED  BY <1>1, <1>2, <1>4 DEF SameHead

\* y is x read on to next, with the children k, the last of them z.
ReadOnBy(x, next, k, z, y) ==
  /\ y \in Entity /\ SameHead(x, y) /\ y.kids = k /\ y.complete = x.complete
  /\ y.ready = StaysReady(z) /\ y.pos = next

LEMMA ChildFields ==
  ASSUME NEW x \in Entity, NEW next \in Nat, NEW k \in Seq(Nat), NEW m \in Nat, NEW z \in Entity,
         NEW y, y = Extended(x, next, k, m, z)
  PROVE  ReadOnBy(x, next, k, z, y)
<1>1. PICK read : read = ReadTo(x, next)
  OBVIOUS
<1>2. /\ read \in Entity /\ SameHead(x, read) /\ read.kids = x.kids /\ read.complete = x.complete
      /\ read.pos = next /\ read.ready = FALSE
  BY <1>1, ReadFields
<1>3. y = [read EXCEPT !.kids = k, !.inserted = m, !.ready = StaysReady(z)]
  BY <1>1 DEF Extended
<1>4. StaysReady(z) \in BOOLEAN
  BY DEF StaysReady, Entity
<1>5. y \in Entity /\ SameHead(read, y) /\ y.kids = k /\ y.complete = read.complete /\ y.ready = StaysReady(z)
      /\ y.pos = read.pos
  BY <1>2, <1>3, <1>4 DEF Entity, SameHead
<1> QED  BY <1>1, <1>2, <1>5 DEF SameHead, ReadOnBy

\* parseOne(), as the document sees it.
Closes(x, r) ==
  \E y \in Entity : /\ Becomes(Me, y) /\ SameHead(x, y) /\ y.kids = x.kids
                    /\ y.complete /\ ~y.ready /\ y.pos = r.next

Grows(x, r, z) ==
  \E y \in Entity : /\ Gets(Me, y, z) /\ SameHead(x, y)
                    /\ y.ready = StaysReady(z) /\ y.pos = r.next

\* parseOne() adds a child as Grows() says.
LEMMA GrowsBy ==
  ASSUME NInv, ParseOne, NEW x, x = Mine, NEW r \in Calls, NEW z \in Entity, NEW n, n = Len(ents) + 1,
         NEW k, k = Append(x.kids, n), NEW m, m = Len(x.kids) + 1,
         NEW y, y = Extended(x, r.next, k, m, z),
         ents' = Append([ents EXCEPT ![Me] = y], z)
  PROVE  Grows(x, r, z)
<1>1. /\ Me \in DOMAIN ents /\ x \in Entity /\ ents \in Seq(Entity) /\ Len(ents) \in Nat
      /\ DOMAIN ents = 1..Len(ents) /\ n \in Nat
  BY TopFacts DEF ParseOne, NInv, TInv, TreeTypes
<1>2. r.next \in Nat
  BY DEF Calls
<1>5. k \in Seq(Nat) /\ Len(x.kids) + 1 \in Nat /\ StaysReady(z) \in BOOLEAN
  <2>1. x.kids \in Seq(Nat)
    BY <1>1 DEF Entity
  <2>2. StaysReady(z) \in BOOLEAN
    BY DEF StaysReady, Entity
  <2> QED  BY <1>1, <2>1, <2>2
<1>6. m \in Nat /\ y = Extended(x, r.next, k, m, z)
  BY <1>5
<1>7. /\ y \in Entity /\ SameHead(x, y) /\ y.kids = k /\ y.complete = x.complete
      /\ y.ready = StaysReady(z) /\ y.pos = r.next
  <2>1. PICK next \in Nat : next = r.next
    BY <1>2
  <2>2. y = Extended(x, next, k, m, z)
    BY <1>6, <2>1
  <2>3. x \in Entity /\ k \in Seq(Nat)
    BY <1>1, <1>5
  <2>4. ReadOnBy(x, next, k, z, y)
    BY <1>6, <2>2, <2>3, ChildFields
  <2> QED  BY <2>1, <2>4 DEF ReadOnBy
<1>8. ents' = Append([ents EXCEPT ![Me] = y], z)
  OBVIOUS
<1>9. PICK s : s = [ents EXCEPT ![Me] = y]
  OBVIOUS
<1>10. s \in Seq(Entity) /\ Len(s) = Len(ents) /\ s[Me] = y /\ DOMAIN s = DOMAIN ents
       /\ \A d \in DOMAIN ents : d # Me => s[d] = ents[d]
  BY <1>1, <1>7, <1>9
<1>11. ents' = Append(s, z) /\ n = Len(s) + 1
  BY <1>8, <1>9, <1>10
<1>12. DOMAIN ents' = 1..n /\ ents'[n] = z /\ \A d \in DOMAIN s : ents'[d] = s[d]
  BY <1>10, <1>11, AppendFacts
<1>13. DOMAIN ents' = DOMAIN ents \union {n}
  BY <1>1, <1>12
<1>14. ents'[Me] = y /\ \A d \in DOMAIN ents : d # Me => ents'[d] = ents[d]
  BY <1>1, <1>10, <1>12, Zenon
<1>15. Gets(Me, y, z)
  BY <1>7, <1>12, <1>13, <1>14 DEF Gets, Mine
<1> QED  BY <1>7, <1>15 DEF Grows

\* The three things parseOne() does in a sound document.
LEMMA ParseOneShape ==
  ASSUME NInv, DInv, Sound, ParseOne
  PROVE  \/ TagRead(doc, Mine.pos, last') /\ EndTag(doc, last'.open) /\ Closes(Mine, last')
         \/ TagRead(doc, Mine.pos, last') /\ ~EndTag(doc, last'.open) /\ Grows(Mine, last', TagEntity(last'))
         \/ TextRead(doc, Mine.pos, last') /\ Grows(Mine, last', TextEntity(last'))
<1>0. PICK r, x, n : r = last' /\ x = Mine /\ n = Len(ents) + 1
  OBVIOUS
<1>1. /\ x.tag /\ ~x.complete /\ r \in Calls /\ Whole(doc, x.at) /\ Level(doc, x.at, x.pos)
      /\ TagRead(doc, x.pos, r) \/ TextRead(doc, x.pos, r)
      /\ TagRead(doc, x.pos, r) <=> r.kind = "tag"
      /\ TextRead(doc, x.pos, r) <=> r.kind = "text"
  BY <1>0, ParseOneReads
<1>2. /\ Me \in DOMAIN ents /\ x \in Entity /\ ents \in Seq(Entity) /\ r.next \in Nat /\ r.asked = x.pos
  <2>1. TInv /\ stack # <<>> /\ GetTag(x.pos)
    BY <1>0 DEF ParseOne, NInv
  <2>2. Me \in DOMAIN ents /\ x \in Entity /\ x.pos \in offsets
    BY <1>0, <2>1, TopFacts
  <2> QED  BY <1>0, <1>1, <2>1, <2>2, GetTagKeepsReader DEF TInv, TreeTypes, Calls
<1>3. doc \in Seq(STRING) /\ WholeTags(doc) /\ Fits(doc)
  BY DEF NInv, TInv, RInv, ReaderTypeOK, Sound, WellFormed, WellFormedFrom
<1>4. TagRead(doc, x.pos, r) => (IsClosing(r.open) <=> EndTag(doc, r.open)) /\ NameOf(r.open) = TagName(doc, r.open)
  BY <1>2, TagAsRead
<1> DEFINE read == ReadTo(x, r.next)
           closes == IsClosing(r.open) /\ NameOf(r.open) = x.name
           Child(c) == [read EXCEPT !.kids = Append(@, n),
                                    !.inserted = Len(x.kids) + 1,
                                    !.ready = StaysReady(c)]
<1>5. /\ stack # <<>>
      /\ CASE r.kind = "throw" -> ents' = [ents EXCEPT ![Me] = [x EXCEPT !.pos = r.next]]
           [] r.kind = "none" -> ents' = [ents EXCEPT ![Me] = [read EXCEPT !.error = TRUE]]
           [] r.kind = "text" ->
                ents' = Append([ents EXCEPT ![Me] = Child(TextEntity(r))], TextEntity(r))
           [] r.kind = "tag" /\ ~IsClosing(r.open) ->
                ents' = Append([ents EXCEPT ![Me] = Child(TagEntity(r))], TagEntity(r))
           [] OTHER ->
                ents' = [ents EXCEPT ![Me] =
                           [read EXCEPT !.complete = @ \/ closes,
                                        !.ready = ~closes /\ IsSelf(r.open, r.close)]]
  BY <1>0 DEF ParseOne, ParseOneEnts, Mine, ReadTo
<1>10. ASSUME NEW c \in Entity, ents' = Append([ents EXCEPT ![Me] = Child(c)], c)
       PROVE  Grows(x, r, c)
  <2>1. PICK k, m, w : k = Append(x.kids, n) /\ m = Len(x.kids) + 1 /\ w = Child(c)
    OBVIOUS
  <2>2. r \in Calls /\ x = Mine /\ n = Len(ents) + 1
    BY <1>0, <1>1
  <2>3. w = Extended(x, r.next, k, m, c)
    <3>1. read.kids = x.kids
      BY <1>2, ReadFields
    <3> QED  BY <2>1, <3>1 DEF Extended
  <2> HIDE DEF Child, read
  <2>4. ents' = Append([ents EXCEPT ![Me] = w], c)
    BY <1>10, <2>1
  <2> QED  BY <2>1, <2>2, <2>3, <2>4, GrowsBy
<1> HIDE DEF Child
<1>6. CASE r.kind = "text"
  <2>1. TextEntity(r) \in Entity
    BY <1>1, TextType
  <2>2. ents' = Append([ents EXCEPT ![Me] = Child(TextEntity(r))], TextEntity(r))
    BY <1>5, <1>6
  <2>3. Grows(x, r, TextEntity(r))
    BY <1>10, <2>1, <2>2
  <2> QED  BY <1>0, <1>1, <1>6, <2>3
<1>7. CASE r.kind = "tag" /\ ~IsClosing(r.open)
  <2>1. TagEntity(r) \in Entity
    <3>1. PICK b \in Nat, c \in Nat : b = r.open /\ c = r.close
      BY <1>1 DEF Calls
    <3>2. b \in Brackets(doc) /\ FirstBehind(doc, r.asked, b) /\ c = CloseOf(doc, b)
      BY <1>1, <1>2, <1>7, <3>1 DEF TagRead
    <3>3. /\ b \in DOMAIN doc /\ doc[b] = "<" /\ c \in DOMAIN doc /\ b + 2 <= c /\ doc[c] = ">"
          /\ \A k \in Nat : b < k /\ k < c => doc[k] \notin {"<", ">"}
      BY <1>3, <3>2, TagEnd, BracketPlaces
    <3>4. IsTag(r.asked, b, c)
      <4>1. Starts(r.asked, b)
        BY <1>3, <3>2 DEF FirstBehind, Starts
      <4>2. Reaches(b, c, {"<", ">"})
        BY <1>3, <3>1, <3>3 DEF Reaches
      <4> QED  BY <3>3, <4>1, <4>2 DEF IsTag
    <3>5. Parsed(b, c)
      BY <1>3, <3>2, TagsTaken
    <3> QED  BY <1>1, <1>3, <3>1, <3>3, <3>4, <3>5, TagType
  <2>2. ~EndTag(doc, r.open) /\ TagRead(doc, x.pos, r)
    BY <1>1, <1>4, <1>7
  <2>3. ents' = Append([ents EXCEPT ![Me] = Child(TagEntity(r))], TagEntity(r))
    BY <1>5, <1>7
  <2>4. Grows(x, r, TagEntity(r))
    BY <1>10, <2>1, <2>3
  <2> QED  BY <1>0, <2>2, <2>4
<1>8. CASE r.kind = "tag" /\ IsClosing(r.open)
  <2>1. EndTag(doc, r.open) /\ TagRead(doc, x.pos, r) /\ r.open \in Brackets(doc) /\ FirstBehind(doc, x.pos, r.open)
    <3> HIDE DEF closes, read
    <3> QED  BY <1>1, <1>4, <1>8 DEF TagRead
  <2>2. closes
    <3>1. r.open = Shut(doc, x.at)
      BY <1>1, <1>3, <2>1, EndRead
    <3>2. TagName(doc, r.open) = TagName(doc, x.at)
      BY <1>1, <1>3, <3>1, ElementFacts DEF Whole
    <3>3. EntDoc(doc, ents, x)
      BY <1>0, <1>2 DEF DInv, DocInv, Mine
    <3>4. x.name = TagName(doc, x.at)
      BY <1>1, <3>3 DEF EntDoc, TagDoc
    <3> QED  BY <1>4, <1>8, <2>1, <3>2, <3>4
  <2>3. PICK y : y = Closed(x, r.next)
    OBVIOUS
  <2>4. ents' = [ents EXCEPT ![Me] = y]
    <3>1. ents' = [ents EXCEPT ![Me] =
                     [read EXCEPT !.complete = @ \/ closes,
                                  !.ready = ~closes /\ IsSelf(r.open, r.close)]]
      BY <1>5, <1>8
    <3>2. read \in Entity /\ read.ready = FALSE
      BY <1>2, ReadFields
    <3>3. (read.complete \/ closes) = TRUE /\ (~closes /\ IsSelf(r.open, r.close)) = FALSE
      BY <2>2
    <3> HIDE DEF read, closes
    <3>4. [read EXCEPT !.complete = @ \/ closes, !.ready = ~closes /\ IsSelf(r.open, r.close)]
            = [read EXCEPT !.complete = TRUE]
      BY <3>2, <3>3 DEF Entity
    <3> QED  BY <2>3, <3>1, <3>4 DEF read, Closed
  <2>5. y \in Entity /\ SameHead(x, y) /\ y.kids = x.kids /\ y.complete /\ ~y.ready /\ y.pos = r.next
    BY <1>2, <2>3, ClosedFields
  <2>6. Becomes(Me, y)
    BY <1>2, <2>4, <2>5 DEF Becomes
  <2>7. Closes(x, r)
    BY <2>5, <2>6 DEF Closes
  <2> QED  BY <1>0, <2>1, <2>7
<1>9. r.kind \in {"text", "tag"}
  BY <1>1
<1> QED  BY <1>6, <1>7, <1>8, <1>9

-----------------------------------------------------------------------------
(* parseOne() *)

\* Children are entities that were read after their parent.
LEMMA KidsIn ==
  ASSUME TInv, NEW e \in DOMAIN ents
  PROVE  /\ ents[e].kids \in Seq(Nat) /\ e \in Nat /\ ents[e] \in Entity
         /\ \A n \in DOMAIN ents[e].kids : ents[e].kids[n] \in DOMAIN ents /\ ents[e].kids[n] # e
         /\ ents[e].kids # <<>> => LastOf(ents[e]) \in DOMAIN ents /\ LastOf(ents[e]) # e
<1>1. ents[e] \in Entity /\ EntOK(ents[e], e) /\ e \in Nat /\ Len(ents) \in Nat /\ DOMAIN ents = 1..Len(ents)
  BY DEF TInv, TreeTypes, EntInv
<1>2. ents[e].kids \in Seq(Nat)
  BY <1>1 DEF Entity
<1>3. \A n \in DOMAIN ents[e].kids : ents[e].kids[n] \in DOMAIN ents /\ ents[e].kids[n] # e
  BY <1>1 DEF EntOK
<1>4. ents[e].kids # <<>> => Len(ents[e].kids) \in DOMAIN ents[e].kids
  BY <1>2
<1> QED  BY <1>1, <1>2, <1>3, <1>4 DEF LastOf

\* A parse() that parseSub() called, and its caller.
LEMMA CallerFacts ==
  ASSUME NInv, DocInv(doc, ents, stack), NEW n \in 1..(Len(stack) - 1), stack[n].op = "parse"
  PROVE  /\ n \in Nat /\ n \in DOMAIN stack /\ n + 1 \in DOMAIN stack
         /\ stack[n].ent \in DOMAIN ents /\ stack[n + 1].ent \in DOMAIN ents
         /\ stack[n + 1].at = "sub" /\ ~ents[stack[n + 1].ent].ready
         /\ stack[n + 1].ent # Me /\ (n > 1 => stack[n].ent # Me)
         /\ stack[n].ent = LastOf(ents[stack[n + 1].ent]) /\ ents[stack[n + 1].ent].kids # <<>>
         /\ ~ents[stack[n + 1].ent].complete =>
              Fresh(doc, ents, ents[stack[n].ent]) /\ (n > 1 => ~ents[stack[n].ent].complete)
<1>1. stack \in Seq(Frames) /\ CallsOK(stack) /\ NestOK(stack)
  BY DEF NInv, TInv, TreeTypes, CallInv
<1>2. Len(stack) \in Nat /\ DOMAIN stack = 1..Len(stack)
  BY <1>1
<1>3. n \in Nat /\ n \in DOMAIN stack /\ n + 1 \in DOMAIN stack /\ 1 \in DOMAIN stack /\ 1 < n + 1
      /\ n + 1 \in Nat
  BY <1>2
<1>4. /\ stack[n].ent \in DOMAIN ents /\ stack[n + 1].ent \in DOMAIN ents /\ stack[n + 1].at = "sub"
      /\ ents[stack[n + 1].ent].kids # <<>>
  BY <1>1, <1>3 DEF CallsOK
<1>5. ~ents[stack[n + 1].ent].ready /\ stack[n + 1].op # "getNextTag"
  <2>1. FrameDoc(ents, stack[n + 1])
    BY <1>3 DEF DocInv
  <2> QED  BY <1>4, <2>1 DEF FrameDoc
<1>6. stack[n + 1].ent < stack[1].ent
  BY <1>1, <1>3, <1>5 DEF NestOK
<1>7. n > 1 => stack[n].ent < stack[1].ent
  BY <1>1, <1>3 DEF NestOK
<1>8. \A m \in DOMAIN stack : stack[m].ent \in Nat
  <2>1. \A m \in DOMAIN stack : stack[m] \in Frames
    BY <1>1
  <2> QED  BY <2>1 DEF Frames
<1>9. stack[n + 1].ent # Me /\ (n > 1 => stack[n].ent # Me)
  BY <1>3, <1>6, <1>7, <1>8 DEF Me, Top
<1>10. /\ stack[n].ent = LastOf(ents[stack[n + 1].ent])
       /\ ~ents[stack[n + 1].ent].complete =>
            Fresh(doc, ents, ents[stack[n].ent]) /\ (n > 1 => ~ents[stack[n].ent].complete)
  BY DEF DocInv, SubCalls
<1> QED  BY <1>3, <1>4, <1>5, <1>9, <1>10

\* What a step that keeps the places and the kinds of the entities keeps of them.
LEMMA OthersDoc ==
  ASSUME NInv, DocInv(doc, ents, stack), doc' = doc,
         \A e \in DOMAIN ents :
           ents'[e].tag = ents[e].tag /\ ents'[e].self = ents[e].self /\ ents'[e].at = ents[e].at,
         NEW e \in DOMAIN ents, ents'[e] = ents[e]
  PROVE  EntDoc(doc', ents', ents'[e])
<1>1. PICK x, d, t : x = ents[e] /\ d = doc /\ t = ents'
  OBVIOUS
<1>2. x.kids \in Seq(Nat) /\ \A n \in DOMAIN x.kids : x.kids[n] \in DOMAIN ents
  BY <1>1, KidsIn DEF NInv
<1>3. EntDoc(d, ents, x)
  BY <1>1 DEF DocInv
<1>4. EntDoc(d, t, x)
  BY <1>1, <1>2, <1>3, SameKids
<1> QED  BY <1>1, <1>4

\* Fresh() survives where no child becomes unread.
LEMMA FreshKept ==
  ASSUME NEW d, NEW s, NEW t, NEW x, Fresh(d, s, x),
         \A n \in DOMAIN x.kids : UnreadIn(t, x.kids[n]) => UnreadIn(s, x.kids[n])
  PROVE  Fresh(d, t, x)
BY DEF Fresh

\* parseOne() for the innermost call.
LEMMA ReadOnDoc ==
  ASSUME NInv, DocInv(doc, ents, stack), doc' = doc, stack # <<>>, stack' = stack, Top.at = "inner",
         Mine.ready, ~Mine.error, ~Mine.complete, Mine.tag,
         NEW y, SameHead(Mine, y), ents'[Me] = y, DOMAIN ents \subseteq DOMAIN ents',
         \A e \in DOMAIN ents : e # Me => ents'[e] = ents[e],
         \A e \in DOMAIN ents' : e \in DOMAIN ents \/
            (EntDoc(doc, ents', ents'[e]) /\ (ents'[e].tag /\ ~ents'[e].complete => ents'[e].ready)),
         EntDoc(doc, ents', y), y.complete => ~y.ready,
         ~y.complete /\ ~y.ready => UnreadIn(ents', LastOf(y)) /\ ents'[LastOf(y)].kids = <<>>,
         (\A m \in DOMAIN Mine.kids : ~UnreadIn(ents, Mine.kids[m])) => Fresh(doc, ents', y)
  PROVE  DocInv(doc', ents', stack')
<1>1. /\ Me \in DOMAIN ents /\ Mine \in Entity /\ 1 \in DOMAIN stack /\ Me = stack[1].ent /\ Mine = ents[Me]
      /\ stack[1].at = "inner" /\ DOMAIN stack = 1..Len(stack) /\ Len(stack) \in Nat
  BY TopFacts DEF NInv, Me, Mine, Top
<1>2. \A e \in DOMAIN ents :
        ents'[e].tag = ents[e].tag /\ ents'[e].self = ents[e].self /\ ents'[e].at = ents[e].at
  BY <1>1 DEF SameHead
<1>3. \A e \in DOMAIN ents' : EntDoc(doc', ents', ents'[e])
  <2> SUFFICES ASSUME NEW e \in DOMAIN ents, e # Me PROVE EntDoc(doc', ents', ents'[e])
    BY <1>1
  <2> QED  BY <1>2, OthersDoc
<1>4. \A n \in DOMAIN stack' : FrameDoc(ents', stack'[n])
  <2> SUFFICES ASSUME NEW n \in DOMAIN stack PROVE FrameDoc(ents', stack[n])
    OBVIOUS
  <2>1. stack[n].ent \in DOMAIN ents /\ FrameDoc(ents, stack[n])
    BY FrameFacts DEF DocInv
  <2>2. CASE stack[n].ent # Me
    BY <2>1, <2>2 DEF FrameDoc
  <2>3. CASE stack[n].ent = Me
    <3>1. ~y.error
      BY DEF SameHead
    <3>2. stack[n].at # "sub"
      BY <1>1, <2>1, <2>3 DEF FrameDoc
    <3> QED  BY <2>1, <2>3, <3>1, <3>2 DEF FrameDoc
  <2> QED  BY <2>2, <2>3
<1>5. CallersOK(stack')
  BY DEF DocInv
<1>6. Awaited(ents', stack')
  <2> SUFFICES ASSUME NEW e \in DOMAIN ents', ents'[e].tag /\ ~ents'[e].complete /\ ~ents'[e].ready
               PROVE  \E n \in DOMAIN stack : stack[n].ent = e /\ stack[n].at \in {"inner", "sub"}
    BY DEF Awaited
  <2>1. e \in DOMAIN ents
    OBVIOUS
  <2>2. CASE e = Me
    BY <1>1, <2>2
  <2>3. CASE e # Me
    <3>1. ents[e].tag /\ ~ents[e].complete /\ ~ents[e].ready
      BY <2>1, <2>3
    <3> QED  BY <2>1, <3>1 DEF DocInv, Awaited
  <2> QED  BY <2>2, <2>3
<1>7. TopDoc(doc', ents', stack')
  BY <1>1 DEF TopDoc
<1>8. SubCalls(doc', ents', stack')
  <2> SUFFICES ASSUME NEW n \in 1..(Len(stack) - 1), stack[n].op = "parse"
               PROVE  /\ stack[n].ent = LastOf(ents'[stack[n + 1].ent])
                      /\ ~ents'[stack[n + 1].ent].complete =>
                           Fresh(doc, ents', ents'[stack[n].ent]) /\ (n > 1 => ~ents'[stack[n].ent].complete)
    BY DEF SubCalls
  <2>1. /\ n \in Nat /\ n \in DOMAIN stack /\ n + 1 \in DOMAIN stack
        /\ stack[n].ent \in DOMAIN ents /\ stack[n + 1].ent \in DOMAIN ents
        /\ stack[n + 1].ent # Me /\ (n > 1 => stack[n].ent # Me)
        /\ stack[n].ent = LastOf(ents[stack[n + 1].ent])
        /\ ~ents[stack[n + 1].ent].complete =>
             Fresh(doc, ents, ents[stack[n].ent]) /\ (n > 1 => ~ents[stack[n].ent].complete)
    BY CallerFacts
  <2>2. ents'[stack[n + 1].ent] = ents[stack[n + 1].ent]
    BY <2>1
  <2>3. CASE n = 1
    <3>1. \A m \in DOMAIN Mine.kids : UnreadIn(ents, Mine.kids[m]) => FALSE \/ ents[stack[n + 1].ent].complete
      BY <1>1, <2>1, <2>3 DEF Fresh
    <3> QED  BY <1>1, <2>1, <2>2, <2>3, <3>1
  <2>4. CASE n > 1
    <3>1. ents'[stack[n].ent] = ents[stack[n].ent]
      BY <2>1, <2>4
    <3>2. PICK x : x = ents[stack[n].ent]
      OBVIOUS
    <3>3. \A m \in DOMAIN x.kids : UnreadIn(ents', x.kids[m]) => UnreadIn(ents, x.kids[m])
      <4>1. \A m \in DOMAIN x.kids : x.kids[m] \in DOMAIN ents
        BY <2>1, <3>2, KidsIn DEF NInv
      <4>2. UnreadIn(ents, Me)
        BY <1>1 DEF UnreadIn
      <4>3. \A k \in DOMAIN ents : UnreadIn(ents', k) => UnreadIn(ents, k)
        BY <4>2 DEF UnreadIn
      <4> QED  BY <4>1, <4>3
    <3>4. Fresh(doc, ents, x) => Fresh(doc, ents', x)
      BY <3>3, FreshKept
    <3> QED  BY <2>1, <2>2, <3>1, <3>2, <3>4
  <2> QED  BY <2>1, <2>3, <2>4
<1> QED  BY <1>3, <1>4, <1>5, <1>6, <1>7, <1>8 DEF DocInv

\* The child n behind the others.
LEMMA OneKidMore ==
  ASSUME NEW k \in Seq(Nat), NEW n \in Nat, NEW y, y.kids = Append(k, n)
  PROVE  /\ LastOf(y) = n /\ y.kids # <<>> /\ Len(y.kids) = Len(k) + 1 /\ Len(k) \in Nat
         /\ \A m \in DOMAIN y.kids :
              \/ m \in DOMAIN k /\ y.kids[m] = k[m] /\ m < Len(y.kids)
              \/ m = Len(y.kids) /\ y.kids[m] = n
         /\ \A m \in DOMAIN k : m \in DOMAIN y.kids /\ y.kids[m] = k[m]
         /\ Len(y.kids) \in DOMAIN y.kids /\ y.kids[Len(y.kids)] = n
<1>1. PICK t : t = Append(k, n)
  OBVIOUS
<1>2. /\ t # <<>> /\ Len(t) = Len(k) + 1 /\ Len(k) \in Nat /\ t[Len(t)] = n /\ Len(t) \in DOMAIN t
      /\ \A m \in DOMAIN t : (m \in DOMAIN k /\ t[m] = k[m] /\ m < Len(t)) \/ (m = Len(t) /\ t[m] = n)
      /\ \A m \in DOMAIN k : m \in DOMAIN t /\ t[m] = k[m]
  <2>1. Len(k) \in Nat /\ DOMAIN k = 1..Len(k)
    OBVIOUS
  <2>2. /\ t # <<>> /\ Len(t) = Len(k) + 1 /\ DOMAIN t = 1..(Len(k) + 1)
        /\ \A i \in 1..Len(k) : t[i] = k[i]
        /\ t[Len(k) + 1] = n
    BY ONLY k \in Seq(Nat), n \in Nat, <1>1, AppendFacts
  <2> QED  BY ONLY <2>1, <2>2
<1> QED  BY <1>1, <1>2 DEF LastOf

\* An element read on to a child at k.
LEMMA ChildRead ==
  ASSUME NEW d \in Seq(STRING), WholeTags(d), NEW s, NEW t, NEW x, EntDoc(d, s, x), x.tag, x.ready,
         ~x.complete, ~x.error, ~x.self, x.kids \in Seq(Nat), x.pos \in Nat,
         KidAts(t, x) = KidAts(s, x), \A m \in DOMAIN x.kids : t[x.kids[m]].at = s[x.kids[m]].at,
         NEW y, SameHead(x, y), NEW n \in Nat, y.kids = Append(x.kids, n), ~y.complete,
         NEW k \in Nat, t[n].at = k, x.pos < k,
         y.ready => Level(d, x.at, y.pos) /\ Upto(d, x.at, y.pos) = Upto(d, x.at, x.pos) \union {k},
         ~y.ready => /\ t[n].tag /\ ~t[n].self /\ x.at < k /\ k < Shut(d, x.at) /\ Depth(d, x.at, k - 1) = 1
                     /\ Upto(d, x.at, CloseOf(d, k)) = Upto(d, x.at, x.pos) \union {k}
  PROVE  EntDoc(d, t, y)
<1>1. /\ LastOf(y) = n /\ y.kids # <<>> /\ Len(y.kids) = Len(x.kids) + 1 /\ Len(x.kids) \in Nat
      /\ \A m \in DOMAIN y.kids :
           \/ m \in DOMAIN x.kids /\ y.kids[m] = x.kids[m] /\ m < Len(y.kids)
           \/ m = Len(y.kids) /\ y.kids[m] = n
      /\ \A m \in DOMAIN x.kids : m \in DOMAIN y.kids /\ y.kids[m] = x.kids[m]
      /\ Len(y.kids) \in DOMAIN y.kids /\ y.kids[Len(y.kids)] = n
  BY OneKidMore
<1>2. KidAts(t, y) = KidAts(s, x) \union {k}
  <2>1. KidAts(t, y) \subseteq KidAts(t, x) \union {k}
    BY <1>1 DEF KidAts
  <2>2. KidAts(t, x) \subseteq KidAts(t, y)
    <3> SUFFICES ASSUME NEW m \in DOMAIN x.kids PROVE t[x.kids[m]].at \in KidAts(t, y)
      BY DEF KidAts
    <3>1. m \in DOMAIN y.kids /\ t[y.kids[m]].at = t[x.kids[m]].at
      BY <1>1
    <3> QED  BY <3>1 DEF KidAts
  <2>3. k \in KidAts(t, y)
    BY <1>1 DEF KidAts
  <2> QED  BY <2>1, <2>2, <2>3
<1>3. KidAts(s, x) = Upto(d, x.at, x.pos) /\ TagDoc(d, x)
  BY DEF EntDoc, KidsDoc
<1>4. \A m \in DOMAIN x.kids : s[x.kids[m]].at \in Nat /\ s[x.kids[m]].at < k
  <2> SUFFICES ASSUME NEW m \in DOMAIN x.kids PROVE s[x.kids[m]].at \in Nat /\ s[x.kids[m]].at < k
    OBVIOUS
  <2>1. PICK a : a = s[x.kids[m]].at
    OBVIOUS
  <2>2. a \in Upto(d, x.at, x.pos)
    BY <1>3, <2>1 DEF KidAts
  <2>3. a <= x.pos /\ a \in Nat
    BY <2>2, BracketPlaces DEF Upto, Children, Starters
  <2>4. \A p \in Nat : a <= p /\ p < k => a < k
    BY <2>3
  <2> QED  BY <2>1, <2>3, <2>4, Zenon
<1>5. ASSUME NEW m \in DOMAIN y.kids, NEW h \in DOMAIN y.kids, m < h
      PROVE  t[y.kids[m]].at < t[y.kids[h]].at
  <2>1. m \in DOMAIN x.kids /\ y.kids[m] = x.kids[m]
    <3>1. m \in Nat /\ h \in Nat /\ h <= Len(y.kids) /\ Len(y.kids) \in Nat
      BY <1>1
    <3> QED  BY <1>1, <1>5, <3>1
  <2>2. CASE h = Len(y.kids)
    BY <1>1, <1>4, <2>1, <2>2
  <2>3. CASE h # Len(y.kids)
    <3>1. h \in DOMAIN x.kids /\ y.kids[h] = x.kids[h]
      BY <1>1, <2>3
    <3> QED  BY <1>5, <2>1, <3>1 DEF EntDoc, KidsDoc
  <2> QED  BY <2>2, <2>3
<1>6. ~y.self /\ ~y.error /\ y.tag /\ y.at = x.at
  BY DEF SameHead
<1>7. TagDoc(d, y)
  BY <1>3 DEF TagDoc, SameHead
<1>8. y.ready => Level(d, y.at, y.pos) /\ KidAts(t, y) = Upto(d, y.at, y.pos)
  BY <1>2, <1>3, <1>6
<1>9. ~y.ready => Waiting(d, t, y)
  <2> SUFFICES ASSUME ~y.ready PROVE Waiting(d, t, y)
    OBVIOUS
  <2>1. KidAts(t, y) = Upto(d, y.at, CloseOf(d, t[n].at))
    BY <1>2, <1>3, <1>6
  <2> QED  BY <1>1, <1>6, <2>1 DEF Waiting
<1>10. KidsDoc(d, t, y)
  BY <1>5, <1>6, <1>8, <1>9 DEF KidsDoc
<1> QED  BY <1>6, <1>7, <1>10 DEF EntDoc

\* The closing tag of an element.
LEMMA EndDoc ==
  ASSUME NEW d \in Seq(STRING), WholeTags(d), NEW s, NEW t, NEW x, EntDoc(d, s, x), x.tag, x.ready,
         ~x.complete, ~x.error, ~x.self,
         KidAts(t, x) = KidAts(s, x), \A m \in DOMAIN x.kids : t[x.kids[m]].at = s[x.kids[m]].at,
         NEW y, SameHead(x, y), y.kids = x.kids, y.complete, ~y.ready,
         NEW b \in Brackets(d), FirstBehind(d, x.pos, b), EndTag(d, b), y.pos = CloseOf(d, b)
  PROVE  EntDoc(d, t, y) /\ y.pos = Stop(d, y.at)
<1>1. KidAts(s, x) = Upto(d, x.at, x.pos) /\ Level(d, x.at, x.pos) /\ Whole(d, x.at) /\ TagDoc(d, x)
  BY DEF EntDoc, KidsDoc, TagDoc
<1>2. b = Shut(d, x.at) /\ Upto(d, x.at, x.pos) = Children(d, x.at)
  BY <1>1, EndRead
<1>3. ~y.self /\ ~y.error /\ y.tag /\ y.at = x.at
  BY DEF SameHead
<1>4. TagDoc(d, y)
  BY <1>1 DEF TagDoc, SameHead
<1>5. KidAts(t, y) = Children(d, y.at)
  BY <1>1, <1>2, <1>3 DEF KidAts
<1>6. \A n, m \in DOMAIN y.kids : n < m => t[y.kids[n]].at < t[y.kids[m]].at
  BY DEF EntDoc, KidsDoc
<1>7. KidsDoc(d, t, y)
  BY <1>3, <1>5, <1>6 DEF KidsDoc
<1> QED  BY <1>2, <1>3, <1>4, <1>7 DEF EntDoc, Stop

\* Places do not move.
LEMMA ParseOnePlaces ==
  ASSUME NInv, ParseOne
  PROVE  /\ doc' = doc /\ stray' = stray /\ Me \in DOMAIN ents
         /\ \A e \in DOMAIN ents : e \in DOMAIN ents' /\ ents'[e].at = ents[e].at
<1>1. TInv /\ stack # <<>> /\ stray' = stray /\ ents' = ParseOneEnts /\ GetTag(Mine.pos)
  BY DEF ParseOne, NInv
<1>2. Me \in DOMAIN ents /\ Mine \in Entity /\ Mine.pos \in offsets /\ ents \in Seq(Entity) /\ Len(ents) \in Nat
      /\ DOMAIN ents = 1..Len(ents)
  BY <1>1, TopFacts DEF TInv, TreeTypes
<1>3. doc' = doc
  BY <1>1, <1>2, GetTagKeepsReader DEF TInv
<1>4. \A e \in DOMAIN ents : e # Me => e \in DOMAIN ents' /\ ents'[e] = ents[e]
  BY <1>1, <1>2 DEF ParseOneEnts
<1>5. Me \in DOMAIN ents' /\ ents'[Me].at = Mine.at
  BY <1>1, <1>2 DEF ParseOneEnts, Mine, Entity
<1> QED  BY <1>1, <1>2, <1>3, <1>4, <1>5 DEF Mine

\* A document does not become sound.
LEMMA SoundBefore ==
  ASSUME ents # <<>>, TreeTypes, doc' = doc, stray => stray', 1 \in DOMAIN ents => ents'[1].at = ents[1].at, Sound'
  PROVE  Sound
<1>1. 1 \in DOMAIN ents
  BY DEF TreeTypes
<1> QED  BY <1>1 DEF Sound, WellFormed

\* parseOne() keeps the invariant.
LEMMA ParseOneDoc == NInv /\ DInv /\ ParseOne => DInv'
<1> SUFFICES ASSUME NInv, DInv, ParseOne, Sound' PROVE DocInv(doc', ents', stack')
  BY DEF DInv
<1>0. /\ doc' = doc /\ stray' = stray /\ Me \in DOMAIN ents
      /\ \A e \in DOMAIN ents : e \in DOMAIN ents' /\ ents'[e].at = ents[e].at
  BY ParseOnePlaces
<1>2. Sound
  BY <1>0, SoundBefore DEF NInv, TInv
<1>1. /\ doc' = doc /\ stack' = stack /\ stray' = stray /\ Me \in DOMAIN ents
      /\ \A e \in DOMAIN ents : e \in DOMAIN ents' /\ ents'[e].at = ents[e].at
  <2>1. last'.kind \in {"tag", "text"}
    BY <1>2, ParseOneReads
  <2> QED  BY <1>0, <2>1 DEF ParseOne
<1>3. PICK r, x : r = last' /\ x = Mine
  OBVIOUS
<1>4. /\ x.tag /\ ~x.complete /\ ~x.error /\ x.ready /\ x.self = FALSE /\ r \in Calls
      /\ Whole(doc, x.at) /\ Level(doc, x.at, x.pos) /\ KidAts(ents, x) = Upto(doc, x.at, x.pos)
  BY <1>2, <1>3, ParseOneReads
<1>5. /\ doc \in Seq(STRING) /\ WholeTags(doc) /\ DocInv(doc, ents, stack)
  BY <1>2 DEF NInv, TInv, RInv, ReaderTypeOK, Sound, WellFormed, WellFormedFrom, DInv
<1>6. /\ stack # <<>> /\ Top.at = "inner" /\ x \in Entity /\ x = ents[Me] /\ Len(ents) \in Nat
      /\ DOMAIN ents = 1..Len(ents) /\ x.kids \in Seq(Nat) /\ x.pos \in Nat /\ x.at \in Nat
      /\ \A m \in DOMAIN x.kids : x.kids[m] \in DOMAIN ents /\ x.kids[m] # Me
      /\ EntDoc(doc, ents, x) /\ ents \in Seq(Entity)
  <2>1. TInv /\ stack # <<>> /\ Top.at = "inner" /\ x = ents[Me]
    BY <1>3 DEF ParseOne, NInv, Mine
  <2>2. EntDoc(doc, ents, x)
    BY <1>1, <1>5, <2>1 DEF DocInv
  <2>3. ents \in Seq(Entity) /\ x \in Entity
    BY <1>1, <2>1 DEF TInv, TreeTypes
  <2>4. x.pos \in Nat /\ x.at \in Nat
    BY <2>3 DEF Entity
  <2> QED  BY <1>1, <2>1, <2>2, <2>3, <2>4, KidsIn
<1>7. ASSUME NEW y, ents'[Me] = y, SameHead(x, y), \A e \in DOMAIN ents : e # Me => ents'[e] = ents[e]
      PROVE  /\ KidAts(ents', x) = KidAts(ents, x)
             /\ \A m \in DOMAIN x.kids : ents'[x.kids[m]].at = ents[x.kids[m]].at
             /\ \A m \in DOMAIN x.kids : UnreadIn(ents', x.kids[m]) => UnreadIn(ents, x.kids[m])
  <2>1. PICK t : t = ents'
    OBVIOUS
  <2>2. \A e \in DOMAIN ents : t[e].tag = ents[e].tag /\ t[e].self = ents[e].self /\ t[e].at = ents[e].at
    BY <1>6, <1>7, <2>1 DEF SameHead
  <2>3. KidAts(t, x) = KidAts(ents, x)
    <3>1. PICK s : s = ents
      OBVIOUS
    <3>2. \A m \in DOMAIN x.kids : x.kids[m] \in DOMAIN s
      BY <1>6, <3>1
    <3>3. x.kids \in Seq(Nat)
      BY <1>6
    <3>4. \A e \in DOMAIN s : t[e].tag = s[e].tag /\ t[e].self = s[e].self /\ t[e].at = s[e].at
      BY <2>2, <3>1
    <3>5. KidAts(t, x) = KidAts(s, x)
      BY ONLY <3>2, <3>3, <3>4, SameKids
    <3> QED  BY <3>1, <3>5
  <2>4. \A m \in DOMAIN x.kids : ents'[x.kids[m]] = ents[x.kids[m]]
    BY <1>6, <1>7
  <2> QED  BY <2>1, <2>3, <2>4 DEF UnreadIn
<1>8. CASE TagRead(doc, x.pos, r) /\ EndTag(doc, r.open) /\ Closes(x, r)
  <2>1. PICK y \in Entity : /\ Becomes(Me, y) /\ SameHead(x, y) /\ y.kids = x.kids
                            /\ y.complete /\ ~y.ready /\ y.pos = r.next
    BY <1>8 DEF Closes
  <2>2. /\ DOMAIN ents' = DOMAIN ents /\ ents'[Me] = y
        /\ \A e \in DOMAIN ents : e # Me => ents'[e] = ents[e]
    BY <2>1 DEF Becomes
  <2>3. r.open \in Brackets(doc) /\ FirstBehind(doc, x.pos, r.open) /\ y.pos = CloseOf(doc, r.open)
    BY <1>8, <2>1 DEF TagRead
  <2>4. /\ KidAts(ents', x) = KidAts(ents, x)
        /\ \A m \in DOMAIN x.kids : ents'[x.kids[m]].at = ents[x.kids[m]].at
        /\ \A m \in DOMAIN x.kids : UnreadIn(ents', x.kids[m]) => UnreadIn(ents, x.kids[m])
    BY <1>7, <2>1, <2>2
  <2>5. EntDoc(doc, ents', y) /\ y.pos = Stop(doc, y.at)
    BY <1>4, <1>5, <1>6, <1>8, <2>1, <2>3, <2>4, EndDoc
  <2>6. (\A m \in DOMAIN x.kids : ~UnreadIn(ents, x.kids[m])) => Fresh(doc, ents', y)
    BY <2>1, <2>4, <2>5 DEF Fresh
  <2> QED  BY <1>1, <1>3, <1>4, <1>5, <1>6, <2>1, <2>2, <2>5, <2>6, ReadOnDoc
<1>9. ASSUME NEW z, Grows(x, r, z), NEW k \in Nat, z.at = k, x.pos < k, ~z.error, z.kids = <<>>,
             EntDoc(doc, ents', z), z.tag /\ ~z.complete => z.ready, z.tag /\ ~z.self => ~z.complete,
             StaysReady(z) => /\ Level(doc, x.at, r.next)
                              /\ Upto(doc, x.at, r.next) = Upto(doc, x.at, x.pos) \union {k},
             ~StaysReady(z) =>
               /\ x.at < k /\ k < Shut(doc, x.at) /\ Depth(doc, x.at, k - 1) = 1
               /\ Upto(doc, x.at, CloseOf(doc, k)) = Upto(doc, x.at, x.pos) \union {k}
      PROVE  DocInv(doc', ents', stack')
  <2>1. PICK y \in Entity : /\ Gets(Me, y, z) /\ SameHead(x, y)
                            /\ y.ready = StaysReady(z) /\ y.pos = r.next
    BY <1>9 DEF Grows
  <2>2. PICK n \in Nat : n = Len(ents) + 1
    BY <1>6
  <2>3. /\ DOMAIN ents' = DOMAIN ents \union {n} /\ ents'[Me] = y /\ ents'[n] = z
        /\ \A e \in DOMAIN ents : e # Me => ents'[e] = ents[e]
        /\ y.kids = Append(x.kids, n) /\ ~y.complete
    BY <1>4, <1>6, <2>1, <2>2 DEF Gets
  <2>4. /\ KidAts(ents', x) = KidAts(ents, x)
        /\ \A m \in DOMAIN x.kids : ents'[x.kids[m]].at = ents[x.kids[m]].at
        /\ \A m \in DOMAIN x.kids : UnreadIn(ents', x.kids[m]) => UnreadIn(ents, x.kids[m])
    BY <1>7, <2>1, <2>3
  <2>5. ~y.ready => z.tag /\ ~z.self /\ ~StaysReady(z)
    BY <2>1 DEF StaysReady
  <2>6. EntDoc(doc, ents', y)
    <3>1. y.ready => /\ Level(doc, x.at, y.pos)
                     /\ Upto(doc, x.at, y.pos) = Upto(doc, x.at, x.pos) \union {k}
      BY <1>9, <2>1
    <3>2. ~y.ready => /\ ents'[n].tag /\ ~ents'[n].self
                      /\ x.at < k /\ k < Shut(doc, x.at) /\ Depth(doc, x.at, k - 1) = 1
                      /\ Upto(doc, x.at, CloseOf(doc, k)) = Upto(doc, x.at, x.pos) \union {k}
      BY <1>9, <2>3, <2>5
    <3>3. ents'[n].at = k
      BY <1>9, <2>3
    <3>4. /\ doc \in Seq(STRING) /\ WholeTags(doc) /\ EntDoc(doc, ents, x)
          /\ x.tag /\ x.ready /\ ~x.complete /\ ~x.error /\ ~x.self
          /\ x.kids \in Seq(Nat) /\ x.pos \in Nat /\ x.pos < k
          /\ SameHead(x, y) /\ y.kids = Append(x.kids, n) /\ ~y.complete
      BY <1>4, <1>5, <1>6, <1>9, <2>1, <2>3
    <3>5. PICK s, t : s = ents /\ t = ents'
      OBVIOUS
    <3>6. /\ KidAts(t, x) = KidAts(s, x) /\ EntDoc(doc, s, x) /\ t[n].at = k
          /\ \A m \in DOMAIN x.kids : t[x.kids[m]].at = s[x.kids[m]].at
      BY <2>4, <3>3, <3>4, <3>5
    <3>7. ~y.ready => /\ t[n].tag /\ ~t[n].self
                      /\ x.at < k /\ k < Shut(doc, x.at) /\ Depth(doc, x.at, k - 1) = 1
                      /\ Upto(doc, x.at, CloseOf(doc, k)) = Upto(doc, x.at, x.pos) \union {k}
      BY <3>2, <3>5
    <3>8. EntDoc(doc, t, y)
      BY ONLY n \in Nat, k \in Nat, <3>1, <3>4, <3>6, <3>7, ChildRead
    <3> QED  BY <3>5, <3>8
  <2>7. /\ LastOf(y) = n
        /\ \A m \in DOMAIN y.kids :
             \/ m \in DOMAIN x.kids /\ y.kids[m] = x.kids[m] /\ m < Len(y.kids)
             \/ m = Len(y.kids) /\ y.kids[m] = n
    BY <1>6, <2>3, OneKidMore
  <2>8. ~y.complete /\ ~y.ready => UnreadIn(ents', LastOf(y)) /\ ents'[LastOf(y)].kids = <<>>
    BY <1>9, <2>3, <2>5, <2>7 DEF UnreadIn
  <2>9. (\A m \in DOMAIN x.kids : ~UnreadIn(ents, x.kids[m])) => Fresh(doc, ents', y)
    <3> SUFFICES ASSUME \A m \in DOMAIN x.kids : ~UnreadIn(ents, x.kids[m]),
                        NEW m \in DOMAIN y.kids, UnreadIn(ents', y.kids[m])
                 PROVE  m = Len(y.kids) /\ ~y.ready
      BY <2>3 DEF Fresh
    <3>1. m = Len(y.kids) /\ y.kids[m] = n
      BY <2>4, <2>7
    <3>2. z.tag /\ ~z.complete
      BY <2>3, <3>1 DEF UnreadIn
    <3>3. ~z.self
      BY <1>9, <3>2 DEF EntDoc, KidsDoc
    <3> QED  BY <2>1, <3>1, <3>2, <3>3 DEF StaysReady
  <2>10. \A e \in DOMAIN ents' : e \in DOMAIN ents \/
            (EntDoc(doc, ents', ents'[e]) /\ (ents'[e].tag /\ ~ents'[e].complete => ents'[e].ready))
    BY <1>9, <2>3
  <2> QED  BY <1>1, <1>3, <1>4, <1>5, <1>6, <2>1, <2>3, <2>6, <2>8, <2>9, <2>10, ReadOnDoc
<1>10. CASE TagRead(doc, x.pos, r) /\ ~EndTag(doc, r.open) /\ Grows(x, r, TagEntity(r))
  <2>1. PICK z : z = TagEntity(r)
    OBVIOUS
  <2>2. PICK k \in Nat : k = r.open
    BY <1>4 DEF Calls
  <2>3. k \in Brackets(doc) /\ FirstBehind(doc, x.pos, k) /\ r.next = CloseOf(doc, k) /\ ~EndTag(doc, k)
    BY <1>10, <2>2 DEF TagRead
  <2>4. /\ x.pos < k /\ x.at < k /\ k < Shut(doc, x.at) /\ Depth(doc, x.at, k - 1) = 1
        /\ Upto(doc, x.at, CloseOf(doc, k)) = Upto(doc, x.at, x.pos) \union {k}
    BY <1>4, <1>5, <2>3, TagChild
  <2>5. EmptyTag(doc, k) => Level(doc, x.at, CloseOf(doc, k)) /\ Children(doc, k) = {}
    BY <1>4, <1>5, <2>3, LoneChild
  <2>6. ~EmptyTag(doc, k) => Whole(doc, k)
    BY <1>4, <1>5, <2>3, <2>4, WholeWithin DEF IsOpen
  <2>7. r.asked = x.pos
    BY <1>1, <1>3, <1>6, GetTagKeepsReader, TopFacts DEF ParseOne, NInv, TInv
  <2>8. /\ EntDoc(doc, ents', z) /\ z.self = EmptyTag(doc, k)
        /\ ~EmptyTag(doc, k) => ~z.complete /\ z.ready
    BY <1>5, <1>10, <2>1, <2>2, <2>3, <2>5, <2>6, <2>7, NewTagDoc
  <2>9. z.at = k /\ ~z.error /\ z.kids = <<>> /\ z.ready /\ z.tag
    BY <2>1, <2>2 DEF TagEntity
  <2>10. StaysReady(z) <=> EmptyTag(doc, k)
    BY <2>8, <2>9 DEF StaysReady
  <2> QED  BY <1>9, <1>10, <2>1, <2>3, <2>4, <2>5, <2>8, <2>9, <2>10
<1>11. CASE TextRead(doc, x.pos, r) /\ Grows(x, r, TextEntity(r))
  <2>1. PICK z : z = TextEntity(r)
    OBVIOUS
  <2>2. PICK k \in Nat, j \in Nat : k = r.open /\ j = r.close
    BY <1>4 DEF Calls
  <2>3. /\ FirstBehind(doc, x.pos, k) /\ doc[k] # "<" /\ k < j /\ doc[j] = "<" /\ r.next = j - 1
        /\ \A h \in Nat : k < h /\ h < j => doc[h] # "<"
    BY <1>11, <2>2 DEF TextRead
  <2>4. x.pos < k /\ Level(doc, x.at, j - 1) /\ Upto(doc, x.at, j - 1) = Upto(doc, x.at, x.pos) \union {k}
    BY <1>4, <1>5, <2>3, TextChild
  <2>5. z.at = k /\ ~z.error /\ z.kids = <<>> /\ ~z.complete /\ ~z.tag
    BY <2>1, <2>2 DEF TextEntity
  <2>6. EntDoc(doc, ents', z) /\ StaysReady(z)
    BY <2>5 DEF EntDoc, StaysReady
  <2> QED  BY <1>9, <1>11, <2>1, <2>3, <2>4, <2>5, <2>6
<1> QED  BY <1>2, <1>3, <1>8, <1>10, <1>11, ParseOneShape

\* A step in a sound document, and what held before it.
LEMMA DocStep ==
  ASSUME NInv, DInv, doc' = doc, stray => stray', ents # <<>>,
         1 \in DOMAIN ents => ents'[1].at = ents[1].at,
         Sound'
  PROVE  /\ DocInv(doc, ents, stack) /\ doc \in Seq(STRING) /\ WholeTags(doc)
<1>1. Sound
  BY SoundBefore DEF NInv, TInv
<1> QED  BY <1>1 DEF DInv, NInv, TInv, RInv, ReaderTypeOK, Sound, WellFormed, WellFormedFrom

-----------------------------------------------------------------------------
(* The calls that move on *)

\* Goto() moves the innermost call alone.
LEMMA GotoFrames ==
  ASSUME NInv, stack # <<>>, NEW place \in Places, Goto(place)
  PROVE  /\ 1 \in DOMAIN stack /\ DOMAIN stack' = DOMAIN stack /\ Len(stack') = Len(stack) /\ stack' # <<>>
         /\ Len(stack) \in Nat /\ DOMAIN stack = 1..Len(stack)
         /\ \A n \in DOMAIN stack : stack'[n].op = stack[n].op /\ stack'[n].ent = stack[n].ent
         /\ \A n \in DOMAIN stack : n # 1 => stack'[n] = stack[n]
         /\ stack'[1].at = place
<1>1. stack \in Seq(Frames)
  BY DEF NInv, TInv, TreeTypes
<1>2. PICK s : s = [stack EXCEPT ![1].at = place]
  OBVIOUS
<1>3. /\ 1 \in DOMAIN stack /\ DOMAIN s = DOMAIN stack /\ Len(s) = Len(stack) /\ s # <<>>
      /\ Len(stack) \in Nat /\ DOMAIN stack = 1..Len(stack)
      /\ \A n \in DOMAIN stack : n # 1 => s[n] = stack[n]
      /\ s[1] = [stack[1] EXCEPT !.at = place] /\ stack[1] \in Frames
  BY <1>1, <1>2
<1>4. s[1].op = stack[1].op /\ s[1].ent = stack[1].ent /\ s[1].at = place
  BY <1>3 DEF Frames
<1>5. stack' = s
  BY <1>2 DEF Goto
<1> QED  BY <1>3, <1>4, <1>5

\* The other calls of the same entity are getNextTag()'s.
LEMMA SameEntity ==
  ASSUME NInv, DocInv(doc, ents, stack), NEW n \in DOMAIN stack, n # 1, stack[n].ent = Me
  PROVE  stack[n].op = "getNextTag" /\ stack[n].at \in {"outer", "return"}
<1>1. /\ NestOK(stack) /\ stack \in Seq(Frames) /\ stack # <<>> /\ 1 \in DOMAIN stack
      /\ n \in Nat /\ 1 < n /\ Me = stack[1].ent
  BY DEF NInv, TInv, TreeTypes, Me, Top
<1>2. stack[n].op = "getNextTag" \/ stack[n].ent < stack[1].ent
  BY <1>1 DEF NestOK
<1>3. stack[1].ent \in Nat
  <2>1. stack[1] \in Frames
    BY <1>1
  <2> QED  BY <2>1 DEF Frames
<1>4. stack[n].op = "getNextTag"
  BY <1>1, <1>2, <1>3
<1>5. FrameDoc(ents, stack[n])
  BY DEF DocInv
<1> QED  BY <1>4, <1>5 DEF FrameDoc

\* An entity that no parse() or getNext() is in can be read on.
LEMMA MineReady ==
  ASSUME NInv, DocInv(doc, ents, stack), stack # <<>>, Top.at \in {"outer", "return"}, ~Mine.complete
  PROVE  Mine.ready
<1> SUFFICES ASSUME ~Mine.ready PROVE FALSE
  OBVIOUS
<1>1. Me \in DOMAIN ents /\ Mine = ents[Me] /\ Mine.tag
  BY TopFacts DEF NInv, Mine
<1>2. PICK n \in DOMAIN stack : stack[n].ent = Me /\ stack[n].at \in {"inner", "sub"}
  BY <1>1 DEF DocInv, Awaited
<1>3. n # 1
  BY <1>2 DEF Top
<1> QED  BY <1>2, <1>3, SameEntity

\* A call that moves on to a place, the entities left alone.
LEMMA GotoDoc ==
  ASSUME NInv, DocInv(doc, ents, stack), stack # <<>>, ents' = ents, doc' = doc,
         NEW place \in Places, Goto(place),
         place = "inner" => ~Mine.error /\ ~Mine.complete,
         place = "sub" => ~Mine.ready,
         Top.op = "getNextTag" => place \in {"outer", "return"},
         Top.at \in {"inner", "sub"} => place \in {"inner", "sub"} \/ Mine.complete,
         place \in {"inner", "sub"} /\ ~Mine.complete /\ ~Mine.ready => Top.at \in {"inner", "sub"}
  PROVE  DocInv(doc', ents', stack')
<1>1. /\ 1 \in DOMAIN stack /\ DOMAIN stack' = DOMAIN stack /\ Len(stack') = Len(stack) /\ stack' # <<>>
      /\ Len(stack) \in Nat /\ DOMAIN stack = 1..Len(stack)
      /\ \A n \in DOMAIN stack : stack'[n].op = stack[n].op /\ stack'[n].ent = stack[n].ent
      /\ \A n \in DOMAIN stack : n # 1 => stack'[n] = stack[n]
      /\ stack'[1].at = place
  BY GotoFrames
<1>2. Me = stack[1].ent /\ Mine = ents[Me] /\ Top = stack[1]
  BY DEF Me, Mine, Top
<1>3. \A n \in DOMAIN stack' : FrameDoc(ents', stack'[n])
  <2> SUFFICES ASSUME NEW n \in DOMAIN stack PROVE FrameDoc(ents, stack'[n])
    BY <1>1
  <2>1. CASE n = 1
    BY <1>1, <1>2, <2>1 DEF FrameDoc
  <2>2. CASE n # 1
    BY <1>1, <2>2 DEF DocInv
  <2> QED  BY <2>1, <2>2
<1>4. CallersOK(stack')
  <2>1. CallersOK(stack)
    BY DEF DocInv
  <2>2. \A n \in 1..(Len(stack') - 1) : /\ n \in 1..(Len(stack) - 1)
                                        /\ stack'[n].op = stack[n].op /\ stack'[n + 1].op = stack[n + 1].op
    BY <1>1
  <2> QED  BY <2>1, <2>2 DEF CallersOK
<1>5. Awaited(ents', stack')
  <2> SUFFICES ASSUME NEW e \in DOMAIN ents, ents[e].tag /\ ~ents[e].complete /\ ~ents[e].ready
               PROVE  \E n \in DOMAIN stack : stack'[n].ent = e /\ stack'[n].at \in {"inner", "sub"}
    BY <1>1 DEF Awaited
  <2>1. PICK n \in DOMAIN stack : stack[n].ent = e /\ stack[n].at \in {"inner", "sub"}
    BY DEF DocInv, Awaited
  <2>2. CASE n = 1
    BY <1>1, <1>2, <2>1, <2>2
  <2>3. CASE n # 1
    BY <1>1, <2>1, <2>3
  <2> QED  BY <2>2, <2>3
<1>6. TopDoc(doc', ents', stack')
  <2>1. TopDoc(doc, ents, stack)
    BY DEF DocInv
  <2> QED  BY <1>1, <1>2, <2>1 DEF TopDoc
<1>7. SubCalls(doc', ents', stack')
  <2>1. SubCalls(doc, ents, stack)
    BY DEF DocInv
  <2>2. \A n \in 1..(Len(stack') - 1) :
           /\ n \in 1..(Len(stack) - 1) /\ stack'[n].op = stack[n].op
           /\ stack'[n].ent = stack[n].ent /\ stack'[n + 1].ent = stack[n + 1].ent
    BY <1>1
  <2> QED  BY <2>1, <2>2 DEF SubCalls
<1>8. \A e \in DOMAIN ents' : EntDoc(doc', ents', ents'[e])
  BY DEF DocInv
<1> QED  BY <1>3, <1>4, <1>5, <1>6, <1>7, <1>8 DEF DocInv

\* From the inner loop to parseSub(), and from the outer loop to the inner.
LEMMA LeaveInnerDoc ==
  ASSUME NInv, DocInv(doc, ents, stack), LeaveInner
  PROVE  DocInv(doc', ents', stack')
<1>1. /\ stack # <<>> /\ Top.at = "inner" /\ ~Reading /\ ents' = ents /\ doc' = doc
  BY DEF LeaveInner, readerVars
<1>2. PICK place : place = IF Top.op = "getNext" /\ Mine.complete THEN "return" ELSE "sub"
  OBVIOUS
<1>3. Goto(place) /\ place \in Places
  BY <1>2 DEF LeaveInner, Places
<1>4. FrameDoc(ents, Top)
  <2>1. 1 \in DOMAIN stack
    BY <1>1 DEF NInv, TInv, TreeTypes
  <2> QED  BY <2>1 DEF DocInv, Top
<1>5. ~Mine.error /\ (Mine.complete => ~Mine.ready) /\ Top.op # "getNextTag"
  BY <1>1, <1>4 DEF FrameDoc, Mine, Me
<1>6. ~Mine.ready
  BY <1>1, <1>5 DEF Reading
<1> QED  BY <1>1, <1>2, <1>3, <1>5, <1>6, GotoDoc

LEMMA ParseAgainDoc ==
  ASSUME NInv, DocInv(doc, ents, stack), ParseAgain
  PROVE  DocInv(doc', ents', stack')
<1>1. /\ stack # <<>> /\ Top.op = "parse" /\ Top.at = "outer" /\ ents' = ents /\ doc' = doc
      /\ ~Mine.complete /\ ~Mine.error /\ Goto("inner") /\ "inner" \in Places
  BY DEF ParseAgain, readerVars, Places
<1>2. Mine.ready
  BY <1>1, MineReady
<1> QED  BY <1>1, <1>2, GotoDoc

\* Only the user calls getNextTag(), so nothing waits under it.
LEMMA BottomTag ==
  ASSUME NInv, DocInv(doc, ents, stack), stack # <<>>, Top.op = "getNextTag"
  PROVE  Len(stack) = 1 /\ DOMAIN stack = {1}
<1>1. stack \in Seq(Frames) /\ Len(stack) \in Nat /\ DOMAIN stack = 1..Len(stack) /\ 1 \in DOMAIN stack
  BY DEF NInv, TInv, TreeTypes
<1>2. ASSUME Len(stack) > 1 PROVE FALSE
  <2>1. 1 \in 1..(Len(stack) - 1)
    BY <1>1, <1>2
  <2> QED  BY <2>1 DEF DocInv, CallersOK, Top
<1> QED  BY <1>1, <1>2

\* A call that returns, the entities left alone but for the parent's place.
LEMMA TailFrames ==
  ASSUME NInv, stack # <<>>, stack' = Tail(stack)
  PROVE  /\ stack \in Seq(Frames) /\ Len(stack) \in Nat /\ DOMAIN stack = 1..Len(stack) /\ 1 \in DOMAIN stack
         /\ Len(stack') = Len(stack) - 1 /\ DOMAIN stack' = 1..(Len(stack) - 1)
         /\ \A n \in DOMAIN stack' : n \in Nat /\ n + 1 \in DOMAIN stack /\ stack'[n] = stack[n + 1]
         /\ \A n \in DOMAIN stack : n # 1 => n - 1 \in DOMAIN stack' /\ stack'[n - 1] = stack[n]
         /\ \A n \in 1..(Len(stack') - 1) : /\ n + 1 \in 1..(Len(stack) - 1) /\ n + 1 > 1
                                            /\ stack'[n] = stack[n + 1] /\ stack'[n + 1] = stack[(n + 1) + 1]
<1>1. PICK s : s = stack
  OBVIOUS
<1>2. s \in Seq(Frames) /\ s # <<>> /\ stack' = Tail(s)
  BY <1>1 DEF NInv, TInv, TreeTypes
<1>3. PICK t : t = Tail(s)
  OBVIOUS
<1>4. /\ Len(s) \in Nat /\ DOMAIN s = 1..Len(s) /\ 1 \in DOMAIN s
      /\ Len(t) = Len(s) - 1 /\ DOMAIN t = 1..(Len(s) - 1)
      /\ \A n \in 1..(Len(s) - 1) : t[n] = s[n + 1]
  BY <1>2, <1>3
<1>5. \A n \in DOMAIN s : n # 1 => n - 1 \in 1..(Len(s) - 1) /\ s[(n - 1) + 1] = s[n]
  BY <1>4
<1>6. \A n \in DOMAIN s : n # 1 => n - 1 \in DOMAIN t /\ t[n - 1] = s[n]
  BY <1>4, <1>5
<1>7. \A n \in 1..(Len(t) - 1) : /\ n + 1 \in 1..(Len(s) - 1) /\ n + 1 > 1
                                 /\ t[n] = s[n + 1] /\ t[n + 1] = s[(n + 1) + 1]
  BY <1>4
<1>8. \A n \in DOMAIN t : n \in Nat /\ n + 1 \in DOMAIN s /\ t[n] = s[n + 1]
  BY <1>4
<1> QED  BY <1>1, <1>2, <1>3, <1>4, <1>6, <1>7, <1>8

LEMMA TailDoc ==
  ASSUME NInv, DocInv(doc, ents, stack), stack # <<>>, stack' = Tail(stack), ents' = ents, doc' = doc,
         Top.at \in {"outer", "return"}, Top.op # "parse"
  PROVE  DocInv(doc', ents', stack')
<1>1. /\ stack \in Seq(Frames) /\ Len(stack) \in Nat /\ DOMAIN stack = 1..Len(stack) /\ 1 \in DOMAIN stack
      /\ Len(stack') = Len(stack) - 1 /\ DOMAIN stack' = 1..(Len(stack) - 1)
      /\ \A n \in DOMAIN stack' : n \in Nat /\ n + 1 \in DOMAIN stack /\ stack'[n] = stack[n + 1]
      /\ \A n \in DOMAIN stack : n # 1 => n - 1 \in DOMAIN stack' /\ stack'[n - 1] = stack[n]
      /\ \A n \in 1..(Len(stack') - 1) : /\ n + 1 \in 1..(Len(stack) - 1) /\ n + 1 > 1
                                         /\ stack'[n] = stack[n + 1] /\ stack'[n + 1] = stack[(n + 1) + 1]
  BY TailFrames
<1>2. \A n \in DOMAIN stack' : FrameDoc(ents', stack'[n])
  BY <1>1 DEF DocInv
<1>3. CallersOK(stack')
  <2>1. CallersOK(stack)
    BY DEF DocInv
  <2> QED  BY <1>1, <2>1 DEF CallersOK
<1>4. Awaited(ents', stack')
  <2> SUFFICES ASSUME NEW e \in DOMAIN ents, ents[e].tag /\ ~ents[e].complete /\ ~ents[e].ready
               PROVE  \E n \in DOMAIN stack' : stack'[n].ent = e /\ stack'[n].at \in {"inner", "sub"}
    BY DEF Awaited
  <2>1. PICK n \in DOMAIN stack : stack[n].ent = e /\ stack[n].at \in {"inner", "sub"}
    BY DEF DocInv, Awaited
  <2>2. n # 1
    BY <2>1 DEF Top
  <2> QED  BY <1>1, <2>1, <2>2
<1>5. TopDoc(doc', ents', stack')
  <2>1. ASSUME stack' # <<>> PROVE stack'[1].at \in {"outer", "return"}
    <3>1. 1 \in 1..(Len(stack) - 1) /\ 1 \in DOMAIN stack'
      <4>1. Len(stack') # 0
        BY <1>1, <2>1
      <4> QED  BY <1>1, <4>1
    <3>2. stack[1 + 1].op = "getNextTag"
      BY <3>1 DEF DocInv, CallersOK, Top
    <3>3. 1 + 1 \in DOMAIN stack /\ stack'[1] = stack[1 + 1]
      BY <1>1, <3>1
    <3>4. FrameDoc(ents, stack[1 + 1])
      BY <3>3 DEF DocInv
    <3> QED  BY <3>2, <3>3, <3>4 DEF FrameDoc
  <2> QED  BY <2>1 DEF TopDoc
<1>6. SubCalls(doc', ents', stack')
  <2>1. SubCalls(doc, ents, stack)
    BY DEF DocInv
  <2> SUFFICES ASSUME NEW n \in 1..(Len(stack') - 1), stack'[n].op = "parse"
               PROVE  /\ stack'[n].ent = LastOf(ents[stack'[n + 1].ent])
                      /\ ~ents[stack'[n + 1].ent].complete =>
                           Fresh(doc, ents, ents[stack'[n].ent]) /\ ~ents[stack'[n].ent].complete
    BY DEF SubCalls
  <2> QED  BY <1>1, <2>1 DEF SubCalls
<1>7. \A e \in DOMAIN ents' : EntDoc(doc', ents', ents'[e])
  BY DEF DocInv
<1> QED  BY <1>2, <1>3, <1>4, <1>5, <1>6, <1>7 DEF DocInv

\* getNext() and getNextTag() return.
LEMMA NextReturnsDoc ==
  ASSUME NInv, DocInv(doc, ents, stack), NextReturns \/ NextTagGot \/ NextTagEnds
  PROVE  DocInv(doc', ents', stack')
<1>1. /\ stack # <<>> /\ ents' = ents /\ doc' = doc
      /\ Top.at \in {"outer", "return"} /\ Top.op # "parse"
      /\ stack' = Tail(stack) \/ (Goto("outer") /\ Top.op = "getNextTag")
  BY DEF NextReturns, NextTagGot, NextTagEnds, readerVars
<1>2. CASE stack' = Tail(stack)
  BY <1>1, <1>2, TailDoc
<1>3. CASE Goto("outer") /\ Top.op = "getNextTag"
  <2>1. "outer" \in Places
    BY DEF Places
  <2> QED  BY <1>1, <1>3, <2>1, GotoDoc
<1> QED  BY <1>1, <1>2, <1>3

\* One call more.
LEMMA MoreFrames ==
  ASSUME NEW s \in Seq(Frames), NEW f \in Frames, NEW t, t = <<f>> \o s
  PROVE  /\ Len(s) \in Nat /\ DOMAIN s = 1..Len(s) /\ t # <<>> /\ Len(t) = Len(s) + 1 /\ DOMAIN t = 1..(Len(s) + 1)
         /\ t[1] = f /\ \A n \in DOMAIN s : n \in Nat /\ n + 1 \in DOMAIN t /\ t[n + 1] = s[n]
         /\ \A n \in DOMAIN t : n = 1 \/ (n - 1 \in DOMAIN s /\ t[n] = s[n - 1])
         /\ \A n \in 1..(Len(t) - 1) :
              \/ n = 1 /\ s # <<>> /\ t[n] = f /\ t[n + 1] = s[1] /\ 1 \in DOMAIN s
              \/ \E m \in 1..(Len(s) - 1) :
                   n = m + 1 /\ m \in Nat /\ t[n] = s[m] /\ t[n + 1] = s[m + 1]
<1>1. /\ Len(s) \in Nat /\ DOMAIN s = 1..Len(s) /\ t # <<>> /\ Len(t) = Len(s) + 1 /\ DOMAIN t = 1..(Len(s) + 1)
      /\ t[1] = f /\ \A n \in 1..Len(s) : t[n + 1] = s[n]
  OBVIOUS
<1>2. \A n \in DOMAIN t : n = 1 \/ (n - 1 \in DOMAIN s /\ t[n] = s[n - 1])
  <2> SUFFICES ASSUME NEW n \in DOMAIN t, n # 1 PROVE n - 1 \in DOMAIN s /\ t[n] = s[n - 1]
    OBVIOUS
  <2>1. n - 1 \in 1..Len(s) /\ (n - 1) + 1 = n
    BY <1>1
  <2>2. t[(n - 1) + 1] = s[n - 1]
    BY <1>1, <2>1
  <2> QED  BY <1>1, <2>1, <2>2
<1>3. ASSUME NEW n \in 1..(Len(t) - 1)
      PROVE  \/ n = 1 /\ s # <<>> /\ t[n] = f /\ t[n + 1] = s[1] /\ 1 \in DOMAIN s
             \/ \E m \in 1..(Len(s) - 1) :
                  n = m + 1 /\ m \in Nat /\ t[n] = s[m] /\ t[n + 1] = s[m + 1]
  <2>0. n \in Nat /\ n >= 1 /\ n <= Len(s)
    BY <1>1
  <2>1. CASE n = 1
    <3>1. 1 \in 1..Len(s)
      BY <1>1, <2>0, <2>1
    <3> QED  BY <1>1, <2>1, <3>1
  <2>2. CASE n # 1
    <3>1. PICK m \in 1..(Len(s) - 1) : n = m + 1 /\ m \in Nat
      <4>1. n - 1 \in 1..(Len(s) - 1) /\ n = (n - 1) + 1 /\ n - 1 \in Nat
        BY <1>1, <2>0, <2>2
      <4> QED  BY <4>1
    <3>2. m \in 1..Len(s) /\ m + 1 \in 1..Len(s)
      BY <1>1, <3>1
    <3>3. t[m + 1] = s[m] /\ t[(m + 1) + 1] = s[m + 1]
      BY <1>1, <3>2
    <3> QED  BY <3>1, <3>3
  <2> QED  BY <2>1, <2>2
<1>4. \A n \in DOMAIN s : n \in Nat /\ n + 1 \in DOMAIN t /\ t[n + 1] = s[n]
  BY <1>1
<1> QED  BY <1>1, <1>2, <1>3, <1>4

\* parse() for a child not yet read, which has no children yet.
LEMMA SubCallDoc ==
  ASSUME NInv, DocInv(doc, ents, stack), SubCall
  PROVE  DocInv(doc', ents', stack')
<1>1. /\ stack # <<>> /\ Top.at = "sub" /\ ~Mine.ready /\ Mine.inserted # Npos /\ Unread(LastKid)
      /\ stack' = <<Frame("parse", LastKid, "outer")>> \o stack /\ ents' = ents /\ doc' = doc
  BY DEF SubCall, readerVars
<1>2. /\ stack \in Seq(Frames) /\ Me \in DOMAIN ents /\ Mine = ents[Me] /\ EntOK(Mine, Me) /\ TInv
      /\ Top = stack[1] /\ Me = stack[1].ent /\ 1 \in DOMAIN stack /\ Mine \in Entity
  BY <1>1, TopFacts DEF NInv, Mine, Me, Top
<1>3. PICK k : k = LastKid
  OBVIOUS
<1>4. Mine.kids # <<>> /\ Mine.inserted = Len(Mine.kids)
  BY <1>1, <1>2 DEF EntOK
<1>5. k = LastOf(Mine) /\ k \in DOMAIN ents /\ UnreadIn(ents, k) /\ k \in Nat
  <2>1. k = LastOf(Mine) /\ UnreadIn(ents, k)
    BY <1>1, <1>3, <1>4 DEF LastKid, LastOf, Unread, UnreadIn
  <2>2. k \in DOMAIN ents
    BY <1>2, <1>4, <2>1, KidsIn
  <2> QED  BY <1>2, <2>1, <2>2, KidsIn
<1>6. PICK f : f = Frame("parse", k, "outer")
  OBVIOUS
<1>7. f \in Frames /\ f.op = "parse" /\ f.ent = k /\ f.at = "outer"
  <2>1. Len(ents[k].kids) \in Nat
    BY <1>2, <1>5, KidsIn
  <2> QED  BY <1>5, <1>6, <2>1 DEF Frame, Frames, Ops, Places
<1>8. PICK s, t : s = stack /\ t = stack'
  OBVIOUS
<1>9. s \in Seq(Frames) /\ t = <<f>> \o s
  BY <1>1, <1>2, <1>3, <1>6, <1>8
<1>10. /\ t[1] = f /\ t # <<>> /\ \A n \in DOMAIN s : n \in Nat /\ n + 1 \in DOMAIN t /\ t[n + 1] = s[n]
       /\ \A n \in DOMAIN t : n = 1 \/ (n - 1 \in DOMAIN s /\ t[n] = s[n - 1])
       /\ \A n \in 1..(Len(t) - 1) :
            \/ n = 1 /\ s # <<>> /\ t[n] = f /\ t[n + 1] = s[1] /\ 1 \in DOMAIN s
            \/ \E m \in 1..(Len(s) - 1) :
                 n = m + 1 /\ m \in Nat /\ t[n] = s[m] /\ t[n + 1] = s[m + 1]
  BY <1>7, <1>9, MoreFrames
<1>11. DocInv(doc, ents, s)
  BY <1>8
<1>12. \A n \in DOMAIN t : FrameDoc(ents, t[n])
  <2>1. FrameDoc(ents, f)
    BY <1>7 DEF FrameDoc
  <2> QED  BY <1>10, <1>11, <2>1 DEF DocInv
<1>13. CallersOK(t)
  <2> SUFFICES ASSUME NEW n \in 1..(Len(t) - 1)
               PROVE  t[n].op = "parse" \/ (t[n].op = "getNext" /\ t[n + 1].op = "getNextTag")
    BY DEF CallersOK
  <2> QED  BY <1>7, <1>10, <1>11 DEF DocInv, CallersOK
<1>14. Awaited(ents, t)
  <2> SUFFICES ASSUME NEW e \in DOMAIN ents, ents[e].tag /\ ~ents[e].complete /\ ~ents[e].ready
               PROVE  \E n \in DOMAIN t : t[n].ent = e /\ t[n].at \in {"inner", "sub"}
    BY DEF Awaited
  <2>1. PICK n \in DOMAIN s : s[n].ent = e /\ s[n].at \in {"inner", "sub"}
    BY <1>11 DEF DocInv, Awaited
  <2>2. n + 1 \in DOMAIN t /\ t[n + 1].ent = e /\ t[n + 1].at \in {"inner", "sub"}
    BY <1>10, <2>1
  <2> QED  BY <2>2
<1>15. TopDoc(doc, ents, t)
  BY <1>7, <1>10 DEF TopDoc
<1>16. SubCalls(doc, ents, t)
  <2> SUFFICES ASSUME NEW n \in 1..(Len(t) - 1), t[n].op = "parse"
               PROVE  /\ t[n].ent = LastOf(ents[t[n + 1].ent])
                      /\ ~ents[t[n + 1].ent].complete =>
                           Fresh(doc, ents, ents[t[n].ent]) /\ (n > 1 => ~ents[t[n].ent].complete)
    BY DEF SubCalls
  <2>1. CASE n = 1
    <3>1. t[n].ent = k /\ ents[t[n + 1].ent] = Mine
      BY <1>2, <1>7, <1>8, <1>10, <2>1
    <3>2. ASSUME ~Mine.complete PROVE Fresh(doc, ents, ents[k])
      <4>1. ents[k].kids = <<>>
        BY <1>1, <1>2, <1>5, <3>2 DEF DocInv, TopDoc
      <4>2. ~ents[k].complete
        BY <1>5 DEF UnreadIn
      <4> QED  BY <4>1, <4>2 DEF Fresh
    <3> QED  BY <1>5, <2>1, <3>1, <3>2
  <2>2. ASSUME NEW m \in 1..(Len(s) - 1), n = m + 1, m \in Nat, t[n] = s[m], t[n + 1] = s[m + 1]
        PROVE  /\ t[n].ent = LastOf(ents[t[n + 1].ent])
               /\ ~ents[t[n + 1].ent].complete =>
                    Fresh(doc, ents, ents[t[n].ent]) /\ ~ents[t[n].ent].complete
    <3>1. /\ s[m].ent = LastOf(ents[s[m + 1].ent])
          /\ ~ents[s[m + 1].ent].complete =>
               Fresh(doc, ents, ents[s[m].ent]) /\ (m > 1 => ~ents[s[m].ent].complete)
      BY <1>11, <2>2 DEF DocInv, SubCalls
    <3>2. m = 1 \/ m > 1
      BY <2>2
    <3>3. ASSUME m = 1, Fresh(doc, ents, Mine) PROVE ~Mine.complete
      <4>1. Len(Mine.kids) \in DOMAIN Mine.kids
        BY <1>2, <1>4, KidsIn
      <4>2. UnreadIn(ents, Mine.kids[Len(Mine.kids)])
        BY <1>5 DEF LastOf
      <4> QED  BY <3>3, <4>1, <4>2 DEF Fresh
    <3>4. m = 1 => ents[s[m].ent] = Mine
      BY <1>2, <1>8
    <3> QED  BY <2>2, <3>1, <3>2, <3>3, <3>4
  <2> QED  BY <1>10, <2>1, <2>2
<1>17. \A e \in DOMAIN ents : EntDoc(doc, ents, ents[e])
  BY DEF DocInv
<1>18. DocInv(doc, ents, t)
  BY <1>12, <1>13, <1>14, <1>15, <1>16, <1>17 DEF DocInv
<1> QED  BY <1>1, <1>8, <1>18

\* The first call of a user, or the getNext() of a getNextTag().
LEMMA OneCallDoc ==
  ASSUME NEW d, NEW s, \A e \in DOMAIN s : EntDoc(d, s, s[e]),
         \A e \in DOMAIN s : s[e].tag /\ ~s[e].complete => s[e].ready,
         NEW st, st = <<>> \/ (Len(st) = 1 /\ DOMAIN st = {1}),
         st # <<>> => /\ FrameDoc(s, st[1]) /\ st[1].ent \in DOMAIN s /\ s[st[1].ent].tag
  PROVE  DocInv(d, s, st)
<1>1. 1..(Len(st) - 1) = {} /\ DOMAIN st \subseteq {1} /\ (st = <<>> => DOMAIN st = {})
  <2>1. CASE st = <<>>
    <3>1. Len(<<>>) = 0 /\ DOMAIN <<>> = {} /\ 1..(0 - 1) = {}
      OBVIOUS
    <3> QED  BY <2>1, <3>1
  <2>2. CASE st # <<>> /\ Len(st) = 1 /\ DOMAIN st = {1}
    <3>1. 1..(1 - 1) = {}
      OBVIOUS
    <3> QED  BY <2>2, <3>1
  <2> QED  BY <2>1, <2>2
<1>2. \A n \in DOMAIN st : FrameDoc(s, st[n])
  BY <1>1
<1>3. Awaited(s, st) /\ CallersOK(st) /\ SubCalls(d, s, st)
  BY <1>1 DEF Awaited, CallersOK, SubCalls
<1>4. TopDoc(d, s, st)
  BY DEF TopDoc
<1> QED  BY <1>2, <1>3, <1>4 DEF DocInv

\* getNextTag() calls getNext().
LEMMA NextTagCallsDoc ==
  ASSUME NInv, DocInv(doc, ents, stack), NextTagCalls
  PROVE  DocInv(doc', ents', stack')
<1>1. /\ stack # <<>> /\ Top.op = "getNextTag" /\ Top.at = "outer" /\ ~Mine.complete /\ ~Mine.error
      /\ stack' = <<Frame("getNext", Me, "inner")>> \o [stack EXCEPT ![1].at = "return"]
      /\ ents' = ents /\ doc' = doc
  BY DEF NextTagCalls, readerVars
<1>2. /\ stack \in Seq(Frames) /\ Me \in DOMAIN ents /\ Mine = ents[Me] /\ TInv
      /\ Top = stack[1] /\ Me = stack[1].ent /\ 1 \in DOMAIN stack /\ Mine \in Entity /\ Me \in Nat
  BY <1>1, TopFacts, KidsIn DEF NInv, Mine, Me, Top
<1>3. Len(stack) = 1 /\ DOMAIN stack = {1} /\ Mine.ready
  BY <1>1, BottomTag, MineReady
<1>4. PICK f, s : f = Frame("getNext", Me, "inner") /\ s = [stack EXCEPT ![1].at = "return"]
  OBVIOUS
<1>5. f \in Frames /\ f.op = "getNext" /\ f.ent = Me /\ f.at = "inner"
  <2>1. Len(Mine.kids) \in Nat
    BY <1>2, KidsIn
  <2> QED  BY <1>2, <1>4, <2>1 DEF Frame, Frames, Ops, Places
<1>6. /\ s \in Seq(Frames) /\ Len(s) = 1 /\ DOMAIN s = {1} /\ s[1].op = "getNextTag" /\ s[1].at = "return"
      /\ s # <<>>
  <2>1. stack[1] \in Frames
    BY <1>2
  <2>2. PICK g : g = [stack[1] EXCEPT !.at = "return"]
    OBVIOUS
  <2>3. g \in Frames /\ g.op = "getNextTag" /\ g.at = "return"
    BY <1>1, <1>2, <2>1, <2>2 DEF Frames, Places
  <2>4. s = [stack EXCEPT ![1] = g]
    BY <1>4, <2>2
  <2>5. s \in Seq(Frames) /\ Len(s) = Len(stack) /\ DOMAIN s = DOMAIN stack /\ s[1] = g
    BY <1>2, <2>3, <2>4
  <2>6. s # <<>>
    BY <1>2, <2>5
  <2> QED  BY <1>3, <2>3, <2>5, <2>6
<1>7. PICK t : t = stack'
  OBVIOUS
<1>8. t = <<f>> \o s
  BY <1>1, <1>4, <1>7
<1>9. /\ t[1] = f /\ t # <<>> /\ \A n \in DOMAIN s : n \in Nat /\ n + 1 \in DOMAIN t /\ t[n + 1] = s[n]
      /\ \A n \in DOMAIN t : n = 1 \/ (n - 1 \in DOMAIN s /\ t[n] = s[n - 1])
      /\ Len(t) = Len(s) + 1
  BY <1>5, <1>6, <1>8, MoreFrames
<1>10. 1..(Len(t) - 1) = {1} /\ t[1 + 1] = s[1] /\ t[1] = f
  BY <1>6, <1>9
<1>11. \A n \in DOMAIN t : t[n] = f \/ t[n] = s[1]
  BY <1>6, <1>9
<1>12. FrameDoc(ents, f) /\ FrameDoc(ents, s[1])
  BY <1>1, <1>2, <1>5, <1>6 DEF FrameDoc
<1>13. CallersOK(t) /\ SubCalls(doc, ents, t)
  BY <1>5, <1>6, <1>10 DEF CallersOK, SubCalls
<1>14. TopDoc(doc, ents, t)
  BY <1>2, <1>3, <1>5, <1>10 DEF TopDoc
<1>15. Awaited(ents, t)
  BY <1>1, <1>2, <1>3 DEF DocInv, Awaited
<1>16. DocInv(doc, ents, t)
  BY <1>11, <1>12, <1>13, <1>14, <1>15 DEF DocInv
<1> QED  BY <1>1, <1>7, <1>16

\* x and y differ in whether they are ready, and in their errors.
SameReading(x, y) ==
  /\ y.tag = x.tag /\ y.self = x.self /\ y.at = x.at /\ y.kids = x.kids
  /\ y.complete = x.complete /\ y.pos = x.pos /\ (x.error => y.error)

\* parseSub() is done with the last child.
LEMMA SubEndsDoc ==
  ASSUME NInv, DocInv(doc, ents, stack), stack # <<>>, Top.at = "sub", doc' = doc,
         NEW place \in Places, place \in {"outer", "return"}, Goto(place),
         NEW y, ents'[Me] = y, SameReading(Mine, y), DOMAIN ents' = DOMAIN ents,
         \A e \in DOMAIN ents : e # Me => ents'[e] = ents[e],
         EntDoc(doc, ents', y), y.complete \/ y.ready,
         Mine.kids # <<>> => ~UnreadIn(ents, LastOf(Mine))
  PROVE  DocInv(doc', ents', stack')
<1>1. /\ Me \in DOMAIN ents /\ Mine \in Entity /\ Mine = ents[Me] /\ Me = stack[1].ent /\ TInv
      /\ stack[1].at = "sub"
  BY TopFacts DEF NInv, Mine, Me, Top
<1>2. /\ 1 \in DOMAIN stack /\ DOMAIN stack' = DOMAIN stack /\ Len(stack') = Len(stack) /\ stack' # <<>>
      /\ Len(stack) \in Nat /\ DOMAIN stack = 1..Len(stack)
      /\ \A n \in DOMAIN stack : stack'[n].op = stack[n].op /\ stack'[n].ent = stack[n].ent
      /\ \A n \in DOMAIN stack : n # 1 => stack'[n] = stack[n]
      /\ stack'[1].at = place
  BY GotoFrames
<1>3. \A e \in DOMAIN ents :
        ents'[e].tag = ents[e].tag /\ ents'[e].self = ents[e].self /\ ents'[e].at = ents[e].at
  BY <1>1 DEF SameReading
<1>4. \A e \in DOMAIN ents : UnreadIn(ents', e) => UnreadIn(ents, e)
  BY <1>1 DEF SameReading, UnreadIn
<1>5. \A e \in DOMAIN ents' : EntDoc(doc', ents', ents'[e])
  <2> SUFFICES ASSUME NEW e \in DOMAIN ents, e # Me PROVE EntDoc(doc', ents', ents'[e])
    BY <1>1
  <2> QED  BY <1>3, OthersDoc
<1>6. \A n \in DOMAIN stack' : FrameDoc(ents', stack'[n])
  <2> SUFFICES ASSUME NEW n \in DOMAIN stack PROVE FrameDoc(ents', stack'[n])
    BY <1>2
  <2>1. stack[n].ent \in DOMAIN ents /\ FrameDoc(ents, stack[n])
    BY FrameFacts DEF DocInv
  <2>2. CASE n = 1
    BY <1>2, <2>2 DEF FrameDoc
  <2>3. CASE n # 1 /\ stack[n].ent = Me
    <3>1. stack[n].at \in {"outer", "return"}
      BY <2>3, SameEntity
    <3> QED  BY <1>2, <2>1, <2>3, <3>1 DEF FrameDoc
  <2>4. CASE n # 1 /\ stack[n].ent # Me
    BY <1>2, <2>1, <2>4 DEF FrameDoc
  <2> QED  BY <2>2, <2>3, <2>4
<1>7. CallersOK(stack')
  <2>1. CallersOK(stack)
    BY DEF DocInv
  <2>2. \A n \in 1..(Len(stack') - 1) : /\ n \in 1..(Len(stack) - 1)
                                        /\ stack'[n].op = stack[n].op /\ stack'[n + 1].op = stack[n + 1].op
    BY <1>2
  <2> QED  BY <2>1, <2>2 DEF CallersOK
<1>8. Awaited(ents', stack')
  <2> SUFFICES ASSUME NEW e \in DOMAIN ents, e # Me, ents[e].tag /\ ~ents[e].complete /\ ~ents[e].ready
               PROVE  \E n \in DOMAIN stack : stack'[n].ent = e /\ stack'[n].at \in {"inner", "sub"}
    BY <1>2 DEF Awaited
  <2>1. PICK n \in DOMAIN stack : stack[n].ent = e /\ stack[n].at \in {"inner", "sub"}
    BY DEF DocInv, Awaited
  <2>2. n # 1
    BY <1>1, <2>1
  <2> QED  BY <1>2, <2>1, <2>2
<1>9. TopDoc(doc', ents', stack')
  BY <1>2 DEF TopDoc
<1>10. SubCalls(doc', ents', stack')
  <2> SUFFICES ASSUME NEW n \in 1..(Len(stack) - 1), stack[n].op = "parse"
               PROVE  /\ stack[n].ent = LastOf(ents'[stack[n + 1].ent])
                      /\ ~ents'[stack[n + 1].ent].complete =>
                           Fresh(doc, ents', ents'[stack[n].ent]) /\ (n > 1 => ~ents'[stack[n].ent].complete)
    <3>1. \A n \in 1..(Len(stack') - 1) :
             /\ n \in 1..(Len(stack) - 1) /\ stack'[n].op = stack[n].op
             /\ stack'[n].ent = stack[n].ent /\ stack'[n + 1].ent = stack[n + 1].ent
      BY <1>2
    <3> QED  BY <3>1 DEF SubCalls
  <2>1. /\ n \in Nat /\ n \in DOMAIN stack /\ n + 1 \in DOMAIN stack
        /\ stack[n].ent \in DOMAIN ents /\ stack[n + 1].ent \in DOMAIN ents
        /\ stack[n + 1].ent # Me /\ (n > 1 => stack[n].ent # Me)
        /\ stack[n].ent = LastOf(ents[stack[n + 1].ent])
        /\ ~ents[stack[n + 1].ent].complete =>
             Fresh(doc, ents, ents[stack[n].ent]) /\ (n > 1 => ~ents[stack[n].ent].complete)
    BY CallerFacts
  <2>2. ents'[stack[n + 1].ent] = ents[stack[n + 1].ent]
    BY <2>1
  <2>3. CASE n = 1
    <3>1. ents[stack[n].ent] = Mine /\ ents'[stack[n].ent] = y
      BY <1>1, <2>3
    <3>2. ASSUME Fresh(doc, ents, Mine) PROVE Fresh(doc, ents', y)
      <4>1. \A m \in DOMAIN Mine.kids : ~UnreadIn(ents', Mine.kids[m])
        <5> SUFFICES ASSUME NEW m \in DOMAIN Mine.kids, UnreadIn(ents', Mine.kids[m]) PROVE FALSE
          OBVIOUS
        <5>1. UnreadIn(ents, Mine.kids[m])
          BY <1>1, <1>4, KidsIn
        <5>2. m = Len(Mine.kids)
          BY <3>2, <5>1 DEF Fresh
        <5>3. Mine.kids # <<>>
          OBVIOUS
        <5> QED  BY <5>1, <5>2, <5>3 DEF LastOf
      <4> QED  BY <3>2, <4>1 DEF Fresh, SameReading
    <3> QED  BY <2>1, <2>2, <2>3, <3>1, <3>2
  <2>4. CASE n > 1
    <3>1. ents'[stack[n].ent] = ents[stack[n].ent]
      BY <2>1, <2>4
    <3>2. PICK x : x = ents[stack[n].ent]
      OBVIOUS
    <3>3. \A m \in DOMAIN x.kids : UnreadIn(ents', x.kids[m]) => UnreadIn(ents, x.kids[m])
      <4>1. \A m \in DOMAIN x.kids : x.kids[m] \in DOMAIN ents
        BY <1>1, <2>1, <3>2, KidsIn
      <4> QED  BY <1>4, <4>1
    <3>4. Fresh(doc, ents, x) => Fresh(doc, ents', x)
      BY <3>3, FreshKept
    <3> QED  BY <2>1, <2>2, <3>1, <3>2, <3>4
  <2> QED  BY <2>1, <2>3, <2>4
<1> QED  BY <1>5, <1>6, <1>7, <1>8, <1>9, <1>10 DEF DocInv

\* What parseSub() knows of the entity it is called for.
LEMMA SubFacts ==
  ASSUME NInv, DocInv(doc, ents, stack), stack # <<>>, Top.at = "sub"
  PROVE  /\ ~Mine.ready /\ EntDoc(doc, ents, Mine) /\ Mine.tag /\ Mine \in Entity /\ Me \in DOMAIN ents
         /\ Mine.inserted = Npos => Mine.kids = <<>> /\ Mine.complete
         /\ Mine.inserted # Npos => Mine.kids # <<>> /\ LastKid = LastOf(Mine) /\ LastOf(Mine) \in DOMAIN ents
                                    /\ (UnreadIn(ents, LastOf(Mine)) <=> Unread(LastKid))
         /\ AfterSub \in Places /\ AfterSub \in {"outer", "return"}
         /\ \A n \in DOMAIN Mine.kids : Mine.kids[n] \in DOMAIN ents
         /\ Mine.kids \in Seq(Nat) /\ ents \in Seq(Entity)
<1>1. /\ Me \in DOMAIN ents /\ Mine \in Entity /\ Mine.tag /\ EntOK(Mine, Me) /\ Mine = ents[Me] /\ TInv
      /\ 1 \in DOMAIN stack /\ stack[1].ent = Me /\ stack[1].at = "sub"
  BY TopFacts DEF NInv, Mine, Me, Top
<1>2. /\ EntDoc(doc, ents, Mine) /\ FrameDoc(ents, stack[1])
  BY <1>1 DEF DocInv
<1>3. ~Mine.ready
  BY <1>1, <1>2 DEF FrameDoc
<1>4. Mine.kids \in Seq(Nat) /\ \A n \in DOMAIN Mine.kids : Mine.kids[n] \in DOMAIN ents
  BY <1>1, KidsIn
<1>5. ASSUME Mine.inserted = Npos PROVE Mine.kids = <<>> /\ Mine.complete
  <2>1. Mine.kids = <<>>
    <3>1. Mine.kids # <<>> => Len(Mine.kids) # 0
      BY <1>4
    <3> QED  BY <1>1, <1>5, <3>1 DEF EntOK, Npos
  <2>2. ~Mine.complete => Waiting(doc, ents, Mine)
    BY <1>1, <1>2, <1>3 DEF EntDoc, KidsDoc
  <2> QED  BY <2>1, <2>2 DEF Waiting
<1>6. ASSUME Mine.inserted # Npos
      PROVE  /\ Mine.kids # <<>> /\ LastKid = LastOf(Mine) /\ LastOf(Mine) \in DOMAIN ents
             /\ (UnreadIn(ents, LastOf(Mine)) <=> Unread(LastKid))
  <2>1. Mine.kids # <<>> /\ Mine.inserted = Len(Mine.kids)
    BY <1>1, <1>3, <1>6 DEF EntOK
  <2>2. LastKid = LastOf(Mine)
    BY <2>1 DEF LastKid, LastOf
  <2>3. LastOf(Mine) \in DOMAIN ents
    BY <1>1, <2>1, KidsIn
  <2> QED  BY <2>1, <2>2, <2>3 DEF UnreadIn, Unread
<1>7. AfterSub \in Places /\ AfterSub \in {"outer", "return"}
  BY DEF AfterSub, Places
<1> QED  BY <1>1, <1>2, <1>3, <1>4, <1>5, <1>6, <1>7 DEF TInv, TreeTypes

\* parseSub() fails for an element without children alone, which is complete.
LEMMA SubFailsDoc ==
  ASSUME NInv, DocInv(doc, ents, stack), SubFails
  PROVE  DocInv(doc', ents', stack')
<1>1. /\ stack # <<>> /\ Top.at = "sub" /\ (Mine.ready \/ Mine.inserted = Npos) /\ doc' = doc
      /\ ents' = [ents EXCEPT ![Me].error = TRUE] /\ Goto(AfterSub)
  BY DEF SubFails, readerVars
<1>2. /\ ~Mine.ready /\ EntDoc(doc, ents, Mine) /\ Mine.tag /\ Mine \in Entity /\ Me \in DOMAIN ents
      /\ Mine.inserted = Npos => Mine.kids = <<>> /\ Mine.complete
      /\ AfterSub \in Places /\ AfterSub \in {"outer", "return"} /\ ents \in Seq(Entity)
  BY <1>1, SubFacts
<1>3. PICK x, y, t : x = Mine /\ y = [x EXCEPT !.error = TRUE] /\ t = ents'
  OBVIOUS
<1>4. /\ SameReading(x, y) /\ y.error /\ y.offset = x.offset /\ y.name = x.name
  BY <1>2, <1>3 DEF Entity, SameReading
<1>5. /\ t[Me] = y /\ DOMAIN t = DOMAIN ents
      /\ \A e \in DOMAIN ents : e # Me => t[e] = ents[e]
  BY <1>1, <1>2, <1>3 DEF Mine
<1>6. x.kids = <<>> /\ x.complete /\ y.kids = <<>> /\ y.complete
  BY <1>1, <1>2, <1>3, <1>4 DEF SameReading
<1>7. EntDoc(doc, t, y)
  <2>1. TagDoc(doc, y) /\ y.tag
    BY <1>2, <1>3, <1>4 DEF EntDoc, TagDoc, SameReading
  <2>2. KidAts(t, y) = {} /\ KidAts(ents, x) = {} /\ DOMAIN y.kids = {}
    BY <1>6 DEF KidAts
  <2>3. Children(doc, y.at) = {}
    BY <1>2, <1>3, <1>4, <1>6, <2>2 DEF EntDoc, KidsDoc, SameReading
  <2>4. KidsDoc(doc, t, y)
    BY <1>6, <2>2, <2>3 DEF KidsDoc
  <2> QED  BY <2>1, <2>4 DEF EntDoc
<1> QED  BY <1>1, <1>2, <1>3, <1>4, <1>5, <1>6, <1>7, SubEndsDoc

\* Behind the last child an element is read on where that ended.
LEMMA SubDoneDoc ==
  ASSUME NInv, DocInv(doc, ents, stack), doc \in Seq(STRING), WholeTags(doc), SubDone
  PROVE  DocInv(doc', ents', stack')
<1>1. /\ stack # <<>> /\ Top.at = "sub" /\ Mine.inserted # Npos /\ ~Unread(LastKid) /\ doc' = doc
      /\ ents' = [ents EXCEPT ![Me].ready = TRUE] /\ Goto(AfterSub)
  BY DEF SubDone, readerVars
<1>2. /\ ~Mine.ready /\ EntDoc(doc, ents, Mine) /\ Mine.tag /\ Mine \in Entity /\ Me \in DOMAIN ents
      /\ Mine.kids # <<>> /\ LastOf(Mine) \in DOMAIN ents /\ ~UnreadIn(ents, LastOf(Mine))
      /\ AfterSub \in Places /\ AfterSub \in {"outer", "return"} /\ ents \in Seq(Entity)
      /\ Mine.kids \in Seq(Nat) /\ \A n \in DOMAIN Mine.kids : Mine.kids[n] \in DOMAIN ents
  BY <1>1, SubFacts
<1>3. PICK x, y, t, s, l : x = Mine /\ y = [x EXCEPT !.ready = TRUE] /\ t = ents' /\ s = ents /\ l = ents[LastOf(Mine)]
  OBVIOUS
<1>4. SameReading(x, y) /\ y.ready /\ y.offset = x.offset /\ y.name = x.name /\ y.error = x.error
  BY <1>2, <1>3 DEF Entity, SameReading
<1>5. /\ t[Me] = y /\ DOMAIN t = DOMAIN ents
      /\ \A e \in DOMAIN ents : e # Me => t[e] = ents[e]
  BY <1>1, <1>2, <1>3 DEF Mine
<1>6. /\ KidAts(t, y) = KidAts(s, x)
      /\ \A n \in DOMAIN x.kids : t[x.kids[n]].at = s[x.kids[n]].at
  <2>1. \A e \in DOMAIN s : t[e].tag = s[e].tag /\ t[e].self = s[e].self /\ t[e].at = s[e].at
    BY <1>3, <1>4, <1>5 DEF SameReading, Mine
  <2>2. x.kids \in Seq(Nat) /\ \A n \in DOMAIN x.kids : x.kids[n] \in DOMAIN s
    BY <1>2, <1>3
  <2>3. KidAts(t, x) = KidAts(s, x)
    BY ONLY <2>1, <2>2, SameKids
  <2>4. KidAts(t, y) = KidAts(t, x)
    BY <1>4 DEF KidAts, SameReading
  <2> QED  BY <2>1, <2>2, <2>3, <2>4
<1>7. EntDoc(doc, s, x)
  BY <1>2, <1>3
<1>8. ASSUME ~x.complete PROVE Level(doc, x.at, x.pos) /\ KidAts(s, x) = Upto(doc, x.at, x.pos)
  <2>1. Waiting(doc, s, x) /\ Whole(doc, x.at)
    BY <1>2, <1>3, <1>7, <1>8 DEF EntDoc, KidsDoc, TagDoc
  <2>2. /\ l.tag /\ ~l.self /\ x.at < l.at /\ l.at < Shut(doc, x.at) /\ Depth(doc, x.at, l.at - 1) = 1
        /\ KidAts(s, x) = Upto(doc, x.at, CloseOf(doc, l.at))
    BY <1>3, <2>1 DEF Waiting
  <2>3. EntDoc(doc, s, l)
    BY <1>2, <1>3 DEF DocInv
  <2>4. l.at \in Brackets(doc) /\ IsOpen(doc, l.at)
    BY <2>2, <2>3 DEF EntDoc, TagDoc, IsOpen
  <2>5. x.pos = Stop(doc, l.at)
    BY <1>1, <1>2, <1>3, <1>8 DEF DocInv, TopDoc, Top, Me, Mine
  <2>6. PICK b : b = l.at
    OBVIOUS
  <2>7. /\ Level(doc, x.at, CloseOf(doc, Shut(doc, b)))
        /\ Upto(doc, x.at, CloseOf(doc, Shut(doc, b))) = Upto(doc, x.at, CloseOf(doc, b))
    BY <2>1, <2>2, <2>4, <2>6, ResumeLevel
  <2> QED  BY <2>2, <2>5, <2>6, <2>7 DEF Stop
<1>9. EntDoc(doc, t, y)
  <2>1. TagDoc(doc, y) /\ y.tag
    BY <1>2, <1>3, <1>4 DEF EntDoc, TagDoc, SameReading
  <2>2. KidsDoc(doc, t, y)
    <3>1. /\ y.self = x.self /\ y.at = x.at /\ y.kids = x.kids /\ y.complete = x.complete /\ y.pos = x.pos
          /\ x.tag
      BY <1>2, <1>3, <1>4 DEF SameReading
    <3>2. KidsDoc(doc, s, x)
      BY <1>7, <3>1 DEF EntDoc
    <3>3. \A n, m \in DOMAIN y.kids : n < m => t[y.kids[n]].at < t[y.kids[m]].at
      BY <1>6, <3>1, <3>2 DEF KidsDoc
    <3> QED  BY <1>4, <1>6, <1>8, <3>1, <3>2, <3>3 DEF KidsDoc
  <2> QED  BY <2>1, <2>2 DEF EntDoc
<1> QED  BY <1>1, <1>2, <1>3, <1>4, <1>5, <1>9, SubEndsDoc

\* parse() hands its place to the parent that waits for it.
LEMMA ParseReturnsDoc ==
  ASSUME NInv, DocInv(doc, ents, stack), ParseReturns
  PROVE  DocInv(doc', ents', stack')
<1>1. /\ stack # <<>> /\ Top.op = "parse" /\ Top.at = "outer" /\ (Mine.complete \/ Mine.error)
      /\ stack' = Tail(stack) /\ doc' = doc
      /\ ents' = IF Len(stack) > 1 THEN [ents EXCEPT ![stack[2].ent].pos = Mine.pos] ELSE ents
  BY DEF ParseReturns, readerVars, ResumePos
<1>2. /\ stack \in Seq(Frames) /\ Len(stack) \in Nat /\ DOMAIN stack = 1..Len(stack) /\ 1 \in DOMAIN stack
      /\ Len(stack') = Len(stack) - 1 /\ DOMAIN stack' = 1..(Len(stack) - 1)
      /\ \A n \in DOMAIN stack' : n \in Nat /\ n + 1 \in DOMAIN stack /\ stack'[n] = stack[n + 1]
      /\ \A n \in DOMAIN stack : n # 1 => n - 1 \in DOMAIN stack' /\ stack'[n - 1] = stack[n]
      /\ \A n \in 1..(Len(stack') - 1) : /\ n + 1 \in 1..(Len(stack) - 1) /\ n + 1 > 1
                                         /\ stack'[n] = stack[n + 1] /\ stack'[n + 1] = stack[(n + 1) + 1]
  BY <1>1, TailFrames
<1>3. /\ Me \in DOMAIN ents /\ Mine \in Entity /\ Mine.tag /\ Mine = ents[Me] /\ Me = stack[1].ent /\ TInv
      /\ ents \in Seq(Entity) /\ EntDoc(doc, ents, Mine) /\ stack[1] = Top
  BY <1>1, TopFacts DEF NInv, Mine, Me, Top, TInv, TreeTypes, DocInv
<1>4. Mine.complete
  BY <1>1, <1>3 DEF EntDoc, KidsDoc
<1>5. PICK p, x, t : p = stack[2].ent /\ x = Mine /\ t = ents'
  OBVIOUS
<1>6. ASSUME Len(stack) > 1
      PROVE  /\ stack[2].at = "sub" /\ p \in DOMAIN ents /\ ~ents[p].ready /\ Me = LastOf(ents[p])
             /\ ~ents[p].complete => Fresh(doc, ents, x)
  <2>1. 1 \in 1..(Len(stack) - 1) /\ stack[1].op = "parse"
    BY <1>1, <1>2, <1>3, <1>6
  <2>2. /\ stack[1 + 1].at = "sub" /\ stack[1 + 1].ent \in DOMAIN ents /\ ~ents[stack[1 + 1].ent].ready
        /\ stack[1].ent = LastOf(ents[stack[1 + 1].ent])
        /\ ~ents[stack[1 + 1].ent].complete => Fresh(doc, ents, ents[stack[1].ent])
    BY <2>1, CallerFacts
  <2>3. 1 + 1 = 2
    OBVIOUS
  <2> QED  BY <1>3, <1>5, <2>2, <2>3
<1>7. /\ DOMAIN t = DOMAIN ents
      /\ \A e \in DOMAIN ents : /\ t[e].tag = ents[e].tag /\ t[e].self = ents[e].self /\ t[e].at = ents[e].at
                                /\ t[e].kids = ents[e].kids /\ t[e].complete = ents[e].complete
                                /\ t[e].error = ents[e].error /\ t[e].ready = ents[e].ready
                                /\ t[e].name = ents[e].name /\ t[e].offset = ents[e].offset
                                /\ t[e].pos = ents[e].pos \/ (e = p /\ Len(stack) > 1)
      /\ Len(stack) > 1 => t[p].pos = x.pos
  <2>1. \A e \in DOMAIN ents : ents[e] \in Entity
    BY <1>3
  <2>2. CASE Len(stack) > 1
    <3>1. t = [ents EXCEPT ![p] = [ents[p] EXCEPT !.pos = x.pos]] /\ p \in DOMAIN ents
      BY <1>1, <1>5, <1>6, <2>2
    <3>2. PICK y : y = [ents[p] EXCEPT !.pos = x.pos]
      OBVIOUS
    <3>3. /\ y.tag = ents[p].tag /\ y.self = ents[p].self /\ y.at = ents[p].at
          /\ y.kids = ents[p].kids /\ y.complete = ents[p].complete
          /\ y.error = ents[p].error /\ y.ready = ents[p].ready
          /\ y.name = ents[p].name /\ y.offset = ents[p].offset /\ y.pos = x.pos
      BY <2>1, <3>1, <3>2 DEF Entity
    <3>4. DOMAIN t = DOMAIN ents /\ t[p] = y /\ \A e \in DOMAIN ents : e # p => t[e] = ents[e]
      BY <1>3, <3>1, <3>2
    <3> QED  BY <2>2, <3>3, <3>4
  <2>3. CASE ~(Len(stack) > 1)
    BY <1>1, <1>5, <2>3
  <2> QED  BY <2>2, <2>3
<1>8. \A e \in DOMAIN ents : UnreadIn(t, e) <=> UnreadIn(ents, e)
  BY <1>7 DEF UnreadIn
<1>9. ASSUME NEW e \in DOMAIN ents PROVE EntDoc(doc, t, t[e])
  <2>1. PICK w, y, s : w = ents[e] /\ y = t[e] /\ s = ents
    OBVIOUS
  <2>2. EntDoc(doc, s, w)
    BY <2>1 DEF DocInv
  <2>3. w.kids \in Seq(Nat) /\ \A n \in DOMAIN w.kids : w.kids[n] \in DOMAIN s
    BY <1>3, <2>1, KidsIn
  <2>4. \A c \in DOMAIN s : t[c].tag = s[c].tag /\ t[c].self = s[c].self /\ t[c].at = s[c].at
    BY <1>7, <2>1
  <2>5. EntDoc(doc, t, w)
    BY ONLY <2>2, <2>3, <2>4, SameKids
  <2>6. /\ y.tag = w.tag /\ y.self = w.self /\ y.at = w.at /\ y.kids = w.kids /\ y.complete = w.complete
        /\ y.error = w.error /\ y.ready = w.ready /\ y.name = w.name /\ y.offset = w.offset
        /\ y.ready => y.pos = w.pos
    BY <1>6, <1>7, <2>1
  <2>7. KidAts(t, y) = KidAts(t, w) /\ LastOf(y) = LastOf(w)
    BY <2>6 DEF KidAts, LastOf
  <2>8. Waiting(doc, t, w) => Waiting(doc, t, y)
    BY <2>6, <2>7 DEF Waiting
  <2>9. TagDoc(doc, w) => TagDoc(doc, y)
    BY <2>6 DEF TagDoc
  <2>10. KidsDoc(doc, t, w) => KidsDoc(doc, t, y)
    BY <2>6, <2>7, <2>8 DEF KidsDoc
  <2> QED  BY <2>1, <2>5, <2>6, <2>9, <2>10 DEF EntDoc
<1>10. \A n \in DOMAIN stack' : FrameDoc(ents', stack'[n])
  <2> SUFFICES ASSUME NEW n \in DOMAIN stack PROVE FrameDoc(t, stack[n])
    BY <1>2, <1>5
  <2>1. stack[n].ent \in DOMAIN ents /\ FrameDoc(ents, stack[n])
    BY FrameFacts DEF DocInv
  <2> QED  BY <1>7, <2>1 DEF FrameDoc
<1>11. CallersOK(stack')
  <2>1. CallersOK(stack)
    BY DEF DocInv
  <2> QED  BY <1>2, <2>1 DEF CallersOK
<1>12. Awaited(ents', stack')
  <2> SUFFICES ASSUME NEW e \in DOMAIN ents, ents[e].tag /\ ~ents[e].complete /\ ~ents[e].ready
               PROVE  \E n \in DOMAIN stack' : stack'[n].ent = e /\ stack'[n].at \in {"inner", "sub"}
    BY <1>5, <1>7 DEF Awaited
  <2>1. PICK n \in DOMAIN stack : stack[n].ent = e /\ stack[n].at \in {"inner", "sub"}
    BY DEF DocInv, Awaited
  <2>2. n # 1
    BY <1>1, <2>1 DEF Top
  <2> QED  BY <1>2, <2>1, <2>2
<1>13. TopDoc(doc', ents', stack')
  <2> SUFFICES ASSUME stack' # <<>>, ~t[stack'[1].ent].complete
               PROVE  /\ ~UnreadIn(t, LastOf(t[stack'[1].ent]))
                      /\ t[stack'[1].ent].pos = Stop(doc, t[LastOf(t[stack'[1].ent])].at)
    BY <1>1, <1>5 DEF TopDoc
  <2>1. Len(stack) > 1 /\ stack'[1] = stack[2]
    <3>1. Len(stack') # 0
      BY <1>1, <1>2
    <3>2. 1 \in DOMAIN stack' /\ 1 + 1 = 2 /\ Len(stack) > 1
      BY <1>2, <3>1
    <3> QED  BY <1>2, <3>2
  <2>2. stack'[1].ent = p /\ p \in DOMAIN ents /\ ~ents[p].complete /\ Me = LastOf(ents[p])
        /\ Fresh(doc, ents, x)
    BY <1>5, <1>6, <1>7, <2>1
  <2>3. LastOf(t[p]) = Me
    BY <1>7, <2>2 DEF LastOf
  <2>4. ~UnreadIn(t, Me) /\ t[Me].at = x.at
    BY <1>3, <1>4, <1>5, <1>7 DEF UnreadIn
  <2>5. t[p].pos = Stop(doc, x.at)
    BY <1>4, <1>5, <1>7, <2>1, <2>2 DEF Fresh
  <2> QED  BY <2>2, <2>3, <2>4, <2>5
<1>14. SubCalls(doc', ents', stack')
  <2> SUFFICES ASSUME NEW n \in 1..(Len(stack') - 1), stack'[n].op = "parse"
               PROVE  /\ stack'[n].ent = LastOf(t[stack'[n + 1].ent])
                      /\ ~t[stack'[n + 1].ent].complete =>
                           Fresh(doc, t, t[stack'[n].ent]) /\ ~t[stack'[n].ent].complete
    BY <1>1, <1>5 DEF SubCalls
  <2>1. PICK m \in 1..(Len(stack) - 1) : /\ m > 1 /\ stack[m].op = "parse"
                                         /\ stack'[n] = stack[m] /\ stack'[n + 1] = stack[m + 1]
    BY <1>2
  <2>2. /\ stack[m].ent \in DOMAIN ents /\ stack[m + 1].ent \in DOMAIN ents
        /\ stack[m].ent = LastOf(ents[stack[m + 1].ent])
        /\ ~ents[stack[m + 1].ent].complete =>
             Fresh(doc, ents, ents[stack[m].ent]) /\ ~ents[stack[m].ent].complete
    BY <2>1, CallerFacts
  <2>3. PICK a, b : a = stack[m].ent /\ b = stack[m + 1].ent
    OBVIOUS
  <2>4. LastOf(t[b]) = LastOf(ents[b]) /\ t[b].complete = ents[b].complete
        /\ t[a].complete = ents[a].complete /\ t[a].kids = ents[a].kids /\ t[a].ready = ents[a].ready
    BY <1>7, <2>2, <2>3 DEF LastOf
  <2>5. \A h \in DOMAIN ents[a].kids : ents[a].kids[h] \in DOMAIN ents
    BY <1>3, <2>2, <2>3, KidsIn
  <2>6. Fresh(doc, ents, ents[a]) /\ ~ents[a].complete => Fresh(doc, t, t[a])
    BY <1>8, <2>4, <2>5 DEF Fresh
  <2> QED  BY <2>1, <2>2, <2>3, <2>4, <2>6
<1> QED  BY <1>1, <1>5, <1>7, <1>9, <1>10, <1>11, <1>12, <1>13, <1>14 DEF DocInv

\* A call of the user.
LEMMA UserDoc ==
  ASSUME NInv, DocInv(doc, ents, stack), doc \in Seq(STRING), WholeTags(doc), ~stray', NEW e \in Entities,
         CallParse(e) \/ CallGetNext(e) \/ CallGetNextTag(e) \/ CallUnParse(e) \/ CallReParse(e)
  PROVE  DocInv(doc', ents', stack')
<1>1. /\ stack = <<>> /\ doc' = doc /\ e \in DOMAIN ents /\ ents[e].tag /\ DOMAIN stack = {}
  BY DEF CallParse, CallGetNext, CallGetNextTag, CallUnParse, CallReParse, Called, Idle, Usable,
         readerVars, Entities
<1>2. \A c \in DOMAIN ents : ents[c].tag /\ ~ents[c].complete => ents[c].ready
  BY <1>1 DEF DocInv, Awaited
<1>3. PICK x, t, s, st : x = ents[e] /\ t = ents' /\ s = ents /\ st = stack'
  OBVIOUS
<1>4. x \in Entity /\ x.kids \in Seq(Nat) /\ EntDoc(doc, s, x) /\ x.tag /\ s \in Seq(Entity)
      /\ \A c \in DOMAIN s : EntDoc(doc, s, s[c])
  BY <1>1, <1>3, KidsIn DEF NInv, DocInv, TInv, TreeTypes
<1>5. CASE CallParse(e) \/ CallGetNext(e) \/ CallGetNextTag(e)
  <2>1. /\ t = s
        /\ \/ st = <<>>
           \/ \E f : st = <<f>> /\ f.ent = e /\ \/ f.op = "parse" /\ f.at = "outer"
                                                \/ f.op = "getNext" /\ f.at = "inner" /\ ~x.complete
                                                \/ f.op = "getNextTag" /\ f.at = "outer"
    BY <1>1, <1>3, <1>5 DEF CallParse, CallGetNext, CallGetNextTag, Frame
  <2>2. x.error => x.complete
    BY <1>4 DEF EntDoc, KidsDoc
  <2>3. st = <<>> \/ (Len(st) = 1 /\ DOMAIN st = {1})
    BY <2>1
  <2>4. st # <<>> => /\ FrameDoc(s, st[1]) /\ st[1].ent \in DOMAIN s /\ s[st[1].ent].tag
    BY <1>1, <1>3, <2>1, <2>2 DEF FrameDoc
  <2>5. DocInv(doc, s, st)
    BY <1>2, <1>3, <1>4, <2>3, <2>4, OneCallDoc
  <2> QED  BY <1>1, <1>3, <2>1, <2>5
<1>6. CASE CallUnParse(e) \/ CallReParse(e)
  <2>1. /\ t = UnParsed(e) /\ (x.kids # <<>> \/ ~x.complete)
        /\ \/ st = <<>>
           \/ \E f : st = <<f>> /\ f.ent = e /\ f.op = "parse" /\ f.at = "outer"
    <3>1. t = UnParsed(e) /\ (x.kids # <<>> \/ ~x.complete)
      BY <1>3, <1>6 DEF CallUnParse, CallReParse, Strays
    <3>2. CASE CallUnParse(e)
      BY <1>1, <1>3, <3>1, <3>2 DEF CallUnParse
    <3>3. CASE CallReParse(e)
      <4>1. PICK g : g = Frame("parse", e, "outer")
        OBVIOUS
      <4>2. PICK f : f = [g EXCEPT !.had = 0]
        OBVIOUS
      <4>3. f.ent = e /\ f.op = "parse" /\ f.at = "outer"
        BY <4>1, <4>2 DEF Frame
      <4> QED  BY <1>3, <3>1, <3>3, <4>1, <4>2, <4>3 DEF CallReParse
    <3> QED  BY <1>6, <3>1, <3>2, <3>3
  <2>2. PICK y : y = [x EXCEPT !.kids = <<>>, !.complete = FALSE, !.pos = x.offset, !.ready = TRUE]
    OBVIOUS
  <2>3. /\ y.tag = x.tag /\ y.self = x.self /\ y.at = x.at /\ y.name = x.name /\ y.offset = x.offset
        /\ y.error = x.error /\ y.kids = <<>> /\ ~y.complete /\ y.ready /\ y.pos = x.offset
    BY <1>4, <2>2 DEF Entity
  <2>4. /\ DOMAIN t = DOMAIN s /\ t[e] = y /\ \A c \in DOMAIN s : c # e => t[c] = s[c]
    <3>1. t = [s EXCEPT ![e] = y]
      BY <1>3, <2>1, <2>2 DEF UnParsed
    <3> QED  BY <1>1, <1>3, <1>4, <3>1
  <2>5. EntDoc(doc, t, y)
    <3>1. ~x.self /\ ~x.error /\ TagDoc(doc, x)
      BY <1>4, <2>1 DEF EntDoc, KidsDoc
    <3>2. Whole(doc, x.at) /\ x.offset = CloseOf(doc, x.at)
      BY <3>1 DEF TagDoc
    <3>3. Level(doc, y.at, y.pos) /\ Upto(doc, y.at, y.pos) = {}
      BY <2>3, <3>2, LevelFirst
    <3>4. KidAts(t, y) = {} /\ DOMAIN y.kids = {}
      BY <2>3 DEF KidAts
    <3>5. KidsDoc(doc, t, y)
      BY <2>3, <3>1, <3>3, <3>4 DEF KidsDoc
    <3>6. TagDoc(doc, y)
      BY <2>3, <3>1 DEF TagDoc
    <3> QED  BY <1>4, <2>3, <3>5, <3>6 DEF EntDoc
  <2>6. \A c \in DOMAIN t : EntDoc(doc, t, t[c])
    <3> SUFFICES ASSUME NEW c \in DOMAIN s, c # e PROVE EntDoc(doc, t, s[c])
      BY <2>4, <2>5
    <3>1. \A h \in DOMAIN s : t[h].tag = s[h].tag /\ t[h].self = s[h].self /\ t[h].at = s[h].at
      BY <1>3, <2>3, <2>4
    <3>2. PICK w : w = s[c]
      OBVIOUS
    <3>3. w.kids \in Seq(Nat) /\ \A n \in DOMAIN w.kids : w.kids[n] \in DOMAIN s
      BY <1>3, <3>2, KidsIn DEF NInv
    <3>4. EntDoc(doc, s, w)
      BY <1>4, <3>2
    <3>5. EntDoc(doc, t, w)
      BY ONLY <3>1, <3>3, <3>4, SameKids
    <3> QED  BY <3>2, <3>5
  <2>7. \A c \in DOMAIN t : t[c].tag /\ ~t[c].complete => t[c].ready
    BY <1>2, <1>3, <2>3, <2>4
  <2>8. st = <<>> \/ (Len(st) = 1 /\ DOMAIN st = {1})
    BY <2>1
  <2>9. st # <<>> => /\ FrameDoc(t, st[1]) /\ st[1].ent \in DOMAIN t /\ t[st[1].ent].tag
    BY <1>1, <1>3, <1>4, <2>1, <2>3, <2>4 DEF FrameDoc
  <2>10. DocInv(doc, t, st)
    BY <2>6, <2>7, <2>8, <2>9, OneCallDoc
  <2> QED  BY <1>1, <1>3, <2>10
<1> QED  BY <1>5, <1>6

\* The root stays where it is, in the steps that change one field.
LEMMA PlacesStay ==
  ASSUME ents \in Seq(Entity), NEW k, NEW v,
         \/ ents' = [ents EXCEPT ![k].error = v] \/ ents' = [ents EXCEPT ![k].ready = v]
         \/ ents' = [ents EXCEPT ![k].pos = v] \/ ents' = ents
  PROVE  1 \in DOMAIN ents => ents'[1].at = ents[1].at
<1> SUFFICES ASSUME 1 \in DOMAIN ents PROVE ents'[1].at = ents[1].at
  OBVIOUS
<1>1. PICK x : x = ents[1]
  OBVIOUS
<1>2. x \in Entity
  BY <1>1
<1>3. \/ ents'[1] = [x EXCEPT !.error = v] \/ ents'[1] = [x EXCEPT !.ready = v]
      \/ ents'[1] = [x EXCEPT !.pos = v] \/ ents'[1] = x
  BY <1>1
<1> QED  BY <1>1, <1>2, <1>3 DEF Entity

\* The steps of the calls, and the calls.
LEMMA WorkDoc ==
  ASSUME NInv, DInv, Works, ~ParseOne PROVE DInv'
<1> SUFFICES ASSUME Sound' PROVE DocInv(doc', ents', stack')
  BY DEF DInv
<1>1. stack # <<>> /\ doc' = doc /\ stray' = stray
  BY DEF Works, LeaveInner, SubFails, SubCall, SubDone, ParseAgain, ParseReturns, NextReturns,
         NextTagCalls, NextTagGot, NextTagEnds, readerVars
<1>2. Me \in DOMAIN ents /\ ents \in Seq(Entity)
  BY <1>1, TopFacts DEF NInv, TInv, TreeTypes
<1>3. PICK k, p : k = stack[2].ent /\ p = Mine.pos
  OBVIOUS
<1>4. \/ ents' = [ents EXCEPT ![Me].error = TRUE] \/ ents' = [ents EXCEPT ![Me].ready = TRUE]
      \/ ents' = [ents EXCEPT ![k].pos = p] \/ ents' = ents
  BY <1>3 DEF Works, LeaveInner, SubFails, SubCall, SubDone, ParseAgain, ParseReturns, NextReturns,
         NextTagCalls, NextTagGot, NextTagEnds, ResumePos
<1>5. 1 \in DOMAIN ents => ents'[1].at = ents[1].at
  BY <1>2, <1>4, PlacesStay
<1>6. DocInv(doc, ents, stack) /\ doc \in Seq(STRING) /\ WholeTags(doc)
  BY <1>1, <1>2, <1>5, DocStep
<1> QED  BY <1>6, LeaveInnerDoc, SubFailsDoc, SubCallDoc, SubDoneDoc, ParseAgainDoc, ParseReturnsDoc,
            NextReturnsDoc, NextTagCallsDoc DEF Works

LEMMA CallDoc ==
  ASSUME NInv, DInv, UserCalls PROVE DInv'
<1> SUFFICES ASSUME Sound' PROVE DocInv(doc', ents', stack')
  BY DEF DInv
<1>1. PICK e \in Entities :
        CallParse(e) \/ CallGetNext(e) \/ CallGetNextTag(e) \/ CallUnParse(e) \/ CallReParse(e)
  BY DEF UserCalls
<1>2. /\ e \in DOMAIN ents /\ ents # <<>> /\ doc' = doc /\ (stray => stray')
      /\ ents' = ents \/ ents' = UnParsed(e)
  <2>1. Called(e) /\ UNCHANGED readerVars
    BY <1>1 DEF CallParse, CallGetNext, CallGetNextTag, CallUnParse, CallReParse
  <2>2. (UNCHANGED <<ents, stray>>) \/ (ents' = UnParsed(e) /\ Strays(e))
    BY <1>1 DEF CallParse, CallGetNext, CallGetNextTag, CallUnParse, CallReParse
  <2>3. stray => stray'
    BY <2>2 DEF Strays
  <2> QED  BY <2>1, <2>2, <2>3 DEF Called, Idle, Entities, readerVars
<1>3. ents \in Seq(Entity)
  BY DEF NInv, TInv, TreeTypes
<1>4. 1 \in DOMAIN ents => ents'[1].at = ents[1].at
  <2> SUFFICES ASSUME 1 \in DOMAIN ents, ents' = UnParsed(e) PROVE ents'[1].at = ents[1].at
    BY <1>2
  <2>1. PICK x, o : x = ents[e] /\ o = ents[e].offset
    OBVIOUS
  <2>2. PICK y : y = [x EXCEPT !.kids = <<>>, !.complete = FALSE, !.pos = o, !.ready = TRUE]
    OBVIOUS
  <2>3. y.at = x.at
    BY <1>2, <1>3, <2>1, <2>2 DEF Entity
  <2>4. ents' = [ents EXCEPT ![e] = y]
    BY <2>1, <2>2 DEF UnParsed
  <2> QED  BY <1>3, <2>1, <2>3, <2>4
<1>5. DocInv(doc, ents, stack) /\ doc \in Seq(STRING) /\ WholeTags(doc)
  BY <1>2, <1>4, DocStep
<1>6. ~stray'
  BY DEF Sound
<1> QED  BY <1>1, <1>5, <1>6, UserDoc

\* The invariant of the tree over a document.
LEMMA DFirst == TreeInit => DInv
BY DEF TreeInit, DInv, Sound, WellFormed

LEMMA DStep == NInv /\ DInv /\ [Next]_vars => DInv'
<1> SUFFICES ASSUME NInv, DInv, [Next]_vars PROVE DInv'
  OBVIOUS
<1>1. CASE UNCHANGED vars
  <2>1. doc' = doc /\ ents' = ents /\ stack' = stack /\ stray' = stray
    BY <1>1 DEF vars, treeVars, readerVars
  <2>2. Sound' = Sound
    BY <2>1 DEF Sound, WellFormed
  <2> QED  BY <2>1, <2>2 DEF DInv
<1> QED  BY <1>1, ReadRootDoc, ParseOneDoc, WorkDoc, CallDoc DEF Next, Works

LEMMA TreeOfDocument == TreeSpec => [](NInv /\ DInv)
BY NFirst, NStep, DFirst, DStep, PTL DEF TreeSpec, Spec

(* A complete entity has the children the document has within it, and in its *)
(* order, whatever calls were made (xmltag.cpp:103-162, 174-249): no child is *)
(* read twice or left out, and none of another element's is taken.           *)
THEOREM TreeBecomesDocument == TreeSpec => []TreeIsDocument
<1>1. ASSUME NInv, DInv PROVE TreeIsDocument
  <2> SUFFICES ASSUME ~stray, WellFormed, Fits(doc), NEW e \in Entities, ents[e].complete
               PROVE  LET kids == ents[e].kids
                          place == [n \in DOMAIN kids |-> ents[kids[n]].at]
                      IN /\ Range(place) = Children(doc, ents[e].at)
                         /\ \A n \in DOMAIN place : n > 1 => place[n - 1] < place[n]
    BY DEF TreeIsDocument
  <2> DEFINE x == ents[e]
             place == [n \in DOMAIN x.kids |-> ents[x.kids[n]].at]
  <2>1. e \in DOMAIN ents /\ DocInv(doc, ents, stack)
    BY <1>1 DEF Entities, DInv, Sound
  <2>2. EntDoc(doc, ents, x) /\ x.kids \in Seq(Nat)
    BY <1>1, <2>1, KidsIn DEF DocInv, NInv
  <2>3. KidsDoc(doc, ents, x) /\ x.complete
    BY <2>2 DEF EntDoc
  <2>4. Range(place) = KidAts(ents, x)
    BY DEF Range, KidAts
  <2>5. ASSUME NEW n \in DOMAIN place, n > 1 PROVE place[n - 1] < place[n]
    <3>1. n \in DOMAIN x.kids /\ n - 1 \in DOMAIN x.kids /\ n - 1 < n
      BY <2>2, <2>5
    <3> QED  BY <2>3, <3>1 DEF KidsDoc
  <2> QED  BY <2>3, <2>4, <2>5 DEF KidsDoc
<1> QED  BY <1>1, TreeOfDocument, PTL

(* In a well-formed document no call ends in an error but the one of an      *)
(* element without children, which is complete (xmltag.cpp:189-193).         *)
THEOREM NoErrorIsInvented == TreeSpec => []ErrorsMeanBroken
<1>1. ASSUME NInv, DInv PROVE ErrorsMeanBroken
  <2> SUFFICES ASSUME NEW e \in Entities, ents[e].error, ~stray, WellFormed, Fits(doc)
               PROVE  ents[e].complete /\ ents[e].kids = <<>>
    BY DEF ErrorsMeanBroken
  <2>1. EntDoc(doc, ents, ents[e])
    BY <1>1 DEF Entities, DInv, Sound, DocInv
  <2> QED  BY <2>1 DEF EntDoc, KidsDoc
<1> QED  BY <1>1, TreeOfDocument, PTL

-----------------------------------------------------------------------------
(* parseTag: the buffers *)

Buffers == node \in Seq(Chars \cup {Nul}) /\ name \in Seq(Chars \cup {Nul})
           /\ value \in Seq(Chars \cup {Nul})

(* InBounds is inductive with the buffers' types alone: a turn of the loop   *)
(* that writes has tested all three indices, and adds one to each at most.   *)
BInv == Buffers /\ InBounds

LEMMA AppendFits ==
  ASSUME NEW s \in Seq(Chars \cup {Nul}), Len(s) < Limit,
         NEW x \in Chars \cup {Nul}
  PROVE  /\ Append(s, x) \in Seq(Chars \cup {Nul})
         /\ Len(Append(s, x)) <= Limit
<1>1. Append(s, x) \in Seq(Chars \cup {Nul}) /\ Len(Append(s, x)) = Len(s) + 1
  OBVIOUS
<1> QED BY <1>1, TagTextAssumption

LEMMA EmptyFits == <<>> \in Seq(Chars \cup {Nul}) /\ Len(<<>>) <= Limit
  BY TagTextAssumption

LEMMA BoundsInit == TagInit => BInv
  BY TagTextAssumption DEF TagInit, BInv, Buffers, InBounds

LEMMA KeepBounds == BInv /\ Keep => name' = <<>> /\ value' = <<>>
  BY DEF Keep

LEMMA BoundsNext == BInv /\ [TagNext]_tagVars => BInv'
<1> SUFFICES ASSUME BInv, [TagNext]_tagVars
             PROVE  BInv'
    OBVIOUS
<1> USE TagTextAssumption DEF BInv, Buffers, InBounds
<1>1. CASE TagStart
  BY <1>1 DEF TagStart
<1>2. CASE TooLong
  BY <1>2 DEF TooLong
<1>3. CASE End
  BY <1>3 DEF End
<1>4. ASSUME NEW c \in Chars, NodeChar(c)
      PROVE  BInv'
  <2>1. Len(node) < Limit /\ UNCHANGED <<name, value>>
    BY <1>4 DEF NodeChar, turn, full
  <2>2. node' \in {Append(node, c), Append(node, Nul)}
    BY <1>4 DEF NodeChar
  <2> QED BY <2>1, <2>2, AppendFits
<1>5. ASSUME NEW c \in Chars, WsNameChar(c)
      PROVE  BInv'
  <2>1. Len(name) < Limit /\ UNCHANGED <<node, value>>
    BY <1>5 DEF WsNameChar, turn, full
  <2>2. name' \in {Append(name, c), name}
    BY <1>5 DEF WsNameChar
  <2> QED BY <2>1, <2>2, AppendFits
<1>6. ASSUME NEW c \in Chars, NameChar(c)
      PROVE  BInv'
  <2>1. Len(name) < Limit /\ UNCHANGED node
    BY <1>6 DEF NameChar, turn, full
  <2>2. \/ name' \in {Append(name, c), name} /\ value' = value
        \/ name' = <<>> /\ value' = <<>>
    BY <1>6, KeepBounds DEF NameChar
  <2>3. node' \in Seq(Chars \cup {Nul}) /\ Len(node') <= Limit
    BY <2>1
  <2>4. name' \in Seq(Chars \cup {Nul}) /\ Len(name') <= Limit
    BY <2>1, <2>2, AppendFits, EmptyFits
  <2>5. value' \in Seq(Chars \cup {Nul}) /\ Len(value') <= Limit
    BY <2>1, <2>2, AppendFits, EmptyFits
  <2> QED BY <2>3, <2>4, <2>5
<1>7. ASSUME NEW c \in Chars, ValueChar(c)
      PROVE  BInv'
  <2>1. Len(value) < Limit /\ UNCHANGED node
    BY <1>7 DEF ValueChar, turn, full
  <2>2. \/ value' \in {Append(value, c), value} /\ name' = name
        \/ name' = <<>> /\ value' = <<>>
    BY <1>7, KeepBounds DEF ValueChar
  <2>3. node' \in Seq(Chars \cup {Nul}) /\ Len(node') <= Limit
    BY <2>1
  <2>4. name' \in Seq(Chars \cup {Nul}) /\ Len(name') <= Limit
    BY <2>1, <2>2, AppendFits, EmptyFits
  <2>5. value' \in Seq(Chars \cup {Nul}) /\ Len(value') <= Limit
    BY <2>1, <2>2, AppendFits, EmptyFits
  <2> QED BY <2>3, <2>4, <2>5
<1>8. CASE UNCHANGED tagVars
  BY <1>8 DEF tagVars
<1> QED BY <1>1, <1>2, <1>3, <1>4, <1>5, <1>6, <1>7, <1>8 DEF TagNext

(* The buffers of parseTag are never written past their last index (the test *)
(* of xmltag.cpp:356), whatever text the reader cut out of the document.     *)
THEOREM TagBuffersHold == TagSpec => []InBounds
<1>1. TagSpec => []BInv
  BY BoundsInit, BoundsNext, PTL DEF TagSpec
<1> QED BY <1>1, PTL DEF BInv

-----------------------------------------------------------------------------
(* What the loop has read of a tag *)

\* s begins as t does.
Begins(s, t) == Len(s) <= Len(t) /\ \A j \in 1..Len(s) : s[j] = t[j]

Args == tag.args
Ends == tag.ends
Done == Len(m_arguments)
Lead == IF tag.closing THEN 1 ELSE 0
Buffer == Seq(Chars \cup {Nul})

\* The text without its last slash, and the arguments that were kept.
Cut ==
  /\ Len(src) = Ends[Len(Args)] /\ \A k \in 1..Len(src) : src[k] = tag.text[k]
  /\ m_closing = tag.closing /\ m_selfClosing = tag.selfClosing
Kept ==
  /\ m_arguments \in Seq(Buffer \X Buffer) /\ Done <= Len(Args)
  /\ \A k \in 1..Done : m_arguments[k] = <<Args[k].name, Args[k].value>>

\* Where the loop is, state by state: behind the arguments that were kept, in
\* the blank in front of the next one, in its name or in its value.
AtNode ==
  /\ Done = 0 /\ Begins(node, tag.name) /\ src_i = Lead + Len(node)
  /\ name = <<>> /\ value = <<>>
AtBlank ==
  /\ m_name = tag.name /\ name = <<>> /\ value = <<>>
  /\ src_i = Ends[Done] \/ (Done < Len(Args) /\ src_i = Ends[Done] + 1)
AtName ==
  /\ m_name = tag.name /\ Done < Len(Args)
  /\ Begins(name, Args[Done + 1].name) /\ value = <<>>
  /\ src_i = Ends[Done] + 1 + Len(name)
AtValue ==
  /\ m_name = tag.name /\ Done < Len(Args)
  /\ name = Args[Done + 1].name /\ Begins(value, Args[Done + 1].value)
  /\ first \in BOOLEAN /\ quoted = (Args[Done + 1].quoted /\ ~first) /\ ~skipquote
  /\ first => value = <<>>
  /\ src_i = Ends[Done] + 2 + Len(name) + Len(value) + (IF quoted THEN 1 ELSE 0)

LoopInv ==
  /\ Cut /\ Kept
  /\ \/ stat = "node" /\ AtNode
     \/ stat = "wsname" /\ AtBlank
     \/ stat = "name" /\ AtName
     \/ stat = "value" /\ AtValue

TagInv ==
  tag # NoTag =>
    /\ isTag(tag)
    /\ outcome = "running" /\ stat = "start" =>
         src = tag.text /\ m_arguments = <<>> /\ node = <<>> /\ name = <<>> /\ value = <<>>
    /\ outcome = "running" /\ stat # "start" => LoopInv
    /\ TagReturns

-----------------------------------------------------------------------------
(* The text of a tag, a character at a time *)

LEMMA Piece ==
  ASSUME NEW s \in Seq(Chars), NEW q \in Seq(Chars), NEW b \in Nat, NEW e \in Nat,
         b <= e, e <= Len(s), SubSeq(s, b + 1, e) = q
  PROVE  e = b + Len(q) /\ \A j \in 1..Len(q) : s[b + j] = q[j]
<1>1. Len(SubSeq(s, b + 1, e)) = e - b
  OBVIOUS
<1>2. \A j \in 1..(e - b) : SubSeq(s, b + 1, e)[j] = s[b + j]
  OBVIOUS
<1> QED  BY <1>1, <1>2

\* The places in the text of t, and its types.
LEMMA TagTypes ==
  ASSUME NEW t, isTag(t)
  PROVE  /\ Len(t.args) \in Nat /\ Len(t.text) \in Nat
         /\ \A k \in 0..Len(t.args) : t.ends[k] \in Nat /\ t.ends[k] <= Len(t.text)
         /\ \A j, k \in 0..Len(t.args) : j < k => t.ends[j] < t.ends[k]
         /\ t.text \in Seq(Chars) /\ t.name \in Seq(Chars \ {Blank})
         /\ t.args \in Seq(Arguments)
BY DEF isTag

\* h is p followed by q; x has the one character c; or one, if f.
Joins(h, p, q) ==
  /\ h = p \o q /\ Len(h) = Len(p) + Len(q)
  /\ \A j \in 1..Len(p) : h[j] = p[j]
  /\ \A j \in 1..Len(q) : h[Len(p) + j] = q[j]
Single(x, c) == x = <<c>> /\ Len(x) = 1 /\ x[1] = c
SlashIf(x, f) ==
  /\ x = IF f THEN <<Slash>> ELSE <<>>
  /\ Len(x) = IF f THEN 1 ELSE 0
  /\ f => x[1] = Slash

LEMMA Join ==
  ASSUME NEW p \in Seq(Chars), NEW q \in Seq(Chars)
  PROVE  \E h \in Seq(Chars) : Joins(h, p, q)
<1>1. /\ p \o q \in Seq(Chars) /\ Len(p \o q) = Len(p) + Len(q)
      /\ \A j \in 1..Len(p) : (p \o q)[j] = p[j]
      /\ \A j \in 1..Len(q) : (p \o q)[Len(p) + j] = q[j]
  OBVIOUS
<1>2. Joins(p \o q, p, q)
  BY <1>1, Zenon DEF Joins
<1> QED  BY <1>1, <1>2, Zenon

LEMMA One ==
  ASSUME NEW c \in Chars
  PROVE  \E x \in Seq(Chars) : Single(x, c)
<1>1. <<c>> \in Seq(Chars) /\ Len(<<c>>) = 1 /\ <<c>>[1] = c
  OBVIOUS
<1>2. Single(<<c>>, c)
  BY <1>1, Zenon DEF Single
<1> QED  BY <1>1, <1>2, Zenon

LEMMA Slashes ==
  ASSUME NEW f \in BOOLEAN
  PROVE  \E x \in Seq(Chars) : SlashIf(x, f)
<1>1. CASE f
  <2>1. Slash \in Chars
    BY DEF Chars
  <2>2. PICK x \in Seq(Chars) : Single(x, Slash)
    BY <2>1, One, Zenon
  <2>3. SlashIf(x, f)
    BY <1>1, <2>2, Zenon DEF SlashIf, Single
  <2> QED  BY <2>3
<1>2. CASE ~f
  <2>1. <<>> \in Seq(Chars) /\ Len(<<>>) = 0
    OBVIOUS
  <2>2. <<>> = (IF f THEN <<Slash>> ELSE <<>>) /\ 0 = (IF f THEN 1 ELSE 0)
    BY <1>2, Zenon
  <2>3. SlashIf(<<>>, f)
    BY <1>2, <2>1, <2>2, Zenon DEF SlashIf
  <2> QED  BY <2>1, <2>3, Zenon
<1> QED  BY <1>1, <1>2

LEMMA NameText ==
  ASSUME NEW t, isTag(t)
  PROVE  /\ t.ends[0] = (IF t.closing THEN 1 ELSE 0) + Len(t.name)
         /\ t.closing => t.text[1] = Slash
         /\ \A j \in 1..Len(t.name) :
              t.text[(IF t.closing THEN 1 ELSE 0) + j] = t.name[j] /\ t.name[j] # Blank
<1>1. 0 \in 0..Len(t.args) /\ t.text \in Seq(Chars)
  BY TagTypes
<1>2. /\ t.name \in Seq(Chars) /\ Len(t.name) \in Nat
      /\ \A j \in 1..Len(t.name) : t.name[j] # Blank
  BY TagTypes
<1>3. t.closing \in BOOLEAN
  BY DEF isTag
<1>4. PICK q \in Seq(Chars) : SlashIf(q, t.closing)
  BY <1>3, Slashes, Zenon
<1>5. PICK h \in Seq(Chars) : Joins(h, q, t.name)
  BY <1>2, Join, Zenon
<1>6. PICK e : e = t.ends[0]
  OBVIOUS
<1>7. e \in Nat /\ 0 \in Nat /\ 0 <= e /\ e <= Len(t.text) /\ 0 + 1 = 1
  BY <1>1, <1>6, TagTypes
<1>8. SubSeq(t.text, 0 + 1, e) = h
  BY <1>4, <1>5, <1>6, <1>7, Zenon DEF isTag, SlashIf, Joins
<1>9. e = 0 + Len(h) /\ \A j \in 1..Len(h) : t.text[0 + j] = h[j]
  BY <1>1, <1>7, <1>8, Piece
<1>10. PICK l \in Nat, n \in Nat : l = Len(q) /\ n = Len(t.name)
  BY <1>2
<1>11. /\ Len(h) = l + n /\ \A j \in 1..l : h[j] = q[j]
       /\ \A j \in 1..n : h[l + j] = t.name[j]
  BY <1>5, <1>10, Zenon DEF Joins
<1>12. e = l + n /\ \A j \in 1..(l + n) : t.text[j] = h[j]
  BY <1>9, <1>10, <1>11
<1>13. \A j \in 1..n : t.text[l + j] = t.name[j]
  BY <1>10, <1>11, <1>12
<1>14. \A j \in 1..l : t.text[j] = q[j]
  BY <1>10, <1>11, <1>12
<1>15. l = (IF t.closing THEN 1 ELSE 0) /\ (t.closing => q[1] = Slash)
  BY <1>4, <1>10, Zenon DEF SlashIf
<1>16. t.closing => t.text[1] = Slash
  BY <1>14, <1>15
<1> QED  BY <1>2, <1>6, <1>10, <1>12, <1>13, <1>15, <1>16, Zenon

\* The characters of an argument, by the lengths of its parts.
ArgChars(text, b, a) ==
  LET n == Len(a.name)
      v == Len(a.value)
  IN  /\ text[b + 1] = Blank /\ text[b + 2 + n] = Equals
      /\ \A j \in 1..n : text[b + 1 + j] = a.name[j]
      /\ IF a.quoted
         THEN /\ text[b + 3 + n] = Quote /\ text[b + 4 + n + v] = Quote
              /\ \A j \in 1..v : text[b + 3 + n + j] = a.value[j]
         ELSE \A j \in 1..v : text[b + 2 + n + j] = a.value[j]
ArgLen(a) == 2 + Len(a.name) + Len(a.value) + (IF a.quoted THEN 2 ELSE 0)

LEMMA ArgumentTypes ==
  ASSUME NEW a \in Arguments
  PROVE  /\ a.name \in Seq(Chars) /\ a.value \in Seq(Chars) /\ a.quoted \in BOOLEAN
         /\ Len(a.name) \in Nat \ {0} /\ Len(a.value) \in Nat
         /\ \A j \in 1..Len(a.name) : a.name[j] \notin {Blank, Equals}
         /\ \A j \in 1..Len(a.value) : a.value[j] \notin {Quote, Backslash}
         /\ ~a.quoted => \A j \in 1..Len(a.value) : a.value[j] # Blank
<1>1. /\ a.name \in Seq(Chars \ {Blank, Equals}) /\ a.value \in Seq(Chars \ {Quote, Backslash})
      /\ a.quoted \in BOOLEAN /\ a.name # <<>>
      /\ ~a.quoted => \A j \in 1..Len(a.value) : a.value[j] # Blank
  BY DEF Arguments
<1> QED  BY <1>1

LEMMA ArgumentText ==
  ASSUME NEW a \in Arguments
  PROVE  \E q \in Seq(Chars) : q = argument(a) /\ Len(q) = ArgLen(a) /\ ArgChars(q, 0, a)
<1>1. PICK n \in Nat, v \in Nat : n = Len(a.name) /\ v = Len(a.value)
  BY ArgumentTypes
<1>2. a.name \in Seq(Chars) /\ a.value \in Seq(Chars) /\ a.quoted \in BOOLEAN
  BY ArgumentTypes
<1>3. PICK x \in Seq(Chars), y \in Seq(Chars), z \in Seq(Chars) :
        Single(x, Blank) /\ Single(y, Equals) /\ Single(z, Quote)
  <2>1. Blank \in Chars /\ Equals \in Chars /\ Quote \in Chars
    BY DEF Chars
  <2> QED  BY <2>1, One, Zenon
<1>4. PICK p \in Seq(Chars) : Joins(p, x, a.name)
  BY <1>2, Join, Zenon
<1>5. PICK h \in Seq(Chars) : Joins(h, p, y)
  BY Join, Zenon
<1>6. Len(x) = 1 /\ x[1] = Blank /\ Len(y) = 1 /\ y[1] = Equals /\ Len(z) = 1 /\ z[1] = Quote
  BY <1>3, Zenon DEF Single
<1>7. /\ Len(h) = n + 2 /\ h[1] = Blank /\ h[n + 2] = Equals
      /\ \A j \in 1..n : h[1 + j] = a.name[j]
  <2>1. /\ Len(p) = 1 + n /\ \A j \in 1..1 : p[j] = x[j]
        /\ \A j \in 1..n : p[1 + j] = a.name[j]
    BY <1>1, <1>4, <1>6, Zenon DEF Joins
  <2>2. /\ Len(h) = (1 + n) + 1 /\ \A j \in 1..(1 + n) : h[j] = p[j]
        /\ \A j \in 1..1 : h[(1 + n) + j] = y[j]
    BY <1>5, <1>6, <2>1, Zenon DEF Joins
  <2> QED  BY <1>6, <2>1, <2>2
<1>8. PICK tl \in Seq(Chars) :
        /\ tl = IF a.quoted THEN <<Quote>> \o a.value \o <<Quote>> ELSE a.value
        /\ Len(tl) = v + (IF a.quoted THEN 2 ELSE 0)
        /\ a.quoted => /\ tl[1] = Quote /\ tl[v + 2] = Quote
                       /\ \A j \in 1..v : tl[1 + j] = a.value[j]
        /\ ~a.quoted => \A j \in 1..v : tl[j] = a.value[j]
  <2>1. CASE ~a.quoted
    <3>1. Len(a.value) = v + 0
      BY <1>1
    <3> QED  BY <1>2, <2>1, <3>1, Zenon
  <2>2. CASE a.quoted
    <3>1. PICK g \in Seq(Chars) : Joins(g, z, a.value)
      BY <1>2, Join, Zenon
    <3>2. PICK w \in Seq(Chars) : Joins(w, g, z)
      BY Join, Zenon
    <3>3. /\ Len(g) = 1 + v /\ \A j \in 1..1 : g[j] = z[j]
          /\ \A j \in 1..v : g[1 + j] = a.value[j]
      BY <1>1, <1>6, <3>1, Zenon DEF Joins
    <3>4. /\ Len(w) = (1 + v) + 1 /\ \A j \in 1..(1 + v) : w[j] = g[j]
          /\ \A j \in 1..1 : w[(1 + v) + j] = z[j]
      BY <1>6, <3>2, <3>3, Zenon DEF Joins
    <3>5. /\ Len(w) = v + 2 /\ w[1] = Quote /\ w[v + 2] = Quote
          /\ \A j \in 1..v : w[1 + j] = a.value[j]
      BY <1>6, <3>3, <3>4
    <3>6. w = <<Quote>> \o a.value \o <<Quote>>
      BY <1>3, <3>1, <3>2, Zenon DEF Joins, Single
    <3> QED  BY <2>2, <3>5, <3>6, Zenon
  <2> QED  BY <2>1, <2>2, Zenon
<1>9. PICK q \in Seq(Chars) : Joins(q, h, tl)
  BY Join, Zenon
<1>10. q = argument(a)
  BY <1>3, <1>4, <1>5, <1>8, <1>9, Zenon DEF argument, Joins, Single
<1>11. Len(q) = Len(h) + Len(tl)
       /\ (\A j \in 1..Len(h) : q[j] = h[j]) /\ (\A j \in 1..Len(tl) : q[Len(h) + j] = tl[j])
  BY <1>9, Zenon DEF Joins
<1>12. PICK k \in Nat : k = Len(tl) /\ k = v + (IF a.quoted THEN 2 ELSE 0)
  BY <1>8
<1>13. /\ Len(q) = n + 2 + k /\ \A j \in 1..(n + 2) : q[j] = h[j]
       /\ \A j \in 1..k : q[n + 2 + j] = tl[j]
  BY <1>7, <1>11, <1>12
<1>14. Len(q) = ArgLen(a)
  <2>1. n + 2 + (v + 0) = 2 + n + v + 0 /\ n + 2 + (v + 2) = 2 + n + v + 2
    OBVIOUS
  <2> QED  BY <1>1, <1>12, <1>13, <2>1 DEF ArgLen
<1>15. /\ q[1] = Blank /\ q[2 + n] = Equals /\ \A j \in 1..n : q[1 + j] = a.name[j]
  <2>1. \A j \in 1..(n + 2) : q[j] = h[j]
    BY <1>13
  <2> QED  BY <1>7, <2>1
<1>16. ASSUME a.quoted
       PROVE  /\ q[3 + n] = Quote /\ q[4 + n + v] = Quote
              /\ \A j \in 1..v : q[3 + n + j] = a.value[j]
  <2>1. \A j \in 1..(v + 2) : q[n + 2 + j] = tl[j]
    BY <1>12, <1>13, <1>16
  <2>2. /\ n + 2 + 1 = 3 + n /\ n + 2 + (v + 2) = 4 + n + v
        /\ 1 \in 1..(v + 2) /\ v + 2 \in 1..(v + 2)
        /\ \A j \in 1..v : n + 2 + (1 + j) = 3 + n + j /\ 1 + j \in 1..(v + 2)
    OBVIOUS
  <2>3. tl[1] = Quote /\ tl[v + 2] = Quote /\ \A j \in 1..v : tl[1 + j] = a.value[j]
    BY <1>8, <1>16, Zenon
  <2>4. \A j \in 1..v : q[3 + n + j] = a.value[j]
    <3>1. TAKE j \in 1..v
    <3>2. q[n + 2 + (1 + j)] = tl[1 + j] /\ n + 2 + (1 + j) = 3 + n + j
      BY <2>1, <2>2, Zenon
    <3> QED  BY <2>3, <3>2, Zenon
  <2>5. q[n + 2 + 1] = tl[1] /\ q[n + 2 + (v + 2)] = tl[v + 2]
    BY <2>1, <2>2, Zenon
  <2> QED  BY <2>2, <2>3, <2>4, <2>5, Zenon
<1>17. ASSUME ~a.quoted PROVE \A j \in 1..v : q[2 + n + j] = a.value[j]
  <2>1. \A j \in 1..v : q[n + 2 + j] = tl[j]
    BY <1>12, <1>13, <1>17
  <2>2. \A j \in 1..v : tl[j] = a.value[j]
    BY <1>8, <1>17, Zenon
  <2> QED  BY <2>1, <2>2
<1>18. /\ 0 + 1 = 1 /\ 0 + 2 + n = 2 + n /\ 0 + 3 + n = 3 + n /\ 0 + 4 + n + v = 4 + n + v
       /\ \A j \in 1..n : 0 + 1 + j = 1 + j
       /\ \A j \in 1..v : 0 + 3 + n + j = 3 + n + j /\ 0 + 2 + n + j = 2 + n + j
  OBVIOUS
<1>19. ArgChars(q, 0, a)
  <2>1. /\ q[0 + 1] = Blank /\ q[0 + 2 + n] = Equals
        /\ \A j \in 1..n : q[0 + 1 + j] = a.name[j]
    BY <1>15, <1>18, Zenon
  <2>2. a.quoted => /\ q[0 + 3 + n] = Quote /\ q[0 + 4 + n + v] = Quote
                    /\ \A j \in 1..v : q[0 + 3 + n + j] = a.value[j]
    BY <1>16, <1>18, Zenon
  <2>3. ~a.quoted => \A j \in 1..v : q[0 + 2 + n + j] = a.value[j]
    BY <1>17, <1>18, Zenon
  <2> QED  BY <1>1, <2>1, <2>2, <2>3, Zenon DEF ArgChars
<1> QED  BY <1>10, <1>14, <1>19, Zenon

\* Argument k + 1 in the text of t.
LEMMA ArgText ==
  ASSUME NEW t, isTag(t), NEW k \in 0..(Len(t.args) - 1)
  PROVE  /\ t.args[k + 1] \in Arguments
         /\ t.ends[k + 1] = t.ends[k] + ArgLen(t.args[k + 1])
         /\ ArgChars(t.text, t.ends[k], t.args[k + 1])
<1>1. /\ k + 1 \in 1..Len(t.args) /\ k \in 0..Len(t.args) /\ k + 1 \in 0..Len(t.args)
      /\ k < k + 1 /\ (k + 1) - 1 = k
  BY TagTypes
<1>2. PICK a, b, e : a = t.args[k + 1] /\ b = t.ends[k] /\ e = t.ends[k + 1]
  OBVIOUS
<1>3. a \in Arguments
  BY <1>1, <1>2, TagTypes
<1>4. b \in Nat /\ e \in Nat /\ b <= e /\ e <= Len(t.text) /\ t.text \in Seq(Chars)
  BY <1>1, <1>2, TagTypes
<1>5. PICK q \in Seq(Chars) : q = argument(a) /\ Len(q) = ArgLen(a) /\ ArgChars(q, 0, a)
  BY <1>3, ArgumentText
<1>6. SubSeq(t.text, b + 1, e) = q
  BY <1>1, <1>2, <1>5, Zenon DEF isTag
<1>7. e = b + Len(q) /\ \A j \in 1..Len(q) : t.text[b + j] = q[j]
  <2>1. t.text \in Seq(Chars) /\ q \in Seq(Chars) /\ b \in Nat /\ e \in Nat
        /\ b <= e /\ e <= Len(t.text)
    BY <1>4
  <2> QED  BY <1>6, <2>1, Piece
<1>8. PICK n \in Nat, v \in Nat : n = Len(a.name) /\ v = Len(a.value)
  BY <1>3, ArgumentTypes
<1>9. \A j \in 1..(2 + n + v + (IF a.quoted THEN 2 ELSE 0)) : t.text[b + j] = q[j]
  BY <1>5, <1>7, <1>8 DEF ArgLen
<1>10. /\ q[1] = Blank /\ q[2 + n] = Equals /\ \A j \in 1..n : q[1 + j] = a.name[j]
       /\ a.quoted => /\ q[3 + n] = Quote /\ q[4 + n + v] = Quote
                      /\ \A j \in 1..v : q[3 + n + j] = a.value[j]
       /\ ~a.quoted => \A j \in 1..v : q[2 + n + j] = a.value[j]
  <2>1. /\ q[0 + 1] = Blank /\ q[0 + 2 + n] = Equals
        /\ \A j \in 1..n : q[0 + 1 + j] = a.name[j]
        /\ a.quoted => /\ q[0 + 3 + n] = Quote /\ q[0 + 4 + n + v] = Quote
                       /\ \A j \in 1..v : q[0 + 3 + n + j] = a.value[j]
        /\ ~a.quoted => \A j \in 1..v : q[0 + 2 + n + j] = a.value[j]
    BY <1>5, <1>8, Zenon DEF ArgChars
  <2>2. /\ 0 + 1 = 1 /\ 0 + 2 + n = 2 + n /\ 0 + 3 + n = 3 + n /\ 0 + 4 + n + v = 4 + n + v
        /\ \A j \in 1..n : 0 + 1 + j = 1 + j
        /\ \A j \in 1..v : 0 + 3 + n + j = 3 + n + j /\ 0 + 2 + n + j = 2 + n + j
    OBVIOUS
  <2> QED  BY <2>1, <2>2, Zenon
<1>11. /\ t.text[b + 1] = Blank /\ t.text[b + 2 + n] = Equals
       /\ \A j \in 1..n : t.text[b + 1 + j] = a.name[j]
  <2>1. a.quoted \in BOOLEAN
    BY <1>3, ArgumentTypes
  <2>2. \A j \in 1..(2 + n) : t.text[b + j] = q[j]
    BY <1>9, <2>1
  <2>3. \A j \in 1..n : 1 + j \in 1..(2 + n) /\ b + (1 + j) = b + 1 + j
    BY <1>4
  <2>4. 1 \in 1..(2 + n) /\ 2 + n \in 1..(2 + n) /\ b + (2 + n) = b + 2 + n
    BY <1>4
  <2> QED  BY <1>10, <2>2, <2>3, <2>4
<1>12. ASSUME a.quoted
       PROVE  /\ t.text[b + 3 + n] = Quote /\ t.text[b + 4 + n + v] = Quote
              /\ \A j \in 1..v : t.text[b + 3 + n + j] = a.value[j]
  <2>1. \A j \in 1..(4 + n + v) : t.text[b + j] = q[j]
    BY <1>9, <1>12
  <2>2. /\ 3 + n \in 1..(4 + n + v) /\ b + (3 + n) = b + 3 + n
        /\ 4 + n + v \in 1..(4 + n + v) /\ b + (4 + n + v) = b + 4 + n + v
    BY <1>4
  <2>3. \A j \in 1..v : 3 + n + j \in 1..(4 + n + v) /\ b + (3 + n + j) = b + 3 + n + j
    BY <1>4
  <2> QED  BY <1>10, <1>12, <2>1, <2>2, <2>3
<1>13. ASSUME ~a.quoted PROVE \A j \in 1..v : t.text[b + 2 + n + j] = a.value[j]
  <2>1. \A j \in 1..(2 + n + v) : t.text[b + j] = q[j]
    BY <1>9, <1>13
  <2>2. \A j \in 1..v : 2 + n + j \in 1..(2 + n + v) /\ b + (2 + n + j) = b + 2 + n + j
    BY <1>4
  <2> QED  BY <1>10, <1>13, <2>1, <2>2
<1>14. ArgChars(t.text, b, a)
  BY <1>8, <1>11, <1>12, <1>13 DEF ArgChars
<1> QED  BY <1>2, <1>3, <1>5, <1>7, <1>14

LEMMA EndText ==
  ASSUME NEW t, isTag(t)
  PROVE  /\ Len(t.text) = t.ends[Len(t.args)] + (IF t.selfClosing THEN 1 ELSE 0)
         /\ (t.text[Len(t.text)] = Slash) = t.selfClosing
<1>1. PICK n, e : n = Len(t.args) /\ e = t.ends[n]
  OBVIOUS
<1>2. n \in Nat /\ e \in Nat /\ e <= Len(t.text) /\ Len(t.text) \in Nat /\ t.text \in Seq(Chars)
  BY <1>1, TagTypes
<1>3. SubSeq(t.text, e + 1, Len(t.text)) = IF t.selfClosing THEN <<Slash>> ELSE <<>>
  BY <1>1 DEF isTag
<1>4. PICK q \in Seq(Chars) : SlashIf(q, t.selfClosing)
  <2>1. t.selfClosing \in BOOLEAN
    BY DEF isTag
  <2> QED  BY <2>1, Slashes, Zenon
<1>5. SubSeq(t.text, e + 1, Len(t.text)) = q
  BY <1>3, <1>4, Zenon DEF SlashIf
<1>6. Len(t.text) = e + Len(q) /\ \A j \in 1..Len(q) : t.text[e + j] = q[j]
  <2>1. PICK m : m = Len(t.text)
    OBVIOUS
  <2>2. t.text \in Seq(Chars) /\ q \in Seq(Chars) /\ e \in Nat /\ m \in Nat
        /\ e <= m /\ m <= Len(t.text)
    BY <1>2, <2>1
  <2>3. SubSeq(t.text, e + 1, m) = q
    BY <1>5, <2>1
  <2>4. m = e + Len(q) /\ \A j \in 1..Len(q) : t.text[e + j] = q[j]
    BY <2>2, <2>3, Piece, Zenon
  <2> QED  BY <2>1, <2>4, Zenon
<1>7. Len(q) = IF t.selfClosing THEN 1 ELSE 0
  BY <1>4, Zenon DEF SlashIf
<1>8. t.selfClosing => q[1] = Slash
  BY <1>4, Zenon DEF SlashIf
<1>9. t.selfClosing \in BOOLEAN /\ (~t.selfClosing => t.text[Len(t.text)] # Slash)
  BY DEF isTag
<1> QED  BY <1>1, <1>2, <1>6, <1>7, <1>8, <1>9

-----------------------------------------------------------------------------
(* One turn of the loop *)

LEMMA BlankIsBlank ==
  /\ Blank # Equals /\ Blank # Quote /\ Blank # Backslash /\ Blank # Slash
  /\ Equals # Quote /\ Quote # Backslash
BY DEF Blank, Equals, Quote, Backslash, Slash

LEMMA BeginsNothing ==
  ASSUME NEW t \in Seq(Chars)
  PROVE  Begins(<<>>, t)
BY DEF Begins

LEMMA BeginsMore ==
  ASSUME NEW p \in Buffer, NEW t \in Seq(Chars), Begins(p, t), Len(p) < Len(t),
         NEW c \in Chars, c = t[Len(p) + 1]
  PROVE  Begins(Append(p, c), t) /\ Len(Append(p, c)) = Len(p) + 1
<1>1. /\ Len(Append(p, c)) = Len(p) + 1
      /\ \A j \in 1..Len(p) : Append(p, c)[j] = p[j]
      /\ Append(p, c)[Len(p) + 1] = c
  BY DEF Buffer
<1>2. PICK n \in Nat, m \in Nat : n = Len(p) /\ m = Len(t)
  BY DEF Buffer
<1>3. \A j \in 1..(n + 1) : j \in 1..n \/ j = n + 1
  OBVIOUS
<1>4. \A j \in 1..n : p[j] = t[j]
  BY <1>2 DEF Begins
<1>5. \A j \in 1..(n + 1) : Append(p, c)[j] = t[j]
  BY <1>1, <1>2, <1>3, <1>4, Zenon
<1>6. n + 1 <= m
  BY <1>2
<1> QED  BY <1>1, <1>2, <1>5, <1>6 DEF Begins

LEMMA BeginsWhole ==
  ASSUME NEW p \in Buffer, NEW t \in Seq(Chars), Begins(p, t), Len(p) = Len(t)
  PROVE  p = t
<1>1. t \in Buffer
  BY DEF Buffer
<1>2. \A j \in 1..Len(p) : p[j] = t[j]
  BY DEF Begins
<1> QED  BY <1>1, <1>2, SeqEqual DEF Buffer

LEMMA BeginsLength ==
  ASSUME NEW p \in Buffer, NEW t \in Seq(Chars), Begins(p, t)
  PROVE  Len(p) \in Nat /\ Len(t) \in Nat /\ Len(p) <= Len(t)
BY DEF Begins, Buffer

\* The next argument of t behind place b, of n and v characters.
NextArg(t, d, b, a, n, v) ==
  /\ a \in Arguments /\ a = t.args[d + 1] /\ b = t.ends[d]
  /\ b \in Nat /\ n \in Nat \ {0} /\ v \in Nat /\ n = Len(a.name) /\ v = Len(a.value)
  /\ a.quoted \in BOOLEAN
  /\ t.ends[d + 1] = b + 2 + n + v + (IF a.quoted THEN 2 ELSE 0)
  /\ t.text[b + 1] = Blank /\ t.text[b + 2 + n] = Equals
  /\ \A j \in 1..n : t.text[b + 1 + j] = a.name[j]
  /\ a.quoted => /\ t.text[b + 3 + n] = Quote /\ t.text[b + 4 + n + v] = Quote
                 /\ \A j \in 1..v : t.text[b + 3 + n + j] = a.value[j]
  /\ ~a.quoted => \A j \in 1..v : t.text[b + 2 + n + j] = a.value[j]

LEMMA NextArgument ==
  ASSUME NEW t, isTag(t), NEW d \in 0..(Len(t.args) - 1)
  PROVE  \E b \in Nat, a \in Arguments, n \in Nat \ {0}, v \in Nat : NextArg(t, d, b, a, n, v)
<1>1. PICK b, a : b = t.ends[d] /\ a = t.args[d + 1]
  OBVIOUS
<1>2. a \in Arguments /\ t.ends[d + 1] = b + ArgLen(a) /\ ArgChars(t.text, b, a)
  BY <1>1, ArgText
<1>3. PICK n \in Nat \ {0}, v \in Nat : n = Len(a.name) /\ v = Len(a.value)
  BY <1>2, ArgumentTypes
<1>4. a.quoted \in BOOLEAN
  BY <1>2, ArgumentTypes
<1>5. b \in Nat
  BY <1>1, TagTypes
<1>6. t.ends[d + 1] = b + 2 + n + v + (IF a.quoted THEN 2 ELSE 0)
  <2>1. ArgLen(a) = 2 + n + v + (IF a.quoted THEN 2 ELSE 0)
    BY <1>3, Zenon DEF ArgLen
  <2>2. \A x \in Nat : b + (2 + n + v + x) = b + 2 + n + v + x
    <3>1. b \in Nat /\ n \in Nat /\ v \in Nat
      BY <1>3, <1>5
    <3>2. TAKE x \in Nat
    <3> QED  BY <3>1
  <2>3. (IF a.quoted THEN 2 ELSE 0) \in Nat
    OBVIOUS
  <2> QED  BY <1>2, <2>1, <2>2, <2>3, Zenon
<1>7. NextArg(t, d, b, a, n, v)
  BY <1>1, <1>2, <1>3, <1>4, <1>5, <1>6, Zenon DEF NextArg, ArgChars
<1> QED  BY <1>2, <1>3, <1>5, <1>7, Zenon

\* A tag's text ends behind its last argument or has another one to read.
LEMMA MoreText ==
  ASSUME NEW t, isTag(t), NEW d \in 0..Len(t.args)
  PROVE  /\ Len(t.args) \in Nat /\ t.ends[d] \in Nat /\ t.ends[Len(t.args)] \in Nat
         /\ d < Len(t.args) => d \in 0..(Len(t.args) - 1) /\ d + 1 \in 0..Len(t.args)
         /\ t.ends[d] <= t.ends[Len(t.args)]
         /\ t.ends[d] < t.ends[Len(t.args)] => d < Len(t.args)
         /\ d < Len(t.args) => t.ends[d + 1] <= t.ends[Len(t.args)]
         /\ d < Len(t.args) => t.ends[d + 1] \in Nat
<1>1. PICK m \in Nat : m = Len(t.args)
  BY TagTypes
<1>2. m \in 0..m /\ d \in 0..m /\ d \in Nat /\ (d < m => d + 1 \in 0..m /\ d \in 0..(m - 1))
  BY <1>1
<1>3. \A k \in 0..m : t.ends[k] \in Nat
  BY <1>1, TagTypes
<1>4. \A j, k \in 0..m : j < k => t.ends[j] < t.ends[k]
  BY <1>1, TagTypes, Zenon
<1>5. \A k \in 0..m : k < m \/ k = m
  OBVIOUS
<1>6. \A k \in 0..m : t.ends[k] < t.ends[m] \/ k = m
  BY <1>2, <1>4, <1>5
<1> QED  BY <1>1, <1>2, <1>3, <1>6

\* What a turn of the loop starts from.
Turn(c) ==
  /\ isTag(tag) /\ LoopInv /\ BInv /\ c \in Chars /\ src_i \in Nat
  /\ src_i < Ends[Len(Args)] /\ c = tag.text[src_i + 1] /\ Done \in 0..Len(Args)
  /\ Done \in Nat /\ name \in Buffer /\ value \in Buffer /\ node \in Buffer

LEMMA LoopTypes ==
  ASSUME isTag(tag), LoopInv, BInv
  PROVE  /\ src_i \in Nat /\ Done \in 0..Len(Args) /\ Done \in Nat
         /\ name \in Buffer /\ value \in Buffer /\ node \in Buffer
<1>1. name \in Buffer /\ value \in Buffer /\ node \in Buffer
  BY DEF BInv, Buffers, Buffer
<1>2. Len(node) \in Nat /\ Len(name) \in Nat /\ Len(value) \in Nat
  BY <1>1 DEF Buffer
<1>3. Done \in 0..Len(Args) /\ Done \in Nat
  <2>1. m_arguments \in Seq(Buffer \X Buffer) /\ Len(m_arguments) <= Len(Args)
    BY DEF LoopInv, Kept, Done
  <2>2. Len(m_arguments) \in Nat
    BY <2>1
  <2> QED  BY <2>1, <2>2, TagTypes DEF Done, Args
<1>4. Ends[Done] \in Nat
  BY <1>3, MoreText DEF Ends, Args
<1>5. Lead \in Nat
  BY DEF Lead
<1>6. ASSUME AtNode PROVE src_i \in Nat
  BY <1>2, <1>5, <1>6 DEF AtNode
<1>7. ASSUME AtBlank PROVE src_i \in Nat
  BY <1>4, <1>7 DEF AtBlank
<1>8. ASSUME AtName PROVE src_i \in Nat
  BY <1>2, <1>4, <1>8 DEF AtName
<1>9. ASSUME AtValue PROVE src_i \in Nat
  <2>1. PICK x \in Nat : x = IF quoted THEN 1 ELSE 0
    OBVIOUS
  <2>2. src_i = Ends[Done] + 2 + Len(name) + Len(value) + x
    BY <1>9, <2>1, Zenon DEF AtValue
  <2> QED  BY <1>2, <1>4, <2>2
<1>10. AtNode \/ AtBlank \/ AtName \/ AtValue
  BY DEF LoopInv
<1> QED  BY <1>1, <1>3, <1>6, <1>7, <1>8, <1>9, <1>10

LEMMA TurnFacts ==
  ASSUME TagInv, BInv, tag # NoTag, NEW s, s # "start", NEW c \in Chars, turn(s, c)
  PROVE  Turn(c) /\ stat = s
<1>1. isTag(tag) /\ LoopInv /\ stat = s
  BY DEF TagInv, turn
<1>2. /\ src_i \in Nat /\ Done \in 0..Len(Args) /\ Done \in Nat
      /\ name \in Buffer /\ value \in Buffer /\ node \in Buffer
  BY <1>1, LoopTypes
<1>3. Len(src) = Ends[Len(Args)] /\ \A k \in 1..Len(src) : src[k] = tag.text[k]
  BY <1>1 DEF LoopInv, Cut
<1>4. src_i < Len(src) /\ c = src[src_i + 1]
  BY DEF turn, at
<1>5. Ends[Len(Args)] \in Nat
  BY <1>1, <1>2, MoreText DEF Ends, Args
<1>6. src_i + 1 \in 1..Len(src)
  BY <1>2, <1>3, <1>4, <1>5
<1> QED  BY <1>1, <1>2, <1>3, <1>4, <1>6, Zenon DEF Turn

\* The invariant of the loop behind a turn that keeps no argument.
LEMMA SameArguments ==
  ASSUME LoopInv, UNCHANGED <<tag, src, m_closing, m_selfClosing, m_arguments>>
  PROVE  Cut' /\ Kept' /\ Done' = Done /\ Args' = Args /\ Ends' = Ends /\ Lead' = Lead
BY DEF LoopInv, Cut, Kept, Done, Args, Ends, Lead

LEMMA NodeTurn ==
  ASSUME TagInv, BInv, tag # NoTag, NEW c \in Chars, NodeChar(c)
  PROVE  LoopInv'
<1>1. Turn(c) /\ stat = "node"
  BY TurnFacts DEF NodeChar
<1>2. AtNode /\ LoopInv
  BY <1>1 DEF Turn, LoopInv
<1>3. Cut' /\ Kept' /\ Done' = Done /\ Args' = Args /\ Ends' = Ends /\ Lead' = Lead
  BY <1>2, SameArguments DEF NodeChar
<1>4. name' = <<>> /\ value' = <<>> /\ src_i' = src_i + 1 /\ tag' = tag
  BY <1>2 DEF NodeChar, AtNode
<1>5. isTag(tag) /\ node \in Buffer /\ tag.name \in Seq(Chars) /\ Begins(node, tag.name)
  BY <1>1, <1>2, TagTypes DEF Turn, AtNode
<1>6. PICK n \in Nat, m \in Nat, l \in 0..1 :
        n = Len(node) /\ m = Len(tag.name) /\ l = Lead /\ n <= m
  BY <1>5, BeginsLength DEF Lead
<1>7. /\ tag.ends[0] = l + m
      /\ \A j \in 1..m : tag.text[l + j] = tag.name[j] /\ tag.name[j] # Blank
  BY <1>5, <1>6, NameText DEF Lead
<1>8. Done = 0 /\ src_i = l + n
  BY <1>2, <1>6 DEF AtNode
<1>9. c = tag.text[l + n + 1] /\ l + n < tag.ends[Len(tag.args)]
  BY <1>1, <1>8 DEF Turn, Args, Ends
<1>10. n = m => 0 \in 0..(Len(tag.args) - 1) /\ c = Blank /\ 0 < Len(tag.args)
  <2>1. SUFFICES ASSUME n = m PROVE 0 \in 0..(Len(tag.args) - 1) /\ c = Blank
    BY TagTypes, <1>5
  <2>2. 0 \in 0..Len(tag.args)
    BY <1>5, TagTypes
  <2>3. 0 \in 0..(Len(tag.args) - 1)
    BY <1>5, <1>7, <1>9, <2>1, <2>2, MoreText
  <2>4. PICK b \in Nat, a \in Arguments, k \in Nat \ {0}, v \in Nat :
          NextArg(tag, 0, b, a, k, v)
    BY <1>5, <2>3, NextArgument
  <2>5. tag.text[tag.ends[0] + 1] = Blank
    BY <2>4, Zenon DEF NextArg
  <2> QED  BY <1>7, <1>9, <2>1, <2>3, <2>5
<1>11. n < m => c = tag.name[n + 1] /\ c # Blank
  BY <1>6, <1>7, <1>9
<1>12. CASE c = Blank
  <2>1. n = m
    BY <1>6, <1>11, <1>12
  <2>2. node = tag.name
    BY <1>5, <1>6, <2>1, BeginsWhole
  <2>3. m_name' = tag.name /\ stat' = "wsname"
    BY <1>12, <2>2 DEF NodeChar
  <2>4. Done < Len(Args) /\ src_i' = Ends[Done] + 1
    BY <1>4, <1>7, <1>8, <1>10, <2>1 DEF Args, Ends
  <2>5. AtBlank'
    BY <1>3, <1>4, <2>3, <2>4, Zenon DEF AtBlank
  <2> QED  BY <1>3, <2>3, <2>5 DEF LoopInv
<1>13. CASE c # Blank
  <2>1. n < m /\ c = tag.name[n + 1]
    BY <1>6, <1>10, <1>11, <1>13
  <2>2. node' = Append(node, c) /\ stat' = "node"
    BY <1>1, <1>13 DEF NodeChar
  <2>3. Begins(node', tag.name) /\ Len(node') = n + 1
    BY <1>5, <1>6, <2>1, <2>2, BeginsMore
  <2>4. src_i' = l + (n + 1)
    BY <1>4, <1>8
  <2>5. AtNode'
    BY <1>3, <1>4, <1>6, <1>8, <2>3, <2>4, Zenon DEF AtNode
  <2> QED  BY <1>3, <2>2, <2>5 DEF LoopInv
<1> QED  BY <1>12, <1>13

LEMMA WsNameTurn ==
  ASSUME TagInv, BInv, tag # NoTag, NEW c \in Chars, WsNameChar(c)
  PROVE  LoopInv'
<1>1. Turn(c) /\ stat = "wsname"
  BY TurnFacts DEF WsNameChar
<1>2. AtBlank /\ LoopInv /\ isTag(tag) /\ Done \in 0..Len(Args) /\ Done \in Nat
  BY <1>1 DEF Turn, LoopInv
<1>3. Cut' /\ Kept' /\ Done' = Done /\ Args' = Args /\ Ends' = Ends
  BY <1>2, SameArguments DEF WsNameChar, entity
<1>4. /\ m_name' = tag'.name /\ value' = <<>> /\ src_i' = src_i + 1
      /\ tag' = tag /\ name = <<>>
  BY <1>2 DEF WsNameChar, AtBlank, entity
<1>5. c = tag.text[src_i + 1] /\ src_i < Ends[Len(Args)]
  BY <1>1 DEF Turn
<1>6. Done < Len(Args) /\ (src_i = Ends[Done] \/ src_i = Ends[Done] + 1)
  BY <1>2, <1>5, MoreText DEF AtBlank, Args, Ends
<1>7. Done \in 0..(Len(tag.args) - 1)
  BY <1>2, <1>6, MoreText DEF Args
<1>8. PICK b \in Nat, a \in Arguments, n \in Nat \ {0}, v \in Nat :
        NextArg(tag, Done, b, a, n, v)
  BY <1>2, <1>7, NextArgument
<1>9. /\ b = Ends[Done] /\ b \in Nat /\ a = Args[Done + 1] /\ a \in Arguments
      /\ tag.text[b + 1] = Blank /\ n \in Nat \ {0} /\ n = Len(a.name)
      /\ \A j \in 1..n : tag.text[b + 1 + j] = a.name[j]
  BY <1>8, Zenon DEF NextArg, Args, Ends
<1>10. CASE src_i = Ends[Done]
  <2>1. c = Blank
    BY <1>5, <1>9, <1>10
  <2>2. name' = <<>> /\ stat' = "wsname"
    BY <1>1, <1>4, <2>1 DEF WsNameChar
  <2>3. AtBlank'
    BY <1>3, <1>4, <1>6, <1>10, <2>2, Zenon DEF AtBlank
  <2> QED  BY <1>3, <2>2, <2>3 DEF LoopInv
<1>11. CASE src_i = Ends[Done] + 1
  <2>1. c = a.name[1] /\ c # Blank
    <3>1. 1 \in 1..n /\ src_i + 1 = b + 1 + 1
      BY <1>9, <1>11
    <3> QED  BY <1>5, <1>9, <3>1, ArgumentTypes
  <2>2. name' = Append(<<>>, c) /\ stat' = "name"
    BY <1>4, <2>1 DEF WsNameChar
  <2>3. a.name \in Seq(Chars) /\ <<>> \in Buffer /\ Len(<<>>) = 0
    BY <1>9, ArgumentTypes DEF Buffer
  <2>4. Begins(name', a.name) /\ Len(name') = 1
    <3>1. Begins(<<>>, a.name) /\ Len(<<>>) < Len(a.name) /\ c = a.name[Len(<<>>) + 1]
      BY <1>9, <2>1, <2>3, BeginsNothing
    <3>2. Begins(Append(<<>>, c), a.name) /\ Len(Append(<<>>, c)) = Len(<<>>) + 1
      BY <2>3, <3>1, BeginsMore
    <3> QED  BY <2>2, <2>3, <3>2
  <2>5. src_i' = Ends[Done] + 1 + 1
    BY <1>4, <1>11
  <2>6. AtName'
    BY <1>3, <1>4, <1>6, <1>9, <2>4, <2>5, Zenon DEF AtName
  <2> QED  BY <1>3, <2>2, <2>6 DEF LoopInv
<1> QED  BY <1>6, <1>10, <1>11

LEMMA NameTurn ==
  ASSUME TagInv, BInv, tag # NoTag, NEW c \in Chars, NameChar(c)
  PROVE  LoopInv'
<1>1. Turn(c) /\ stat = "name"
  BY TurnFacts DEF NameChar
<1>2. AtName /\ LoopInv /\ isTag(tag) /\ Done \in 0..Len(Args) /\ Done \in Nat
      /\ name \in Buffer
  BY <1>1 DEF Turn, LoopInv
<1>3. c = tag.text[src_i + 1] /\ src_i < Ends[Len(Args)] /\ Done < Len(Args)
  BY <1>1, <1>2 DEF Turn, AtName
<1>4. Done \in 0..(Len(tag.args) - 1)
  BY <1>2, <1>3, MoreText DEF Args
<1>5. PICK b \in Nat, a \in Arguments, n \in Nat \ {0}, v \in Nat :
        NextArg(tag, Done, b, a, n, v)
  BY <1>2, <1>4, NextArgument
<1>6. /\ b = Ends[Done] /\ b \in Nat /\ a = Args[Done + 1] /\ a \in Arguments
      /\ tag.text[b + 2 + n] = Equals /\ n \in Nat \ {0} /\ n = Len(a.name)
      /\ \A j \in 1..n : tag.text[b + 1 + j] = a.name[j]
  BY <1>5, Zenon DEF NextArg, Args, Ends
<1>7. a.name \in Seq(Chars) /\ \A j \in 1..n : a.name[j] \notin {Blank, Equals}
  BY <1>6, ArgumentTypes
<1>8. Begins(name, a.name) /\ m_name = tag.name /\ value = <<>>
  BY <1>2, <1>6 DEF AtName
<1>9. PICK m \in Nat : m = Len(name) /\ m <= n
  BY <1>2, <1>6, <1>7, <1>8, BeginsLength
<1>10. src_i = b + 1 + m
  BY <1>2, <1>6, <1>9 DEF AtName
<1>11. m = n => c = Equals
  <2>1. m = n => src_i + 1 = b + 2 + n
    BY <1>10
  <2> QED  BY <1>3, <1>6, <2>1, Zenon
<1>12. m < n => c = a.name[m + 1] /\ c \notin {Blank, Equals}
  <2>1. m < n => m + 1 \in 1..n /\ src_i + 1 = b + 1 + (m + 1)
    BY <1>10
  <2> QED  BY <1>3, <1>6, <1>7, <2>1, Zenon
<1>13. CASE m = n
  <2>1. /\ stat' = "value" /\ first' = TRUE /\ quoted' = FALSE /\ skipquote' = FALSE
        /\ UNCHANGED <<name, value, m_arguments>>
    BY <1>11, <1>13, BlankIsBlank DEF NameChar
  <2>2. /\ src_i' = src_i + 1
        /\ UNCHANGED <<tag, src, outcome, node, m_closing, m_selfClosing, m_name>>
    BY DEF NameChar
  <2>3. Cut' /\ Kept' /\ Done' = Done /\ Args' = Args /\ Ends' = Ends
    BY <1>2, <2>1, <2>2, SameArguments
  <2>4. name' = a.name
    BY <1>2, <1>6, <1>7, <1>8, <1>9, <1>13, <2>1, BeginsWhole
  <2>5. /\ value' = <<>> /\ Len(value') = 0 /\ Begins(value', a.value)
        /\ (IF quoted' THEN 1 ELSE 0) = 0
    BY <1>6, <1>8, <2>1, ArgumentTypes, BeginsNothing
  <2>6. src_i' = b + 2 + Len(name') + Len(value') + (IF quoted' THEN 1 ELSE 0)
    <3>1. Len(name') = m /\ (b + 1 + m) + 1 = b + 2 + m + 0 + 0
      BY <1>6, <1>9, <2>1
    <3> QED  BY <1>10, <2>2, <2>5, <3>1, Zenon
  <2>7. AtValue'
    BY <1>3, <1>6, <1>8, <2>1, <2>2, <2>3, <2>4, <2>5, <2>6, Zenon DEF AtValue
  <2> QED  BY <2>1, <2>3, <2>7 DEF LoopInv
<1>14. CASE m < n
  <2>1. name' = Append(name, c) /\ stat' = "name" /\ UNCHANGED <<value, m_arguments>>
    BY <1>1, <1>12, <1>14 DEF NameChar
  <2>2. /\ src_i' = src_i + 1
        /\ UNCHANGED <<tag, src, outcome, node, m_closing, m_selfClosing, m_name>>
    BY DEF NameChar
  <2>3. Cut' /\ Kept' /\ Done' = Done /\ Args' = Args /\ Ends' = Ends
    BY <1>2, <2>1, <2>2, SameArguments
  <2>4. Begins(name', a.name) /\ Len(name') = m + 1
    BY <1>2, <1>6, <1>7, <1>8, <1>9, <1>12, <1>14, <2>1, BeginsMore
  <2>5. src_i' = b + 1 + (m + 1)
    <3>1. (b + 1 + m) + 1 = b + 1 + (m + 1)
      OBVIOUS
    <3> QED  BY <1>10, <2>2, <3>1, Zenon
  <2>6. AtName'
    BY <1>3, <1>6, <1>8, <2>1, <2>2, <2>3, <2>4, <2>5, Zenon DEF AtName
  <2>7. stat' = "name"
    BY <2>1
  <2> QED  BY <2>3, <2>6, <2>7, Zenon DEF LoopInv
<1> QED  BY <1>9, <1>13, <1>14

\* The invariant of the loop when an argument is kept.
LEMMA AppendPair ==
  ASSUME NEW s \in Seq(Buffer \X Buffer), NEW x \in Buffer, NEW y \in Buffer
  PROVE  /\ Append(s, <<x, y>>) \in Seq(Buffer \X Buffer)
         /\ Len(Append(s, <<x, y>>)) = Len(s) + 1 /\ Len(s) \in Nat
         /\ \A k \in 1..Len(s) : Append(s, <<x, y>>)[k] = s[k]
         /\ Append(s, <<x, y>>)[Len(s) + 1] = <<x, y>>
<1>1. <<x, y>> \in Buffer \X Buffer
  BY Zenon
<1>2. PICK p \in Buffer \X Buffer : p = <<x, y>>
  BY <1>1, Zenon
<1>3. /\ Append(s, p) \in Seq(Buffer \X Buffer)
      /\ Len(Append(s, p)) = Len(s) + 1 /\ Len(s) \in Nat
      /\ \A k \in 1..Len(s) : Append(s, p)[k] = s[k]
      /\ Append(s, p)[Len(s) + 1] = p
  OBVIOUS
<1> QED  BY <1>2, <1>3, Zenon

LEMMA OneArgumentMore ==
  ASSUME LoopInv, isTag(tag), name \in Buffer, value \in Buffer, Done < Len(Args),
         name = Args[Done + 1].name, value = Args[Done + 1].value,
         m_arguments' = Append(m_arguments, <<name, value>>),
         UNCHANGED <<tag, src, m_closing, m_selfClosing>>
  PROVE  /\ Cut' /\ Kept' /\ Done' = Done + 1 /\ Done' \in Nat /\ Args' = Args /\ Ends' = Ends
         /\ Done' <= Len(Args)
<1>1. Cut' /\ Args' = Args /\ Ends' = Ends /\ tag' = tag
  BY DEF LoopInv, Cut, Args, Ends
<1>2. /\ m_arguments \in Seq(Buffer \X Buffer)
      /\ \A k \in 1..Done : m_arguments[k] = <<Args[k].name, Args[k].value>>
  BY DEF LoopInv, Kept
<1>3. /\ m_arguments' \in Seq(Buffer \X Buffer) /\ Done' = Done + 1 /\ Done \in Nat
      /\ \A k \in 1..Done : m_arguments'[k] = m_arguments[k]
      /\ m_arguments'[Done + 1] = <<name, value>>
  <2>1. PICK s \in Seq(Buffer \X Buffer), x \in Buffer, y \in Buffer :
          s = m_arguments /\ x = name /\ y = value
    BY <1>2, Zenon
  <2>2. /\ Append(s, <<x, y>>) \in Seq(Buffer \X Buffer)
        /\ Len(Append(s, <<x, y>>)) = Len(s) + 1 /\ Len(s) \in Nat
        /\ \A k \in 1..Len(s) : Append(s, <<x, y>>)[k] = s[k]
        /\ Append(s, <<x, y>>)[Len(s) + 1] = <<x, y>>
    BY AppendPair, Zenon
  <2>3. m_arguments' = Append(s, <<x, y>>)
    BY <2>1, Zenon
  <2>4. Done = Len(s) /\ Done' = Len(Append(s, <<x, y>>))
    BY <2>1, <2>3, Zenon DEF Done
  <2> QED  BY <2>1, <2>2, <2>3, <2>4, Zenon
<1>4. Len(Args) \in Nat
  BY TagTypes DEF Args
<1>5. PICK d \in Nat, n \in Nat : d = Done /\ n = Len(Args)
  BY <1>3, <1>4
<1>6. d < n /\ d + 1 <= n /\ d + 1 \in Nat /\ \A k \in 1..(d + 1) : k \in 1..d \/ k = d + 1
  BY <1>5
<1>7. \A k \in 1..(d + 1) : m_arguments'[k] = <<Args[k].name, Args[k].value>>
  <2>1. TAKE k \in 1..(d + 1)
  <2>2. CASE k \in 1..d
    BY <1>2, <1>3, <1>5, <2>2, Zenon
  <2>3. CASE k = d + 1
    BY <1>3, <1>5, <2>3, Zenon
  <2> QED  BY <1>6, <2>2, <2>3
<1>8. Kept'
  BY <1>1, <1>3, <1>5, <1>6, <1>7, Zenon DEF Kept
<1> QED  BY <1>1, <1>3, <1>5, <1>6, <1>8, Zenon

LEMMA KeepTurn ==
  ASSUME LoopInv, isTag(tag), name \in Buffer, value \in Buffer, Done < Len(Args),
         name = Args[Done + 1].name, value = Args[Done + 1].value, m_name = tag.name,
         Keep, UNCHANGED <<tag, src, m_closing, m_selfClosing, m_name>>,
         \/ src_i' = Ends[Done + 1]
         \/ src_i' = Ends[Done + 1] + 1 /\ Done + 1 < Len(Args)
  PROVE  LoopInv'
<1>1. Cut' /\ Kept' /\ Done' = Done + 1 /\ Args' = Args /\ Ends' = Ends
  BY OneArgumentMore DEF Keep
<1>2. name' = <<>> /\ value' = <<>> /\ stat' = "wsname" /\ m_name' = m_name /\ tag' = tag
  BY DEF Keep
<1>3. AtBlank'
  BY <1>1, <1>2, Zenon DEF AtBlank
<1> QED  BY <1>1, <1>2, <1>3, Zenon DEF LoopInv

LEMMA ValueTurn ==
  ASSUME TagInv, BInv, tag # NoTag, NEW c \in Chars, ValueChar(c)
  PROVE  LoopInv' /\ outcome' = outcome
<1>1. Turn(c) /\ stat = "value"
  BY TurnFacts DEF ValueChar
<1>2. AtValue /\ LoopInv /\ isTag(tag) /\ Done \in 0..Len(Args) /\ Done \in Nat
      /\ name \in Buffer /\ value \in Buffer
  BY <1>1 DEF Turn, LoopInv
<1>3. c = tag.text[src_i + 1] /\ src_i < Ends[Len(Args)] /\ Done < Len(Args)
  BY <1>1, <1>2 DEF Turn, AtValue
<1>4. Done \in 0..(Len(tag.args) - 1)
  BY <1>2, <1>3, MoreText DEF Args
<1>5. PICK b \in Nat, a \in Arguments, n \in Nat \ {0}, v \in Nat :
        NextArg(tag, Done, b, a, n, v)
  BY <1>2, <1>4, NextArgument
<1>6. /\ b = Ends[Done] /\ a = Args[Done + 1] /\ n = Len(a.name) /\ v = Len(a.value)
      /\ a.quoted \in BOOLEAN
      /\ Ends[Done + 1] = b + 2 + n + v + (IF a.quoted THEN 2 ELSE 0)
      /\ a.quoted => /\ tag.text[b + 3 + n] = Quote /\ tag.text[b + 4 + n + v] = Quote
                     /\ \A j \in 1..v : tag.text[b + 3 + n + j] = a.value[j]
      /\ ~a.quoted => \A j \in 1..v : tag.text[b + 2 + n + j] = a.value[j]
  BY <1>5, Zenon DEF NextArg, Args, Ends
<1>7. /\ a.value \in Seq(Chars) /\ \A j \in 1..v : a.value[j] \notin {Quote, Backslash}
      /\ ~a.quoted => \A j \in 1..v : a.value[j] # Blank
  BY <1>6, ArgumentTypes, Zenon
<1>8. /\ Begins(value, a.value) /\ name = a.name /\ m_name = tag.name
      /\ first \in BOOLEAN /\ quoted = (a.quoted /\ ~first) /\ ~skipquote
      /\ first => value = <<>>
      /\ src_i = b + 2 + Len(name) + Len(value) + (IF quoted THEN 1 ELSE 0)
  BY <1>2, <1>6, Zenon DEF AtValue
<1>9. PICK m \in Nat : m = Len(value) /\ m <= v
  BY <1>2, <1>6, <1>7, <1>8, BeginsLength
<1>10. src_i = b + 2 + n + m + (IF quoted THEN 1 ELSE 0)
  BY <1>6, <1>8, <1>9, Zenon
<1>11. UNCHANGED <<tag, src, m_closing, m_selfClosing, m_name>>
  BY DEF ValueChar
<1>12. CASE a.quoted /\ first                      \* at the quote in front of the value
  <2>1. ~quoted /\ value = <<>> /\ m = 0 /\ src_i = b + 2 + n + m + 0
    BY <1>8, <1>9, <1>10, <1>12
  <2>2. src_i + 1 = b + 3 + n
    BY <2>1
  <2>3. c = Quote
    BY <1>3, <1>6, <1>12, <2>2, Zenon
  <2>4. /\ first' = FALSE /\ quoted' = TRUE /\ src_i' = src_i + 1
        /\ UNCHANGED <<stat, name, value, skipquote, m_arguments, outcome>>
    BY <1>8, <1>12, <2>1, <2>3, BlankIsBlank DEF ValueChar, endsValue
  <2>5. Cut' /\ Kept' /\ Done' = Done /\ Args' = Args /\ Ends' = Ends
    BY <1>2, <1>11, <2>4, SameArguments
  <2>6. src_i' = b + 2 + n + m + 1
    BY <2>1, <2>4
  <2>7. src_i' = b + 2 + Len(name') + Len(value') + (IF quoted' THEN 1 ELSE 0)
    BY <1>6, <1>8, <1>9, <2>4, <2>6, Zenon
  <2>8. AtValue'
    BY <1>3, <1>6, <1>8, <1>11, <1>12, <2>4, <2>5, <2>7, Zenon DEF AtValue
  <2>9. stat' = "value"
    BY <1>1, <2>4
  <2> QED  BY <2>4, <2>5, <2>8, <2>9, Zenon DEF LoopInv
<1>13. CASE ~(a.quoted /\ first) /\ m < v                    \* in the value
  <2>1. m + 1 \in 1..v
    BY <1>13
  <2>2. c = a.value[m + 1]
    <3>1. CASE a.quoted
      <4>1. src_i = b + 2 + n + m + 1
        BY <1>8, <1>10, <1>13, <3>1, Zenon
      <4>2. src_i + 1 = b + 3 + n + (m + 1)
        BY <4>1
      <4>3. \A j \in 1..v : tag.text[b + 3 + n + j] = a.value[j]
        BY <1>6, <3>1, Zenon
      <4>4. tag.text[b + 3 + n + (m + 1)] = a.value[m + 1]
        BY <2>1, <4>3
      <4> QED  BY <1>3, <4>2, <4>4, Zenon
    <3>2. CASE ~a.quoted
      <4>1. src_i = b + 2 + n + m + 0
        BY <1>8, <1>10, <1>13, <3>2, Zenon
      <4>2. src_i + 1 = b + 2 + n + (m + 1)
        BY <4>1
      <4> QED  BY <1>3, <1>6, <2>1, <3>2, <4>2, Zenon
    <3> QED  BY <1>6, <3>1, <3>2
  <2>3. c # Quote /\ c # Backslash /\ (~a.quoted => c # Blank)
    BY <1>7, <2>1, <2>2, Zenon
  <2>4. ~endsValue(c)
    BY <1>8, <1>13, <2>3, Zenon DEF endsValue
  <2>5. /\ first' = FALSE /\ value' = Append(value, c) /\ src_i' = src_i + 1
        /\ UNCHANGED <<stat, name, quoted, skipquote, m_arguments, outcome>>
    BY <2>3, <2>4 DEF ValueChar
  <2>6. Cut' /\ Kept' /\ Done' = Done /\ Args' = Args /\ Ends' = Ends
    BY <1>2, <1>11, <2>5, SameArguments
  <2>7. Begins(value', a.value) /\ Len(value') = m + 1
    BY <1>2, <1>6, <1>7, <1>8, <1>9, <1>13, <2>2, <2>5, BeginsMore
  <2>8. PICK q \in Nat : q = IF quoted THEN 1 ELSE 0
    OBVIOUS
  <2>9. src_i = b + 2 + n + m + q
    BY <1>10, <2>8, Zenon
  <2>10. src_i' = b + 2 + n + (m + 1) + q
    BY <2>5, <2>9
  <2>11. src_i' = b + 2 + Len(name') + Len(value') + (IF quoted' THEN 1 ELSE 0)
    BY <1>6, <1>8, <2>5, <2>7, <2>8, <2>10, Zenon
  <2>12. quoted' = (a.quoted /\ ~first')
    BY <1>8, <1>13, <2>5, Zenon
  <2>13. AtValue'
    BY <1>3, <1>6, <1>8, <1>11, <2>5, <2>6, <2>7, <2>11, <2>12, Zenon DEF AtValue
  <2>14. stat' = "value"
    BY <1>1, <2>5
  <2> QED  BY <2>5, <2>6, <2>13, <2>14, Zenon DEF LoopInv
<1>14. CASE ~(a.quoted /\ first) /\ m = v                    \* behind the value
  <2>1. value = a.value
    BY <1>2, <1>6, <1>7, <1>8, <1>9, <1>14, BeginsWhole
  <2>2. CASE a.quoted
    <3>1. quoted /\ src_i = b + 2 + n + v + 1 /\ Ends[Done + 1] = b + 2 + n + v + 2
      BY <1>6, <1>8, <1>10, <1>14, <2>2, Zenon
    <3>2. src_i + 1 = b + 4 + n + v /\ src_i + 1 = Ends[Done + 1]
      BY <3>1
    <3>3. c = Quote
      BY <1>3, <1>6, <2>2, <3>2, Zenon
    <3>4. endsValue(c)
      BY <1>8, <3>1, <3>3, Zenon DEF endsValue
    <3>5. Keep /\ outcome' = outcome /\ src_i' = Ends[Done + 1]
      BY <3>2, <3>4, Zenon DEF ValueChar
    <3> QED  BY <1>2, <1>3, <1>6, <1>8, <1>11, <2>1, <3>5, KeepTurn
  <2>3. CASE ~a.quoted
    <3>1. ~quoted /\ src_i = b + 2 + n + v + 0 /\ Ends[Done + 1] = b + 2 + n + v + 0
      BY <1>6, <1>8, <1>10, <1>14, <2>3, Zenon
    <3>2. src_i = Ends[Done + 1]
      BY <3>1
    <3>3. /\ Done + 1 \in 0..Len(tag.args)
          /\ Ends[Done + 1] < Ends[Len(Args)] => Done + 1 < Len(Args)
      BY <1>2, <1>3, MoreText DEF Args, Ends
    <3>4. Done + 1 < Len(Args)
      BY <1>3, <3>2, <3>3, Zenon
    <3>5. Done + 1 \in 0..(Len(tag.args) - 1)
      BY <1>2, <3>3, <3>4, MoreText DEF Args
    <3>6. PICK e \in Nat, z \in Arguments, k \in Nat \ {0}, l \in Nat :
            NextArg(tag, Done + 1, e, z, k, l)
      BY <1>2, <3>5, NextArgument
    <3>7. tag.text[Ends[Done + 1] + 1] = Blank
      BY <3>6, Zenon DEF NextArg, Ends
    <3>8. c = Blank
      BY <1>3, <3>2, <3>7, Zenon
    <3>9. endsValue(c)
      BY <3>1, <3>8, Zenon DEF endsValue
    <3>10. Keep /\ outcome' = outcome /\ src_i' = Ends[Done + 1] + 1
      BY <3>2, <3>9, Zenon DEF ValueChar
    <3> QED  BY <1>2, <1>3, <1>6, <1>8, <1>11, <2>1, <3>4, <3>10, KeepTurn
  <2> QED  BY <1>6, <2>2, <2>3
<1> QED  BY <1>9, <1>12, <1>13, <1>14

-----------------------------------------------------------------------------
(* The ends of the text *)

\* The first turn: the slashes are off, and the name has no blank in front.
LEMMA StartTurn ==
  ASSUME TagInv, tag # NoTag, TagStart
  PROVE  LoopInv' /\ stat' # "start" /\ outcome' = "running" /\ tag' = tag
<1>1. /\ isTag(tag) /\ src = tag.text /\ m_arguments = <<>>
      /\ node = <<>> /\ name = <<>> /\ value = <<>>
  BY DEF TagInv, TagStart
<1>2. PICK e \in Nat, m \in Nat, z \in 0..1 :
        e = Ends[Len(Args)] /\ m = Len(src) /\ z = IF tag.selfClosing THEN 1 ELSE 0
  BY <1>1, TagTypes DEF Ends, Args
<1>3. m = e + z /\ (src[m] = Slash) = tag.selfClosing /\ tag.selfClosing \in BOOLEAN
  BY <1>1, <1>2, EndText, Zenon DEF Ends, Args, isTag
<1>4. PICK k \in Nat, l \in 0..1 : k = Len(tag.name) /\ l = Lead /\ k > 0
  BY <1>1 DEF isTag, Lead
<1>5. /\ Ends[0] = l + k /\ (tag.closing => src[1] = Slash)
      /\ \A j \in 1..k : src[l + j] = tag.name[j] /\ tag.name[j] # Blank
  BY <1>1, <1>4, NameText DEF Ends, Lead
<1>6. l + k <= e /\ l + 1 <= e /\ m > 0
  <2>1. 0 \in 0..Len(tag.args)
    BY <1>1, TagTypes
  <2>2. Ends[0] <= Ends[Len(Args)]
    BY <1>1, <2>1, MoreText DEF Ends, Args
  <2> QED  BY <1>2, <1>3, <1>4, <1>5, <2>2
<1>7. PICK s : s = withoutSlash(src)
  OBVIOUS
<1>8. s \in Seq(Chars) /\ Len(s) = e /\ \A j \in 1..e : s[j] = src[j]
  <2>1. src \in Seq(Chars)
    BY <1>1, TagTypes
  <2>2. CASE tag.selfClosing
    <3>1. z = 1 /\ src[Len(src)] = Slash
      BY <1>2, <1>3, <2>2, Zenon
    <3>2. m - 1 = e
      BY <1>3, <3>1
    <3>3. s = SubSeq(src, 1, e)
      BY <1>2, <1>7, <3>1, <3>2, Zenon DEF withoutSlash
    <3> QED  BY <1>2, <2>1, <3>2, <3>3
  <2>3. CASE ~tag.selfClosing
    <3>1. z = 0 /\ src[Len(src)] # Slash
      BY <1>2, <1>3, <2>3, Zenon
    <3>2. m = e
      BY <1>3, <3>1
    <3>3. s = src
      BY <1>7, <3>1, Zenon DEF withoutSlash
    <3> QED  BY <1>2, <2>1, <3>2, <3>3
  <2> QED  BY <1>3, <2>2, <2>3
<1>9. (s # src) = tag.selfClosing
  <2>1. tag.selfClosing => Len(s) # Len(src)
    BY <1>2, <1>3, <1>8
  <2>2. ~tag.selfClosing => s = src
    BY <1>2, <1>3, <1>7 DEF withoutSlash
  <2> QED  BY <1>3, <2>1, <2>2, Zenon
<1>10. s # <<>> /\ src # <<>>
  BY <1>2, <1>6, <1>8
<1>11. /\ s[1] = Slash <=> l = 1
       /\ l = 1 <=> tag.closing
       /\ tag.closing \in BOOLEAN
  <2>1. tag.closing \in BOOLEAN /\ tag.name[1] # Slash
    BY <1>1 DEF isTag
  <2>2. s[1] = src[1]
    BY <1>6, <1>8
  <2>3. ~tag.closing => l = 0 /\ src[1] = tag.name[1]
    BY <1>4, <1>5 DEF Lead
  <2>4. tag.closing => l = 1
    BY <1>4 DEF Lead
  <2> QED  BY <1>5, <2>1, <2>2, <2>3, <2>4
<1>12. (IF s # <<>> /\ at(s, 0) = Slash THEN 1 ELSE 0) = l
  <2>1. at(s, 0) = s[1]
    BY DEF at
  <2>2. l = 1 \/ l = 0
    OBVIOUS
  <2>3. CASE l = 1
    BY <1>10, <1>11, <2>1, <2>3, Zenon
  <2>4. CASE l = 0
    <3>1. s[1] # Slash
      BY <1>11, <2>4
    <3> QED  BY <2>1, <2>4, <3>1, Zenon
  <2> QED  BY <2>2, <2>3, <2>4
<1>13. PICK text : text = {j \in l..(Len(s) - 1) : at(s, j) # Blank}
  OBVIOUS
<1>14. l \in text /\ \A j \in text : j \in Nat /\ l <= j
  <2>1. l \in l..(Len(s) - 1)
    BY <1>6, <1>8
  <2>2. at(s, l) # Blank
    <3>1. s[l + 1] = src[l + 1] /\ 1 \in 1..k
      BY <1>4, <1>6, <1>8
    <3>2. src[l + 1] # Blank
      BY <1>5, <3>1, Zenon
    <3> QED  BY <3>1, <3>2 DEF at
  <2>3. \A j \in l..(Len(s) - 1) : j \in Nat /\ l <= j
    BY <1>8
  <2> QED  BY <1>13, <2>1, <2>2, <2>3, Zenon
<1>15. (CHOOSE j \in text : \A i \in text : j <= i) = l
  <2>1. \A j \in text : (\A i \in text : j <= i) => j = l
    BY <1>14
  <2>2. \E j \in text : \A i \in text : j <= i
    BY <1>14
  <2>3. PICK j : j = CHOOSE j0 \in text : \A i \in text : j0 <= i
    OBVIOUS
  <2>4. j \in text /\ \A i \in text : j <= i
    BY <2>2, <2>3, Zenon
  <2> QED  BY <2>1, <2>3, <2>4, Zenon
<1>16. text # {}
  BY <1>14
<1>17. /\ src' = s /\ m_selfClosing' = (s # src) /\ m_closing' = (l = 1)
       /\ src_i' = l /\ stat' = "node" /\ outcome' = outcome
       /\ UNCHANGED <<m_name, m_arguments, tag, node, name, value, flags>>
  <2> DEFINE w == withoutSlash(src)
             from == IF w # <<>> /\ at(w, 0) = Slash THEN 1 ELSE 0
             T == {j \in from..(Len(w) - 1) : at(w, j) # Blank}
  <2>1. /\ src' = w /\ m_selfClosing' = (w # src) /\ m_closing' = (from = 1)
        /\ UNCHANGED <<m_name, m_arguments, tag, node, name, value, flags>>
    BY <1>10 DEF TagStart
  <2>2. T # {} => /\ src_i' = CHOOSE j \in T : \A i \in T : j <= i
                  /\ stat' = "node" /\ outcome' = outcome
    BY <1>10 DEF TagStart
  <2>3. w = s /\ from = l
    BY <1>7, <1>12
  <2>4. T = text
    BY <1>13, <2>3
  <2> HIDE DEF w, from, T
  <2> QED  BY <1>15, <1>16, <2>1, <2>2, <2>3, <2>4, Zenon
<1>18. outcome = "running"
  BY DEF TagStart
<1>19. Args' = Args /\ Ends' = Ends /\ Lead' = l
  BY <1>4, <1>17, Zenon DEF Args, Ends, Lead
<1>20. Cut'
  <2>1. \A j \in 1..Len(s) : s[j] = tag.text[j]
    BY <1>1, <1>8
  <2>2. tag' = tag /\ src' = s /\ Len(s) = Ends[Len(Args)]
    BY <1>2, <1>8, <1>17, Zenon
  <2>3. m_closing' = tag.closing /\ m_selfClosing' = tag.selfClosing
    <3>1. (l = 1) = tag.closing
      BY <1>11
    <3> QED  BY <1>9, <1>17, <3>1, Zenon
  <2> QED  BY <1>19, <2>1, <2>2, <2>3, Zenon DEF Cut
<1>21. m_arguments' = <<>> /\ Done' = 0
  BY <1>1, <1>17 DEF Done
<1>22. Kept'
  <2>1. m_arguments' \in Seq(Buffer \X Buffer) /\ 0 <= Len(Args)
    BY <1>1, <1>21, TagTypes DEF Args
  <2>2. 1..0 = {}
    OBVIOUS
  <2> QED  BY <1>19, <1>21, <2>1, <2>2, Zenon DEF Kept
<1>23. AtNode'
  <2>1. Len(node') = 0 /\ l = l + 0 /\ tag.name \in Seq(Chars)
    BY <1>1, <1>17, TagTypes
  <2>2. Begins(node', tag.name)
    BY <1>1, <1>17, <2>1, BeginsNothing
  <2> QED  BY <1>1, <1>17, <1>19, <1>21, <2>1, <2>2, Zenon DEF AtNode
<1> QED  BY <1>17, <1>18, <1>20, <1>22, <1>23 DEF LoopInv

\* The next argument ends at e or before it.
NotBehind(e, b, a, n, v, q) ==
  /\ b = Ends[Done] /\ a = Args[Done + 1] /\ q = (IF a.quoted THEN 2 ELSE 0)
  /\ Ends[Done + 1] = b + 2 + n + v + q /\ b + 2 + n + v + q <= e
  /\ n = Len(a.name) /\ v = Len(a.value)
  /\ a.name \in Seq(Chars) /\ a.value \in Seq(Chars) /\ a.quoted \in BOOLEAN

\* Behind the text of a tag nothing is left of its name or of an argument.
LEMMA EndTurn ==
  ASSUME TagInv, BInv, tag # NoTag, End
  PROVE  /\ m_name' = tag.name /\ m_closing' = tag.closing
         /\ m_selfClosing' = tag.selfClosing /\ Kept' /\ Done' = Len(Args)
         /\ tag' = tag /\ outcome' = "true"
<1>1. isTag(tag) /\ LoopInv /\ outcome' = "true" /\ src_i = Len(src)
  BY DEF TagInv, End
<1>2. UNCHANGED <<tag, src, m_closing, m_selfClosing>>
  BY DEF End
<1>3. Cut /\ Kept /\ m_closing' = tag.closing /\ m_selfClosing' = tag.selfClosing
  BY <1>1, <1>2 DEF LoopInv, Cut
<1>4. /\ Done \in 0..Len(Args) /\ Done \in Nat
      /\ name \in Buffer /\ value \in Buffer /\ node \in Buffer
  BY <1>1, LoopTypes
<1>5. PICK e \in Nat : e = Ends[Len(Args)] /\ src_i = e
  BY <1>1, <1>3, <1>4, MoreText DEF Cut, Ends, Args
<1>6. Len(Args) \in Nat
  BY <1>1, TagTypes DEF Args
<1>7. CASE stat = "node" /\ AtNode
  <2>1. tag.name \in Seq(Chars) /\ Begins(node, tag.name) /\ Done = 0
    BY <1>1, <1>7, TagTypes DEF AtNode
  <2>2. PICK n \in Nat, m \in Nat, l \in 0..1 :
          n = Len(node) /\ m = Len(tag.name) /\ l = Lead /\ n <= m
    BY <1>4, <2>1, BeginsLength DEF Lead
  <2>3. Ends[0] = l + m /\ e = l + n
    BY <1>1, <1>5, <1>7, <2>2, NameText DEF AtNode, Lead, Ends
  <2>4. 0 < Len(Args) => Ends[1] <= e /\ Ends[0] < Ends[1] /\ Ends[1] \in Nat
    <3>1. SUFFICES ASSUME 0 < Len(Args)
                   PROVE  Ends[0 + 1] <= e /\ Ends[0] < Ends[0 + 1] /\ Ends[0 + 1] \in Nat
      OBVIOUS
    <3>2. 0 \in 0..Len(Args) /\ 1 \in 0..Len(Args) /\ 0 < 1
      BY <1>6, <3>1
    <3> QED  BY <1>1, <1>5, <3>1, <3>2, MoreText, TagTypes DEF Args, Ends
  <2>5. Len(Args) = 0
    <3>1. SUFFICES ASSUME 0 < Len(Args) PROVE FALSE
      BY <1>6
    <3>2. PICK x \in Nat : x = Ends[1]
      BY <2>4, <3>1
    <3>3. l + m < x /\ x <= l + n
      BY <2>3, <2>4, <3>1, <3>2, Zenon
    <3> QED  BY <2>2, <3>3
  <2>6. n = m
    <3>1. l + m = l + n
      BY <1>5, <2>3, <2>5, Zenon
    <3> QED  BY <3>1
  <2>7. node = tag.name
    BY <1>4, <2>1, <2>2, <2>6, BeginsWhole
  <2>8. m_name' = tag.name /\ m_arguments' = m_arguments /\ tag' = tag
    BY <1>7, <2>7 DEF End
  <2>9. Kept' /\ Done' = Len(Args)
    BY <1>3, <2>1, <2>5, <2>8, Zenon DEF Kept, Done, Args
  <2> QED  BY <1>1, <1>3, <2>8, <2>9, Zenon
<1>8. CASE stat = "wsname" /\ AtBlank
  <2>1. Done = Len(Args)
    <3>1. SUFFICES ASSUME Done < Len(Args) PROVE FALSE
      BY <1>4, <1>6
    <3>2. Done \in 0..(Len(tag.args) - 1)
      BY <1>1, <1>4, <3>1, MoreText DEF Args
    <3>3. PICK b \in Nat, a \in Arguments, n \in Nat \ {0}, v \in Nat :
            NextArg(tag, Done, b, a, n, v)
      BY <1>1, <3>2, NextArgument
    <3>4. PICK q \in Nat : q = IF a.quoted THEN 2 ELSE 0
      OBVIOUS
    <3>5. Ends[Done + 1] = b + 2 + n + v + q /\ b = Ends[Done]
      BY <3>3, <3>4, Zenon DEF NextArg, Ends
    <3>6. Ends[Done + 1] <= e
      BY <1>1, <1>4, <1>5, <3>1, MoreText DEF Ends, Args
    <3>7. e = b \/ e = b + 1
      BY <1>5, <1>8, <3>5 DEF AtBlank
    <3> QED  BY <3>5, <3>6, <3>7
  <2>2. m_name' = tag.name /\ m_arguments' = m_arguments /\ tag' = tag
    BY <1>8 DEF End, AtBlank
  <2>3. Kept' /\ Done' = Len(Args)
    BY <1>3, <2>1, <2>2, Zenon DEF Kept, Done, Args
  <2> QED  BY <1>1, <1>3, <2>2, <2>3, Zenon
<1>9. ASSUME Done < Len(Args)
      PROVE  \E b \in Nat, a \in Arguments, n \in Nat \ {0}, v \in Nat, q \in 0..2 :
               NotBehind(e, b, a, n, v, q)
  <2>1. Done \in 0..(Len(tag.args) - 1)
    BY <1>1, <1>4, <1>9, MoreText DEF Args
  <2>2. PICK b \in Nat, a \in Arguments, n \in Nat \ {0}, v \in Nat :
          NextArg(tag, Done, b, a, n, v)
    BY <1>1, <2>1, NextArgument
  <2>3. PICK q \in 0..2 : q = IF a.quoted THEN 2 ELSE 0
    OBVIOUS
  <2>4. /\ Ends[Done + 1] = b + 2 + n + v + q /\ b = Ends[Done] /\ a = Args[Done + 1]
        /\ n = Len(a.name) /\ v = Len(a.value)
    BY <2>2, <2>3, Zenon DEF NextArg, Ends, Args
  <2>5. Ends[Done + 1] <= e
    BY <1>1, <1>4, <1>5, <1>9, MoreText DEF Ends, Args
  <2>6. a.name \in Seq(Chars) /\ a.value \in Seq(Chars) /\ a.quoted \in BOOLEAN
    BY ArgumentTypes
  <2>7. NotBehind(e, b, a, n, v, q)
    BY <2>3, <2>4, <2>5, <2>6, Zenon DEF NotBehind
  <2> QED  BY <2>7, Zenon
<1>10. CASE stat = "name" /\ AtName
  <2>1. Done < Len(Args)
    BY <1>10 DEF AtName
  <2>2. PICK b \in Nat, a \in Arguments, n \in Nat \ {0}, v \in Nat, q \in 0..2 :
          NotBehind(e, b, a, n, v, q)
    BY <1>9, <2>1
  <2>3. /\ Begins(name, a.name) /\ src_i = b + 1 + Len(name)
        /\ n = Len(a.name) /\ a.name \in Seq(Chars) /\ b + 2 + n + v + q <= e
    BY <1>10, <2>2, Zenon DEF AtName, NotBehind
  <2>4. PICK m \in Nat : m = Len(name) /\ m <= n
    BY <1>4, <2>2, <2>3, BeginsLength
  <2>5. e = b + 1 + m
    BY <1>5, <2>3, <2>4, Zenon
  <2>6. b + 2 + n + v + q <= b + 1 + m
    BY <2>3, <2>5, Zenon
  <2>7. FALSE
    BY <2>4, <2>6
  <2> QED  BY <2>7
<1>11. CASE stat = "value" /\ AtValue
  <2>1. Done < Len(Args)
    BY <1>11 DEF AtValue
  <2>2. PICK b \in Nat, a \in Arguments, n \in Nat \ {0}, v \in Nat, q \in 0..2 :
          NotBehind(e, b, a, n, v, q)
    BY <1>9, <2>1
  <2>3. /\ Begins(value, a.value) /\ name = a.name /\ m_name = tag.name
        /\ quoted = (a.quoted /\ ~first) /\ a.quoted \in BOOLEAN
        /\ src_i = b + 2 + Len(name) + Len(value) + (IF quoted THEN 1 ELSE 0)
        /\ b = Ends[Done] /\ a = Args[Done + 1] /\ q = (IF a.quoted THEN 2 ELSE 0)
        /\ Ends[Done + 1] = b + 2 + n + v + q /\ b + 2 + n + v + q <= e
        /\ n = Len(a.name) /\ v = Len(a.value) /\ a.value \in Seq(Chars)
    BY <1>11, <2>2, Zenon DEF AtValue, NotBehind
  <2>4. PICK m \in Nat : m = Len(value) /\ m <= v
    BY <1>4, <2>2, <2>3, BeginsLength
  <2>5. PICK r \in 0..1 : r = IF quoted THEN 1 ELSE 0
    OBVIOUS
  <2>6. e = b + 2 + n + m + r
    BY <1>5, <2>2, <2>3, <2>4, <2>5, Zenon
  <2>7. r = 1 => q = 2
    <3>1. 0 # 1
      OBVIOUS
    <3> QED  BY <2>3, <2>5, <3>1, Zenon
  <2>8. m = v /\ Ends[Done + 1] = e
    <3>1. b + 2 + n + v + q <= b + 2 + n + m + r
      BY <2>3, <2>6, Zenon
    <3>2. m = v /\ b + 2 + n + v + q = b + 2 + n + m + r
      BY <2>4, <2>7, <3>1
    <3> QED  BY <2>3, <2>6, <3>2, Zenon
  <2>9. value = a.value
    BY <1>4, <2>2, <2>3, <2>4, <2>8, BeginsWhole
  <2>10. Done + 1 = Len(Args)
    <3>1. Done + 1 \in 0..Len(tag.args) /\ Done + 1 <= Len(Args)
      BY <1>1, <1>4, <1>6, <2>1, MoreText DEF Args
    <3>2. Done + 1 < Len(Args) => Ends[Done + 1] < Ends[Len(Args)]
      BY <1>1, <1>6, <3>1, TagTypes DEF Args, Ends
    <3> QED  BY <1>4, <1>5, <1>6, <2>8, <3>1, <3>2
  <2>11. m_arguments' = Append(m_arguments, <<name, value>>) /\ m_name' = m_name
    BY <1>11 DEF End
  <2>12. Kept' /\ Done' = Done + 1
    BY <1>1, <1>2, <1>4, <2>1, <2>2, <2>3, <2>9, <2>11, OneArgumentMore
  <2> QED  BY <1>1, <1>2, <1>3, <2>3, <2>10, <2>11, <2>12, Zenon
<1> QED  BY <1>1, <1>7, <1>8, <1>10, <1>11 DEF LoopInv

\* TagInv holds, and so does TagReturns, which it contains.
LEMMA TagBegins == TagInit => TagInv
<1> SUFFICES ASSUME TagInit, tag # NoTag
             PROVE  /\ isTag(tag) /\ src = tag.text /\ m_arguments = <<>>
                    /\ node = <<>> /\ name = <<>> /\ value = <<>>
                    /\ outcome = "running" /\ stat = "start"
  BY DEF TagInv, TagReturns
<1>1. tag \in Tags /\ src = tag.text
  BY DEF TagInit
<1> QED  BY <1>1, TagTextAssumption DEF TagInit

LEMMA StillRunning ==
  ASSUME LoopInv', isTag(tag), tag' = tag, outcome' = "running"
  PROVE  TagInv'
<1>1. stat' # "start"
  BY DEF LoopInv
<1> QED  BY <1>1 DEF TagInv, TagReturns

LEMMA TagNextInv == BInv /\ TagInv /\ [TagNext]_tagVars => TagInv'
<1> SUFFICES ASSUME BInv, TagInv, [TagNext]_tagVars
             PROVE  TagInv'
  OBVIOUS
<1>1. tag' = tag
  BY DEF TagNext, TagStart, TooLong, End, NodeChar, WsNameChar, NameChar, ValueChar, tagVars
<1>2. CASE tag = NoTag
  BY <1>1, <1>2 DEF TagInv
<1>3. ASSUME tag # NoTag PROVE isTag(tag)
  BY <1>3 DEF TagInv
<1>4. CASE tag # NoTag /\ TagStart
  BY <1>1, <1>3, <1>4, StartTurn, StillRunning
<1>5. CASE tag # NoTag /\ TooLong
  <2>1. outcome' = "false" /\ full'
    BY <1>5 DEF TooLong, full
  <2> QED  BY <1>1, <1>3, <1>5, <2>1 DEF TagInv, TagReturns
<1>6. CASE tag # NoTag /\ End
  <2>1. /\ m_name' = tag.name /\ m_closing' = tag.closing
        /\ m_selfClosing' = tag.selfClosing /\ Kept' /\ Done' = Len(Args)
        /\ outcome' = "true"
    BY <1>6, EndTurn
  <2>2. m_arguments' = [k \in DOMAIN tag.args |-> <<tag.args[k].name, tag.args[k].value>>]
    <3>1. PICK p : p = m_arguments'
      OBVIOUS
    <3>2. /\ p \in Seq(Buffer \X Buffer) /\ Len(p) = Len(tag.args)
          /\ \A k \in 1..Len(p) : p[k] = <<tag.args[k].name, tag.args[k].value>>
      BY <1>1, <2>1, <3>1, Zenon DEF Kept, Done, Args
    <3>3. tag.args \in Seq(Arguments)
      BY <1>3, <1>6, TagTypes
    <3>4. DOMAIN p = 1..Len(p) /\ DOMAIN tag.args = 1..Len(p)
          /\ p = [k \in DOMAIN p |-> p[k]]
      BY <3>2, <3>3
    <3> QED  BY <3>1, <3>2, <3>4, Zenon
  <2> QED  BY <1>1, <1>3, <1>6, <2>1, <2>2 DEF TagInv, TagReturns
<1>7. ASSUME tag # NoTag, NEW c \in Chars, NodeChar(c) PROVE TagInv'
  <2>1. outcome' = "running"
    BY <1>7 DEF NodeChar, turn
  <2> QED  BY <1>1, <1>3, <1>7, <2>1, NodeTurn, StillRunning
<1>8. ASSUME tag # NoTag, NEW c \in Chars, WsNameChar(c) PROVE TagInv'
  <2>1. outcome' = "running"
    BY <1>8 DEF WsNameChar, turn
  <2> QED  BY <1>1, <1>3, <1>8, <2>1, WsNameTurn, StillRunning
<1>9. ASSUME tag # NoTag, NEW c \in Chars, NameChar(c) PROVE TagInv'
  <2>1. outcome' = "running"
    BY <1>9 DEF NameChar, turn
  <2> QED  BY <1>1, <1>3, <1>9, <2>1, NameTurn, StillRunning
<1>10. ASSUME tag # NoTag, NEW c \in Chars, ValueChar(c) PROVE TagInv'
  <2>1. LoopInv' /\ outcome' = "running"
    BY <1>10, ValueTurn DEF ValueChar, turn
  <2> QED  BY <1>1, <1>3, <1>10, <2>1, StillRunning
<1>11. CASE UNCHANGED tagVars
  <2>1. UNCHANGED <<tag, src, outcome, stat, src_i, node, name, value, first, quoted, skipquote,
                    m_closing, m_selfClosing, m_name, m_arguments>>
    BY <1>11 DEF tagVars, flags, entity
  <2> QED  BY <2>1 DEF TagInv, TagReturns, LoopInv, Cut, Kept, AtNode, AtBlank, AtName, AtValue,
                       Done, Args, Ends, Lead, full, Begins, isTag
<1> QED  BY <1>2, <1>4, <1>5, <1>6, <1>7, <1>8, <1>9, <1>10, <1>11 DEF TagNext

(* parseTag (xmltag.cpp) gives back what the tag was written from, name,     *)
(* arguments and slashes, for every tag whose names and values have no       *)
(* quotes or backslashes and every size of the buffers; a tag it refuses     *)
(* fills one of them.                                                        *)
THEOREM TagsComeBack == TagSpec => []TagReturns
<1>1. TagInit => BInv /\ TagInv
  BY BoundsInit, TagBegins
<1>2. BInv /\ TagInv /\ [TagNext]_tagVars => BInv' /\ TagInv'
  BY BoundsNext, TagNextInv
<1>3. TagInv => TagReturns
  BY DEF TagInv, TagReturns
<1> QED  BY <1>1, <1>2, <1>3, PTL DEF TagSpec
=============================================================================
