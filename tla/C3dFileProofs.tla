--------------------------- MODULE C3dFileProofs ----------------------------
(* Over any number of files, one object of the class (c3dFile.cpp) frees no  *)
(* name twice and leaves none behind, announces this file's locators and     *)
(* hands each frame's bytes to the keys they belong to.                      *)
EXTENDS C3dFile, FiniteSetTheorems, SequenceTheorems, TLAPS

-----------------------------------------------------------------------------
(* Words *)

LEMMA ShortsFit == Shorts \subseteq Ushorts /\ SignedChars \subseteq Int
BY DEF Shorts, Ushorts, SignedChars

LEMMA SwappedTwice ==
  ASSUME NEW w \in Ushorts
  PROVE  Swapped(Swapped(w)) = w /\ Swapped(w) \in Ushorts
<1>1. w \in Nat /\ w < 65536
  BY DEF Ushorts
<1>2. w \div 256 \in Nat /\ w \div 256 < 256 /\ w % 256 \in Nat /\ w % 256 < 256
  BY <1>1
<1>3. Swapped(w) \in Nat /\ Swapped(w) < 65536 /\ Swapped(Swapped(w)) = w
  BY <1>1, <1>2 DEF Swapped
<1> QED  BY <1>3 DEF Ushorts

\* conform undoes what the file's order did to a word.
LEMMA Conformed ==
  ASSUME NEW f, NEW w \in Ushorts
  PROVE  conform(OnDisk(f, w), f.proc) = w
BY SwappedTwice DEF conform, OnDisk

-----------------------------------------------------------------------------
(* The file and its elements *)

Reading == pc \in {"params", "locators", "frames", "finish"}
params == file.params

FileInv ==
  /\ pc \in {"idle", "opened", "params", "locators", "frames", "finish", "crashed"}
  /\ pc # "idle" => file \in Files
  /\ pc = "opened" => header = rawHeader(file)
  /\ Reading => header = conformed(rawHeader(file), file.proc) /\ file.data # 0
  /\ pc = "params" =>
       /\ next \in 1..(Len(params) + 1)
       /\ next = Len(params) + 1 => ~Closes(params[Len(params)].offset)
  /\ pc \in {"locators", "frames", "finish"} => next = Len(params) + 1

\* What one turn of the parameter loop reads: the element at the stream's
\* position, or the last one again, its name unread.
Elem(e, k) ==
  /\ k \in 1..Len(params) /\ isElement(params[k]) /\ e.id = params[k].id
  /\ e.offset = params[k].offset /\ e.shape = params[k].shape /\ e.value = params[k].value
  /\ \/ next = k /\ e = params[k]
     \/ next = k + 1 /\ k = Len(params)
  /\ k < Len(params) => ~Closes(e.offset)
  /\ e.id \in Int /\ e.offset \in Ushorts

LEMMA ElementRead ==
  ASSUME FileInv, pc = "params"
  PROVE  \E k \in 1..Len(params) : Elem(element, k)
<1>1. isFile(file) /\ file.data # 0 /\ next \in 1..(Len(params) + 1)
  BY C3dAssumption DEF FileInv, Reading
<1>2. PICK n \in Nat : n = Len(params) /\ n > 0
  BY <1>1 DEF isFile, params
<1>3. \A i \in 1..n : isElement(params[i]) /\ (i < n => ~Closes(params[i].offset))
  BY <1>1, <1>2 DEF isFile, params
<1>4. CASE next <= n
  <2>1. element = params[next] /\ next \in 1..n
    BY <1>1, <1>2, <1>4 DEF element, params
  <2>2. /\ params[next].id \in Int /\ params[next].offset \in Ushorts
        /\ next < n => ~Closes(params[next].offset)
    BY <1>3, <2>1, ShortsFit, Zenon DEF isElement
  <2>3. PICK e : e = params[next]
    OBVIOUS
  <2>4. Elem(e, next)
    <3>1. next \in 1..Len(params) /\ isElement(params[next])
      BY <1>2, <1>3, <2>1, Zenon
    <3>2. next < Len(params) => ~Closes(e.offset)
      BY <1>2, <2>2, <2>3, Zenon
    <3>3. e.id \in Int /\ e.offset \in Ushorts
      BY <2>2, <2>3, Zenon
    <3> QED  BY <2>3, <3>1, <3>2, <3>3 DEF Elem
  <2> QED  BY <1>2, <2>1, <2>3, <2>4, Zenon
<1>5. CASE ~(next <= n)
  <2>1. next = n + 1 /\ n \in 1..n
    BY <1>1, <1>2, <1>5
  <2>2. PICK e : e = params[n]
    OBVIOUS
  <2>3. element = [id |-> e.id, name |-> IF e.name = NoName THEN NoName ELSE Unread,
                   shape |-> e.shape, value |-> e.value, offset |-> e.offset]
    BY <1>2, <1>5, <2>2, Zenon DEF element, params
  <2>4. /\ element.id = e.id /\ element.shape = e.shape
        /\ element.value = e.value /\ element.offset = e.offset
    BY <2>3
  <2>5. e.id \in Int /\ e.offset \in Ushorts
    BY <1>3, <2>1, <2>2, ShortsFit, Zenon DEF isElement
  <2>6. ~(n < n)
    OBVIOUS
  <2>7. Elem(element, n)
    BY <1>2, <1>3, <2>1, <2>2, <2>4, <2>5, <2>6, Zenon DEF Elem
  <2> QED  BY <1>2, <2>1, <2>7
<1> QED  BY <1>4, <1>5

LEMMA EndsWhereClosed ==
  ASSUME NEW e, e.offset \in Ushorts
  PROVE  ends(e) <=> Closes(e.offset)
BY Conformed DEF ends

LEMMA FileInit == Init => FileInv
BY DEF Init, FileInv, Reading

LEMMA FileNext == FileInv /\ [Next]_vars => FileInv'
<1> SUFFICES ASSUME FileInv, [Next]_vars
             PROVE  FileInv'
  OBVIOUS
<1>1. ASSUME NEW f \in Files, Open(f) PROVE FileInv'
  BY <1>1 DEF Open, FileInv, Reading
<1>2. CASE Begin
  <2>1. file \in Files /\ header = rawHeader(file) /\ file' = file
    BY <1>2 DEF Begin, FileInv
  <2>2. CASE header.data = 0
    BY <1>2, <2>2 DEF Begin, FileInv, Reading
  <2>3. CASE header.data # 0
    <3>1. pc' = "params" /\ next' = 1 /\ header' = conformed(header, file.proc)
      BY <1>2, <2>3 DEF Begin
    <3>2. file.data # 0
      BY <2>1, <2>3 DEF rawHeader
    <3>3. Len(file.params) \in Nat /\ Len(file.params) > 0
      BY <2>1, <3>2, C3dAssumption DEF isFile
    <3>4. next' \in 1..(Len(file.params) + 1) /\ next' # Len(file.params) + 1
      BY <3>1, <3>3
    <3> QED  BY <2>1, <3>1, <3>2, <3>4 DEF FileInv, Reading, params
  <2> QED  BY <2>2, <2>3
<1>3. CASE Element
  <2>1. pc = "params" /\ UNCHANGED <<file, header>>
    BY <1>3 DEF Element, body, client
  <2>2. PICK k \in 1..Len(params) : Elem(element, k)
    BY <2>1, ElementRead
  <2>3. PICK n \in Nat : n = Len(params) /\ n > 0
    BY <2>1, C3dAssumption DEF FileInv, Reading, isFile, params
  <2>4. pc' = IF ends(element) THEN "locators" ELSE "params"
    BY <1>3 DEF Element
  <2>5. ends(element) <=> Closes(params[k].offset)
    BY <2>2, EndsWhereClosed DEF Elem
  <2>6. next' = next + (IF next <= n THEN 1 ELSE 0)
    BY <1>3, <2>3 DEF Element, params
  <2>7. next = k \/ (next = k + 1 /\ k = n)
    BY <2>2, <2>3 DEF Elem
  <2>8. k < n => ~Closes(params[k].offset)
    BY <2>2, <2>3 DEF Elem
  <2>9. next' = k + 1
    BY <2>3, <2>6, <2>7
  <2>10. params' = params /\ Len(params') = n
    BY <2>1, <2>3 DEF params
  <2>11. next = k + 1 => ~Closes(params[n].offset)
    BY <2>1, <2>3, <2>7 DEF FileInv
  <2>12. CASE Closes(params[k].offset)
    <3>1. k = n
      BY <2>3, <2>8, <2>12
    <3> QED  BY <2>1, <2>4, <2>5, <2>9, <2>10, <2>12, <3>1 DEF FileInv, Reading
  <2>13. CASE ~Closes(params[k].offset)
    <3>1. k + 1 \in 1..(n + 1) /\ (k + 1 = n + 1 => k = n)
      BY <2>3
    <3> QED  BY <2>1, <2>4, <2>5, <2>9, <2>10, <2>13, <3>1 DEF FileInv, Reading
  <2> QED  BY <2>12, <2>13
<1>4. ASSUME NEW t \in BOOLEAN, SectionDone(t) PROVE FileInv'
  BY <1>4 DEF SectionDone, FileInv, Reading, section, params
<1>5. CASE Frame
  BY <1>5 DEF Frame, FileInv, Reading, section, members, params
<1>6. CASE Finish
  BY <1>6 DEF Finish, FileInv, Reading
<1>7. CASE UNCHANGED vars
  BY <1>7 DEF vars, members, section, FileInv, Reading, params
<1>8. CASE Crash
  BY <1>8 DEF Crash, FileInv, Reading
<1> QED  BY <1>1, <1>2, <1>3, <1>4, <1>5, <1>6, <1>7, <1>8 DEF Next, Running

-----------------------------------------------------------------------------
(* Names that are allocated *)

Named == {i \in DOMAIN groups : groups[i] # NoName}

\* The end of parse frees only what is allocated.
NamesInv ==
  /\ names \in Nat /\ IsFiniteSet(DOMAIN groups) /\ Cardinality(Named) <= names
  /\ pc = "idle" => ~isOpen

LEMMA NamedFinite ==
  ASSUME IsFiniteSet(DOMAIN groups)
  PROVE  IsFiniteSet(Named) /\ Cardinality(Named) \in Nat
<1>1. Named \subseteq DOMAIN groups
  BY DEF Named
<1>2. IsFiniteSet(Named)
  BY <1>1, FS_Subset
<1> QED  BY <1>2, FS_CardinalityType

\* An element names a group, leaves names as they are, or is a named parameter
\* with the number 0.
GroupNamed(e) ==
  /\ e.id < 0
  /\ groups' = [i \in DOMAIN groups \cup {-e.id} |->
                  IF i = -e.id THEN e.name ELSE groups[i]]
  /\ names' = names + (IF e.name # NoName THEN 1 ELSE 0)

LEMMA ElementNames ==
  ASSUME FileInv, Element, names \in Nat
  PROVE  \/ GroupNamed(element)
         \/ groups' = groups /\ names' = names
         \/ /\ groups' = groups /\ names' = names + 1
            /\ element.id = 0 /\ element.name # NoName
<1>1. PICK e : e = element
  OBVIOUS
<1>2. e.id \in Int
  <2>1. pc = "params"
    BY DEF Element
  <2> QED  BY <1>1, <2>1, ElementRead DEF Elem
<1>3. \/ groups' = groups /\ names' = names
      \/ /\ e.id < 0
         /\ groups' = [i \in DOMAIN groups \cup {-e.id} |->
                         IF i = -e.id THEN e.name ELSE groups[i]]
         /\ names' = names + (IF stays(e) THEN 1 ELSE 0)
      \/ ~(e.id < 0) /\ groups' = groups /\ names' = names + (IF stays(e) THEN 1 ELSE 0)
  BY <1>1 DEF Element
<1>4. ASSUME e.id < 0, names' = names + (IF stays(e) THEN 1 ELSE 0)
      PROVE  names' = names + (IF e.name # NoName THEN 1 ELSE 0)
  BY <1>2, <1>4 DEF stays
<1>5. ASSUME ~(e.id < 0), names' = names + (IF stays(e) THEN 1 ELSE 0)
      PROVE  names' = names \/ (names' = names + 1 /\ e.id = 0 /\ e.name # NoName)
  BY <1>2, <1>5 DEF stays
<1> QED  BY <1>1, <1>3, <1>4, <1>5, Zenon DEF GroupNamed

LEMMA GroupCounted ==
  ASSUME IsFiniteSet(DOMAIN groups), NEW e, e.id \in Int, GroupNamed(e), names \in Nat
  PROVE  /\ DOMAIN groups' = DOMAIN groups \cup {-e.id}
         /\ IsFiniteSet(DOMAIN groups')
         /\ names' \in Nat /\ names <= names'
         /\ Cardinality(Named) <= names => Cardinality(Named') <= names'
         /\ -e.id \notin DOMAIN groups /\ names = Cardinality(Named) =>
              names' = Cardinality(Named')
<1>1. PICK k : k = -e.id
  OBVIOUS
<1>2. groups' = [i \in DOMAIN groups \cup {k} |-> IF i = k THEN e.name ELSE groups[i]]
  BY <1>1 DEF GroupNamed
<1>3. DOMAIN groups' = DOMAIN groups \cup {k} /\ IsFiniteSet(DOMAIN groups')
  BY <1>2, FS_AddElement
<1>4. PICK c \in Nat : c = Cardinality(Named)
  BY NamedFinite
<1>5. IsFiniteSet(Named)
  BY NamedFinite
<1>6. CASE e.name # NoName
  <2>1. Named' = Named \cup {k}
    BY <1>2, <1>6 DEF Named
  <2>2. /\ k \in Named => Cardinality(Named') = c
        /\ k \notin Named => Cardinality(Named') = c + 1
    BY <1>4, <1>5, <2>1, FS_AddElement
  <2>3. k \notin DOMAIN groups => k \notin Named
    BY DEF Named
  <2>4. names' = names + 1
    BY <1>6 DEF GroupNamed
  <2> QED  BY <1>1, <1>3, <1>4, <2>2, <2>3, <2>4
<1>7. CASE e.name = NoName
  <2>1. Named' = Named \ {k}
    BY <1>2, <1>7 DEF Named
  <2>2. k \notin DOMAIN groups => Named' = Named
    BY <2>1 DEF Named
  <2>3. PICK x \in Nat : x = Cardinality(Named') /\ x <= c
    <3>1. CASE k \in Named
      <4>1. Cardinality(Named \ {k}) = c - 1 /\ Cardinality(Named \ {k}) \in Nat
        BY <1>4, <1>5, <3>1, FS_RemoveElement, FS_CardinalityType
      <4> QED  BY <2>1, <4>1
    <3>2. CASE k \notin Named
      <4>1. Named' = Named
        BY <2>1, <3>2
      <4> QED  BY <1>4, <4>1
    <3> QED  BY <3>1, <3>2
  <2>4. names' = names
    BY <1>7 DEF GroupNamed
  <2>5. c <= names => x <= names'
    BY <2>3, <2>4
  <2>6. names' \in Nat /\ names <= names'
    BY <2>4
  <2> QED  BY <1>1, <1>3, <1>4, <2>2, <2>3, <2>4, <2>5, <2>6, Zenon
<1> QED  BY <1>6, <1>7

LEMMA NoGroups ==
  ASSUME groups' = <<>>
  PROVE  DOMAIN groups' = {} /\ IsFiniteSet(DOMAIN groups') /\ Cardinality(Named') = 0
<1>1. DOMAIN groups' = {}
  OBVIOUS
<1>2. Named' = {}
  BY <1>1 DEF Named
<1> QED  BY <1>1, <1>2, FS_EmptySet

LEMMA NamesInit == Init => NamesInv
<1> SUFFICES ASSUME Init PROVE NamesInv
  OBVIOUS
<1>1. DOMAIN groups = {}
  BY DEF Init
<1>2. Named = {}
  BY <1>1 DEF Named
<1> QED  BY <1>1, <1>2, FS_EmptySet DEF Init, NamesInv

LEMMA NamesNext == FileInv /\ NamesInv /\ [Next]_vars => NamesInv'
<1> SUFFICES ASSUME FileInv, NamesInv, [Next]_vars
             PROVE  NamesInv'
  OBVIOUS
<1>1. names \in Nat /\ IsFiniteSet(DOMAIN groups) /\ Cardinality(Named) <= names
  BY DEF NamesInv
<1>2. Cardinality(Named) \in Nat
  BY <1>1, NamedFinite
<1>3. ASSUME UNCHANGED <<groups, names>>
      PROVE  names' \in Nat /\ IsFiniteSet(DOMAIN groups') /\ Cardinality(Named') <= names'
  BY <1>1, <1>3 DEF Named
<1>4. ASSUME NEW f \in Files, Open(f) PROVE NamesInv'
  <2>1. UNCHANGED <<groups, names>> /\ (pc' = "idle" => ~isOpen')
    BY <1>4 DEF Open, section
  <2> QED  BY <1>3, <2>1 DEF NamesInv
<1>5. CASE Begin
  <2>1. groups' = <<>> /\ names' = names /\ (pc' = "idle" => ~isOpen')
    BY <1>5 DEF Begin
  <2> QED  BY <1>1, <2>1, NoGroups DEF NamesInv
<1>6. CASE Element
  <2>1. pc' # "idle"
    BY <1>6 DEF Element
  <2>2. element.id \in Int
    BY <1>6, ElementRead DEF Element, Elem
  <2>3. CASE GroupNamed(element)
    BY <1>1, <2>1, <2>2, <2>3, GroupCounted DEF NamesInv
  <2>4. CASE groups' = groups /\ names' = names
    BY <1>3, <2>1, <2>4 DEF NamesInv
  <2>5. CASE groups' = groups /\ names' = names + 1
    <3>1. Named' = Named
      BY <2>5 DEF Named
    <3> QED  BY <1>1, <1>2, <2>1, <2>5, <3>1 DEF NamesInv
  <2> QED  BY <1>1, <1>6, <2>3, <2>4, <2>5, ElementNames
<1>7. ASSUME NEW t \in BOOLEAN, SectionDone(t) PROVE NamesInv'
  <2>1. UNCHANGED <<groups, names>> /\ pc' # "idle"
    BY <1>7 DEF SectionDone, section
  <2> QED  BY <1>3, <2>1 DEF NamesInv
<1>8. CASE Frame
  <2>1. UNCHANGED <<groups, names>> /\ pc' # "idle"
    BY <1>8 DEF Frame, section
  <2> QED  BY <1>3, <2>1 DEF NamesInv
<1>9. CASE Finish
  <2>1. groups' = <<>> /\ ~isOpen' /\ names' = names - Cardinality(Named)
    BY <1>9 DEF Finish, freed, Named
  <2>2. names' \in Nat
    BY <1>1, <1>2, <2>1
  <2> QED  BY <2>1, <2>2, NoGroups DEF NamesInv
<1>10. CASE UNCHANGED vars
  <2>1. UNCHANGED <<groups, names, pc, isOpen>>
    BY <1>10 DEF vars, section
  <2> QED  BY <1>3, <2>1 DEF NamesInv
<1>11. CASE Crash
  <2>1. UNCHANGED <<groups, names>> /\ pc' # "idle"
    BY <1>11 DEF Crash, section
  <2> QED  BY <1>3, <2>1 DEF NamesInv
<1> QED  BY <1>4, <1>5, <1>6, <1>7, <1>8, <1>9, <1>10, <1>11 DEF Next, Running

(* For every file, whatever its elements are, parse (c3dFile.cpp:521) frees  *)
(* no name that is not allocated, and it closes the stream before it returns.*)
THEOREM NothingIsFreedTwice == Spec => [](names >= 0 /\ (pc = "idle" => ~isOpen))
<1>1. NamesInv => names >= 0 /\ (pc = "idle" => ~isOpen)
  BY DEF NamesInv
<1> QED  BY <1>1, FileInit, FileNext, NamesInit, NamesNext, PTL DEF Spec

\* For files with NamesOnce the names allocated are those of the groups.
LeftInv ==
  /\ pc \in {"idle", "opened"} => names = 0
  /\ pc = "params" /\ next <= Len(params) =>
       /\ names = Cardinality(Named)
       /\ \A d \in DOMAIN groups : \E j \in 1..(next - 1) : params[j].id = -d /\ d \in Int
  /\ pc \in {"locators", "frames", "finish"} => names = Cardinality(Named)

LEMMA LeftNext ==
  ASSUME \A f \in Files : NamesOnce(f), FileInv, NamesInv, LeftInv, [Next]_vars
  PROVE  LeftInv'
<1>1. names \in Nat /\ IsFiniteSet(DOMAIN groups)
  BY DEF NamesInv
<1>2. ASSUME UNCHANGED groups PROVE Named' = Named
  BY <1>2 DEF Named
<1>3. ASSUME NEW f \in Files, Open(f) PROVE LeftInv'
  BY <1>3 DEF LeftInv, Open, section
<1>4. CASE Begin
  <2>1. groups' = <<>> /\ names' = 0 /\ pc' \in {"idle", "params"}
    BY <1>4 DEF Begin, LeftInv
  <2> QED  BY <2>1, NoGroups DEF LeftInv
<1>5. CASE Element
  <2>1. pc = "params" /\ file \in Files /\ file' = file /\ pc' \in {"params", "locators"}
    BY <1>5 DEF Element, FileInv
  <2>2. PICK k \in 1..Len(params) : Elem(element, k)
    BY <2>1, ElementRead
  <2>3. PICK n \in Nat : n = Len(params)
    BY <2>1, C3dAssumption DEF isFile, params
  <2>4. PICK e : e = element
    OBVIOUS
  <2>5. e.id \in Int /\ e.id = params[k].id /\ params' = params
    BY <2>1, <2>2, <2>4 DEF Elem, params
  <2>6. CASE next = k
    <3>1. /\ e = params[k] /\ names = Cardinality(Named)
          /\ \A d \in DOMAIN groups : \E j \in 1..(k - 1) : params[j].id = -d /\ d \in Int
      BY <2>1, <2>2, <2>3, <2>4, <2>6 DEF LeftInv, Elem
    <3>2. next' = k + 1
      BY <1>5, <2>3, <2>6 DEF Element, params
    <3>3. /\ e.id = 0 => e.name = NoName
          /\ \A j \in 1..(k - 1) : e.id < 0 => params[j].id # e.id
      BY <2>1, <3>1 DEF NamesOnce, params
    <3>4. CASE GroupNamed(e)
      <4>1. e.id < 0 /\ -e.id \notin DOMAIN groups
        <5>1. SUFFICES ASSUME -e.id \in DOMAIN groups PROVE FALSE
          BY <3>4 DEF GroupNamed
        <5>2. PICK j \in 1..(k - 1) : params[j].id = -(-e.id)
          BY <3>1, <5>1
        <5>3. -(-e.id) = e.id /\ e.id < 0
          BY <2>5, <3>4 DEF GroupNamed
        <5> QED  BY <3>3, <5>2, <5>3
      <4>2. names' = Cardinality(Named') /\ DOMAIN groups' = DOMAIN groups \cup {-e.id}
        BY <1>1, <2>5, <3>1, <3>4, <4>1, GroupCounted
      <4>3. k \in 1..k /\ params[k].id = -(-e.id) /\ -e.id \in Int
        BY <2>3, <2>5
      <4>4. \A j \in 1..(k - 1) : j \in 1..k
        OBVIOUS
      <4>5. \A d \in DOMAIN groups' : \E j \in 1..k : params[j].id = -d /\ d \in Int
        BY <3>1, <4>2, <4>3, <4>4, Zenon
      <4>6. (k + 1) - 1 = k
        OBVIOUS
      <4> QED  BY <2>1, <2>5, <3>2, <4>2, <4>5, <4>6 DEF LeftInv
    <3>5. CASE groups' = groups /\ names' = names
      <4>1. \A j \in 1..(k - 1) : j \in 1..k
        OBVIOUS
      <4>2. \A d \in DOMAIN groups' : \E j \in 1..k : params[j].id = -d /\ d \in Int
        BY <3>1, <3>5, <4>1, Zenon
      <4>3. (k + 1) - 1 = k /\ Named' = Named
        BY <1>2, <3>5
      <4> QED  BY <2>1, <2>5, <3>1, <3>2, <3>5, <4>2, <4>3 DEF LeftInv
    <3> QED  BY <1>1, <1>5, <2>4, <3>3, <3>4, <3>5, ElementNames
  <2>7. CASE next # k
    <3>1. next = n + 1 /\ k = n /\ ~Closes(params[n].offset) /\ pc' = "params" /\ next' = n + 1
      <4>1. next = n + 1 /\ k = n
        BY <2>2, <2>3, <2>7 DEF Elem
      <4>2. ~Closes(params[n].offset)
        BY <2>1, <2>3, <4>1 DEF FileInv
      <4>3. ~ends(element)
        BY <2>2, <4>1, <4>2, EndsWhereClosed DEF Elem
      <4>4. pc' = "params"
        BY <1>5, <4>3 DEF Element
      <4>5. next' = n + 1
        <5>1. next' = next + (IF next <= n THEN 1 ELSE 0)
          BY <1>5, <2>3 DEF Element, params
        <5> QED  BY <4>1, <5>1
      <4> QED  BY <4>1, <4>2, <4>4, <4>5
    <3> QED  BY <2>3, <2>5, <3>1 DEF LeftInv
  <2> QED  BY <2>6, <2>7
<1>6. ASSUME NEW t \in BOOLEAN, SectionDone(t) PROVE LeftInv'
  <2>1. UNCHANGED <<groups, names>> /\ pc = "locators" /\ pc' = "frames"
    BY <1>6 DEF SectionDone, section
  <2> QED  BY <1>2, <2>1 DEF LeftInv
<1>7. CASE Frame
  <2>1. UNCHANGED <<groups, names>> /\ pc = "frames" /\ pc' \in {"frames", "finish"}
    BY <1>7 DEF Frame, section
  <2> QED  BY <1>2, <2>1 DEF LeftInv
<1>8. CASE Finish
  <2>1. pc \in {"frames", "finish"} /\ pc' = "idle" /\ names' = names - Cardinality(Named)
    BY <1>8 DEF Finish, freed, Named
  <2> QED  BY <1>1, <2>1 DEF LeftInv
<1>9. CASE UNCHANGED vars
  <2>1. UNCHANGED <<groups, names, pc, next, file>>
    BY <1>9 DEF vars, section
  <2> QED  BY <1>2, <2>1 DEF LeftInv, params
<1>10. CASE Crash
  BY <1>10 DEF Crash, LeftInv
<1> QED  BY <1>3, <1>4, <1>5, <1>6, <1>7, <1>8, <1>9, <1>10 DEF Next, Running

(* Between calls no stream is open and no name is allocated, for all files   *)
(* whose groups are named once and whose named elements have a number: the   *)
(* names of the others are overwritten (c3dFile.cpp:319) or kept (331).      *)
THEOREM NothingIsLeft ==
  ASSUME \A f \in Files : NamesOnce(f)
  PROVE  Spec => []NothingLeft
<1>1. Init => LeftInv
  BY DEF Init, LeftInv
<1>2. FileInv /\ NamesInv /\ LeftInv /\ [Next]_vars => LeftInv'
  BY LeftNext
<1>3. NamesInv /\ LeftInv => NothingLeft
  BY DEF NamesInv, LeftInv, NothingLeft
<1> QED  BY <1>1, <1>2, <1>3, FileInit, FileNext, NamesInit, NamesNext, PTL DEF Spec


-----------------------------------------------------------------------------
(* What the elements of the section mean *)

Members == DOMAIN Fresh

\* Labels as read are those meant, each validated or as it is.
LabelsAre(labels, meant) ==
  /\ labels \in Seq(Text) /\ meant \in Seq(Text) /\ Len(labels) = Len(meant)
  /\ \A i \in 1..Len(meant) : labels[i] \in {meant[i], Validated[meant[i]]}

LEMMA NoLabels == LabelsAre(<<>>, <<>>)
BY DEF LabelsAre

LEMMA LabelsRead ==
  ASSUME NEW v \in Seq(Text), NEW val \in BOOLEAN
  PROVE  LabelsAre(readLabels(v, val), v)
<1>1. CASE val
  <2>1. PICK n \in Nat : n = Len(v) /\ DOMAIN v = 1..n /\ v \in [1..n -> Text]
    BY LenProperties
  <2>2. PICK r : r = readLabels(v, val)
    OBVIOUS
  <2>3. r = [i \in 1..n |-> Validated[v[i]]]
    BY <1>1, <2>1, <2>2 DEF readLabels
  <2>4. r \in [1..n -> Text]
    BY <2>1, <2>3, TextAssumption
  <2>5. r \in Seq(Text) /\ Len(r) = n
    BY <2>4, SeqDef, LenProperties
  <2> QED  BY <2>1, <2>2, <2>3, <2>5 DEF LabelsAre
<1>2. CASE ~val
  BY <1>2 DEF readLabels, LabelsAre
<1> QED  BY <1>1, <1>2

LEMMA TextJoined ==
  ASSUME NEW a \in Seq(Text), NEW b \in Seq(Text), NEW p \in Nat, NEW q \in Nat,
         p = Len(a), q = Len(b)
  PROVE  /\ a \o b \in Seq(Text) /\ Len(a \o b) = p + q
         /\ \A i \in 1..(p + q) : (a \o b)[i] = IF i <= p THEN a[i] ELSE b[i - p]
BY ConcatProperties, Zenon

LEMMA LabelsJoin ==
  ASSUME NEW a, NEW b, NEW c, NEW d, LabelsAre(a, b), LabelsAre(c, d)
  PROVE  LabelsAre(a \o c, b \o d)
<1>1. a \in Seq(Text) /\ b \in Seq(Text) /\ c \in Seq(Text) /\ d \in Seq(Text)
  BY DEF LabelsAre
<1>2. PICK p \in Nat : p = Len(a) /\ p = Len(b)
  BY <1>1 DEF LabelsAre
<1>3. PICK q \in Nat : q = Len(c) /\ q = Len(d)
  BY <1>1 DEF LabelsAre
<1>4. /\ a \o c \in Seq(Text) /\ Len(a \o c) = p + q
      /\ \A i \in 1..(p + q) : (a \o c)[i] = IF i <= p THEN a[i] ELSE c[i - p]
  <2>1. p \in Nat /\ q \in Nat /\ p = Len(a) /\ q = Len(c)
    BY <1>2, <1>3
  <2> HIDE <1>2, <1>3
  <2> QED  BY <1>1, <2>1, TextJoined
<1>5. /\ b \o d \in Seq(Text) /\ Len(b \o d) = p + q
      /\ \A i \in 1..(p + q) : (b \o d)[i] = IF i <= p THEN b[i] ELSE d[i - p]
  BY <1>1, <1>2, <1>3, TextJoined
<1>6. ASSUME NEW i \in 1..(p + q)
      PROVE  (a \o c)[i] \in {(b \o d)[i], Validated[(b \o d)[i]]}
  <2>1. CASE i <= p
    <3>1. (a \o c)[i] = a[i] /\ (b \o d)[i] = b[i] /\ i \in 1..p
      BY <1>4, <1>5, <2>1
    <3> QED  BY <1>2, <3>1 DEF LabelsAre
  <2>2. CASE ~(i <= p)
    <3>1. (a \o c)[i] = c[i - p] /\ (b \o d)[i] = d[i - p] /\ i - p \in 1..q
      BY <1>4, <1>5, <2>2
    <3> QED  BY <1>3, <3>1 DEF LabelsAre
  <2> QED  BY <2>1, <2>2
<1> QED  BY <1>4, <1>5, <1>6 DEF LabelsAre

\* readParam, for the members that the locators and the frames depend on.
IsLabels(e, group, name) == e.shape = Strings /\ group = name /\ e.name \in LabelNames
IsUsed(e, group) == e.shape = Word /\ group = "ANALOG" /\ e.name = "USED"

ReadAs(old, new, e, group, val) ==
  /\ DOMAIN new = Members
  /\ new.pointLabels = IF IsLabels(e, group, "POINT")
                       THEN old.pointLabels \o readLabels(e.value, val) ELSE old.pointLabels
  /\ new.analogLabels = IF IsLabels(e, group, "ANALOG")
                        THEN old.analogLabels \o readLabels(e.value, val)
                        ELSE old.analogLabels
  /\ new.analogFrames = IF IsUsed(e, group) THEN e.value ELSE old.analogFrames

LEMMA ShapesDiffer ==
  /\ Byte # String /\ Byte # Strings /\ Byte # Word /\ Byte # Words
  /\ String # Strings /\ String # Word /\ String # Words
  /\ Strings # Word /\ Strings # Words /\ Word # Words
BY DEF Byte, String, Strings, Word, Words

LEMMA MembersAre ==
  Members = {"analogFrames", "pointFrames", "scaleValue", "units", "used", "dropFrame",
             "fieldNumbers", "standard", "subFramePerSample", "offset", "timecode",
             "timecodeOffset", "pointLabels", "analogLabels", "subjectNames",
             "subjectPrefixes"}
BY DEF Members, Fresh

LEMMA ParamRead ==
  ASSUME DOMAIN m = Members, NEW e, isElement(e), NEW group, NEW val
  PROVE  ReadAs(m, readParam(m, file, group, e, val), e, group, val)
<1> DEFINE r == readParam(m, file, group, e, val)
<1>1. CASE e.shape = Byte
  <2>1. r = m \/ r = [m EXCEPT !.dropFrame = (e.value = 1)]
    BY <1>1, ShapesDiffer DEF readParam
  <2> QED  BY <1>1, <2>1, MembersAre, ShapesDiffer DEF ReadAs, IsLabels, IsUsed
<1>2. CASE e.shape = String
  <2>1. \/ r = m
        \/ r = [m EXCEPT !.standard = standardOf(e.value, @)]
        \/ r = [m EXCEPT !.units = e.value, !.scaleValue = scaleOf(e.value, @)]
    BY <1>2, ShapesDiffer DEF readParam
  <2> QED  BY <1>2, <2>1, MembersAre, ShapesDiffer DEF ReadAs, IsLabels, IsUsed
<1>3. CASE e.shape = Strings
  <2>1. CASE IsLabels(e, group, "POINT")
    <3>1. r = [m EXCEPT !.pointLabels = @ \o readLabels(e.value, val)]
      BY <1>3, <2>1, ShapesDiffer DEF readParam, IsLabels
    <3> QED  BY <1>3, <2>1, <3>1, MembersAre, ShapesDiffer DEF ReadAs, IsLabels, IsUsed
  <2>2. CASE IsLabels(e, group, "ANALOG")
    <3>1. r = [m EXCEPT !.analogLabels = @ \o readLabels(e.value, val)]
      BY <1>3, <2>2, ShapesDiffer DEF readParam, IsLabels
    <3> QED  BY <1>3, <2>2, <3>1, MembersAre, ShapesDiffer DEF ReadAs, IsLabels, IsUsed
  <2>3. CASE ~IsLabels(e, group, "POINT") /\ ~IsLabels(e, group, "ANALOG")
    <3>1. \/ r = m
          \/ r = [m EXCEPT !.subjectPrefixes = @ \o readLabels(e.value, val)]
          \/ r = [m EXCEPT !.subjectNames = @ \o readLabels(e.value, val)]
      BY <1>3, <2>3, ShapesDiffer DEF readParam, IsLabels
    <3> QED  BY <1>3, <2>3, <3>1, MembersAre, ShapesDiffer DEF ReadAs, IsUsed
  <2> QED  BY <2>1, <2>2, <2>3
<1>4. CASE e.shape = Word
  <2>1. CASE e.name = "USED"
    <3>1. r = UsedWord(m, group, conform(OnDisk(file, e.value), file.proc))
      BY <1>4, <2>1, ShapesDiffer DEF readParam
    <3>2. conform(OnDisk(file, e.value), file.proc) = e.value
      BY <1>4, ShortsFit, Conformed DEF isElement
    <3>3. \/ group = "ANALOG" /\ r = [m EXCEPT !.analogFrames = e.value]
          \/ group # "ANALOG" /\ r = [m EXCEPT !.pointFrames = e.value]
          \/ group # "ANALOG" /\ r = [m EXCEPT !.used = (e.value = 1)]
          \/ group # "ANALOG" /\ r = m
      BY <3>1, <3>2 DEF UsedWord
    <3> QED  BY <1>4, <2>1, <3>3, MembersAre, ShapesDiffer DEF ReadAs, IsLabels, IsUsed
  <2>2. CASE e.name # "USED"
    <3>1. r = m
      BY <1>4, <2>2, ShapesDiffer DEF readParam
    <3> QED  BY <1>4, <2>2, <3>1, ShapesDiffer DEF ReadAs, IsLabels, IsUsed
  <2> QED  BY <2>1, <2>2
<1>5. CASE e.shape = Words
  <2>1. r = m \/ r = TimecodeWords(m, e.name, matrixOf(file, e.value))
    BY <1>5, ShapesDiffer DEF readParam
  <2>2. PICK w : w = matrixOf(file, e.value)
    OBVIOUS
  <2>3. \/ r = m
        \/ r = [m EXCEPT !.fieldNumbers = @ \o w]
        \/ r = [m EXCEPT !.subFramePerSample = IF Len(w) = 1 THEN w[1] ELSE @]
        \/ r = [m EXCEPT !.offset = IF Len(w) = 1 THEN w[1] ELSE @]
        \/ r = [m EXCEPT !.timecode = IF Len(w) = 4 THEN w ELSE @]
    BY <2>1, <2>2 DEF TimecodeWords
  <2> QED  BY <1>5, <2>3, MembersAre, ShapesDiffer DEF ReadAs, IsLabels, IsUsed
<1>6. CASE e.shape \notin {Byte, String, Strings, Word, Words}
  <2>1. r = m
    BY <1>6 DEF readParam
  <2> QED  BY <1>6, <2>1 DEF ReadAs, IsLabels, IsUsed
<1> QED  BY <1>1, <1>2, <1>3, <1>4, <1>5, <1>6

-----------------------------------------------------------------------------
(* The members that parse has set, for a file in order *)

LEMMA HeaderRead ==
  ASSUME FileInv, Reading
  PROVE  /\ file \in Files /\ isFile(file)
         /\ header.markers = file.markers /\ header.channels = file.channels
         /\ header.perFrame = file.perFrame /\ header.body = file.body
         /\ header.float = file.float
         /\ file.markers \in Nat /\ file.channels \in Nat /\ file.perFrame \in Nat
         /\ file.body \in Nat
<1>1. file \in Files /\ isFile(file) /\ header = conformed(rawHeader(file), file.proc)
  BY C3dAssumption DEF FileInv, Reading
<1>2. {file.markers, file.channels, file.perFrame, file.body} \subseteq Ushorts
  BY <1>1 DEF isFile
<1>3. \A w \in Ushorts : conform(OnDisk(file, w), file.proc) = w
  BY Conformed
<1>4. PICK h : h = rawHeader(file)
  OBVIOUS
<1>5. /\ DOMAIN h = {"data", "float", "markers", "channels", "perFrame", "first", "last",
                     "body"}
      /\ h.float = file.float /\ h.markers = OnDisk(file, file.markers)
      /\ h.channels = OnDisk(file, file.channels)
      /\ h.perFrame = OnDisk(file, file.perFrame) /\ h.body = OnDisk(file, file.body)
  BY <1>4 DEF rawHeader
<1>6. PICK p : p = file.proc
  OBVIOUS
<1>7. /\ conformed(h, p).markers = conform(h.markers, p)
      /\ conformed(h, p).channels = conform(h.channels, p)
      /\ conformed(h, p).perFrame = conform(h.perFrame, p)
      /\ conformed(h, p).body = conform(h.body, p) /\ conformed(h, p).float = h.float
  BY <1>5 DEF conformed
<1>8. Ushorts \subseteq Nat
  BY DEF Ushorts
<1> QED  BY <1>1, <1>2, <1>3, <1>4, <1>5, <1>6, <1>7, <1>8

MeansUpTo(read, meant) ==
  /\ LabelsAre(read.pointLabels, meant.points)
  /\ LabelsAre(read.analogLabels, meant.analogs)
  /\ read.analogFrames = meant.used

\* The groups of the elements before the nth.
GroupsRead(n) ==
  /\ \A i \in 1..(n - 1) : params[i].id < 0 =>
       -params[i].id \in DOMAIN groups /\ groups[-params[i].id] = params[i].name
  /\ \A d \in DOMAIN groups : d \in Int /\ d > 0

LEMMA GroupKnown ==
  ASSUME isFile(file), InOrder(file), NEW k \in 1..Len(params), GroupsRead(k),
         NEW e, e = params[k], e.id \in Int, NEW G
  PROVE  belongsTo(file, e, G) <=> e.id \in DOMAIN groups /\ groups[e.id] = G
<1>1. CASE e.id > 0
  <2>1. PICK j \in 1..(k - 1) : params[j].id = -e.id
    BY <1>1 DEF InOrder, params
  <2>2. PICK n \in Nat : n = Len(params)
    BY DEF isFile, params
  <2>3. j \in 1..n /\ -params[j].id = e.id /\ params[j].id < 0
    BY <1>1, <2>1, <2>2
  <2>4. e.id \in DOMAIN groups /\ groups[e.id] = params[j].name
    BY <2>1, <2>3 DEF GroupsRead
  <2>5. \A i \in 1..n : params[i].id = -e.id => i = j
    BY <2>1, <2>2, <2>3 DEF InOrder, params
  <2>6. belongsTo(file, e, G) <=>
          \E i \in 1..n : params[i].id = -e.id /\ params[i].name = G
    BY <1>1, <2>2 DEF belongsTo, params
  <2> QED  BY <2>1, <2>3, <2>4, <2>5, <2>6, Zenon
<1>2. CASE ~(e.id > 0)
  BY <1>2 DEF belongsTo, GroupsRead
<1> QED  BY <1>1, <1>2

\* An element that says nothing of labels or counts.
LEMMA MeaningKept ==
  ASSUME NEW read, NEW before \in Meanings, MeansUpTo(read, before), NEW e,
         labelsOf(file, e, "POINT") = <<>>, labelsOf(file, e, "ANALOG") = <<>>,
         ~(e.shape = Word /\ e.name = "USED" /\ belongsTo(file, e, "ANALOG"))
  PROVE  MeansUpTo(read, meaningAfter(file, before, e))
<1>1. before.points \in Seq(Text) /\ before.analogs \in Seq(Text)
  BY DEF Meanings
<1>2. before.points \o <<>> = before.points /\ before.analogs \o <<>> = before.analogs
  BY <1>1, ConcatEmptySeq
<1>3. meaningAfter(file, before, e) =
        [points |-> before.points, analogs |-> before.analogs, used |-> before.used]
  BY <1>2 DEF meaningAfter
<1> QED  BY <1>3 DEF MeansUpTo

\* An element that readParam reads for its group.
LEMMA MeaningRead ==
  ASSUME NEW read, NEW read2, NEW before \in Meanings, MeansUpTo(read, before),
         NEW e, isElement(e), NEW group, NEW val \in BOOLEAN,
         ReadAs(read, read2, e, group, val),
         \A G : belongsTo(file, e, G) <=> group = G
  PROVE  MeansUpTo(read2, meaningAfter(file, before, e))
<1> DEFINE after == meaningAfter(file, before, e)
<1>1. before.points \in Seq(Text) /\ before.analogs \in Seq(Text)
  BY DEF Meanings
<1>2. /\ after.points = before.points \o labelsOf(file, e, "POINT")
      /\ after.analogs = before.analogs \o labelsOf(file, e, "ANALOG")
      /\ after.used = IF IsUsed(e, group) THEN e.value ELSE before.used
  BY DEF meaningAfter, IsUsed
<1>3. \A G : labelsOf(file, e, G) = IF IsLabels(e, group, G) THEN e.value ELSE <<>>
  BY DEF labelsOf, IsLabels
<1>4. ASSUME NEW old, NEW meant, LabelsAre(old, meant), NEW G
      PROVE  LabelsAre(IF IsLabels(e, group, G) THEN old \o readLabels(e.value, val) ELSE old,
                       meant \o labelsOf(file, e, G))
  <2>1. CASE IsLabels(e, group, G)
    <3>1. e.value \in Seq(Text)
      BY <2>1 DEF isElement, IsLabels
    <3>2. LabelsAre(readLabels(e.value, val), e.value)
      BY <3>1, LabelsRead
    <3> QED  BY <1>3, <1>4, <2>1, <3>2, LabelsJoin
  <2>2. CASE ~IsLabels(e, group, G)
    <3>1. meant \o <<>> = meant
      BY <1>4, ConcatEmptySeq DEF LabelsAre
    <3> QED  BY <1>3, <1>4, <2>2, <3>1
  <2> QED  BY <2>1, <2>2
<1>5. LabelsAre(read2.pointLabels, after.points)
  BY <1>2, <1>4, Zenon DEF ReadAs, MeansUpTo
<1>6. LabelsAre(read2.analogLabels, after.analogs)
  BY <1>2, <1>4, Zenon DEF ReadAs, MeansUpTo
<1>7. read2.analogFrames = after.used
  BY <1>2, Zenon DEF ReadAs, MeansUpTo
<1> QED  BY <1>5, <1>6, <1>7 DEF MeansUpTo

MeansInv ==
  /\ DOMAIN m = Members /\ validate \in BOOLEAN
  /\ pc \in {"idle", "opened"} => m.pointLabels = <<>> /\ m.analogLabels = <<>>
  /\ pc = "params" /\ next <= Len(params) /\ InOrder(file) =>
       GroupsRead(next) /\ MeansUpTo(m, file.meaning[next - 1])
  /\ pc \in {"locators", "frames", "finish"} /\ InOrder(file) =>
       MeansUpTo(m, file.meaning[Len(params)])

LEMMA ElementMeans ==
  ASSUME FileInv, MeansInv, Element, InOrder(file), NEW k \in 1..Len(params),
         Elem(element, k), next = k
  PROVE  (ends(element) \/ GroupsRead(k + 1)') /\ MeansUpTo(m', file.meaning[k])
<1>1. PICK e : e = element
  OBVIOUS
<1>2. /\ e = params[k] /\ isElement(e) /\ e.id \in Int
      /\ file' = file /\ params' = params
  BY <1>1 DEF Elem, Element, params
<1>3. isFile(file)
  BY C3dAssumption DEF FileInv, Element
<1>4. PICK n \in Nat : n = Len(params)
  BY <1>3 DEF isFile, params
<1>5. /\ GroupsRead(k) /\ MeansUpTo(m, file.meaning[k - 1])
      /\ DOMAIN m = Members /\ validate \in BOOLEAN
  BY <1>4 DEF MeansInv, Element
<1>6. PICK before \in Meanings : before = file.meaning[k - 1]
  BY <1>3, <1>4 DEF isFile, params
<1>7. file.meaning[k] = meaningAfter(file, before, e)
  BY <1>2, <1>3, <1>4, <1>6 DEF isFile, params
<1>8. \A G : belongsTo(file, e, G) <=> e.id \in DOMAIN groups /\ groups[e.id] = G
  BY <1>2, <1>3, <1>5, GroupKnown
<1>9. \/ ends(e) /\ e.name = NoName /\ UNCHANGED <<m, groups>>
      \/ /\ e.id < 0 /\ m' = m
         /\ groups' = [i \in DOMAIN groups \cup {-e.id} |->
                         IF i = -e.id THEN e.name ELSE groups[i]]
      \/ /\ ~(e.id < 0) /\ groups' = groups
         /\ m' = IF e.id \in DOMAIN groups
                 THEN readParam(m, file, groups[e.id], e, validate) ELSE m
  BY <1>1 DEF Element
<1>10. k - 1 \in Nat /\ (k + 1) - 1 = k /\ (\A i \in 1..k : i = k \/ i \in 1..(k - 1))
  BY <1>4
<1>11. ASSUME groups' = groups, ~(e.id < 0) PROVE GroupsRead(k + 1)'
  <2>1. \A i \in 1..((k + 1) - 1) : params[i].id < 0 => i \in 1..(k - 1)
    BY <1>2, <1>10, <1>11
  <2> QED  BY <1>2, <1>5, <1>11, <2>1 DEF GroupsRead
<1>12. ASSUME m' = m, \/ e.name = NoName \/ e.id < 0 \/ e.id \notin DOMAIN groups
       PROVE  MeansUpTo(m', file.meaning[k])
  <2>1. \A G : belongsTo(file, e, G) => e.name \notin LabelNames /\ e.name # "USED"
    <3>1. NoName \notin LabelNames /\ NoName # "USED"
      BY DEF NoName, LabelNames
    <3>2. e.id < 0 => \A G : ~belongsTo(file, e, G)
      BY <1>2 DEF belongsTo
    <3> QED  BY <1>8, <1>12, <3>1, <3>2, Zenon
  <2>2. labelsOf(file, e, "POINT") = <<>> /\ labelsOf(file, e, "ANALOG") = <<>>
    BY <2>1 DEF labelsOf
  <2> QED  BY <1>5, <1>6, <1>7, <1>12, <2>1, <2>2, MeaningKept
<1>13. CASE ends(e) /\ e.name = NoName /\ UNCHANGED <<m, groups>>
  BY <1>1, <1>12, <1>13
<1>14. CASE /\ e.id < 0 /\ m' = m
            /\ groups' = [i \in DOMAIN groups \cup {-e.id} |->
                            IF i = -e.id THEN e.name ELSE groups[i]]
  <2>1. PICK d \in Int : d = -e.id /\ d > 0
    BY <1>2, <1>14
  <2>2. groups' = [i \in DOMAIN groups \cup {d} |-> IF i = d THEN e.name ELSE groups[i]]
    BY <1>14, <2>1
  <2>3. ASSUME NEW i \in 1..k, params[i].id < 0
        PROVE  -params[i].id \in DOMAIN groups' /\ groups'[-params[i].id] = params[i].name
    <3>1. CASE i = k
      BY <1>2, <2>1, <2>2, <3>1
    <3>2. CASE i # k
      <4>1. i \in 1..(k - 1) /\ i \in 1..n
        BY <1>4, <1>10, <3>2
      <4>2. -params[i].id \in DOMAIN groups /\ groups[-params[i].id] = params[i].name
        BY <1>5, <2>3, <4>1 DEF GroupsRead
      <4>3. params[i].id # e.id
        BY <1>2, <1>4, <2>3, <3>2, <4>1 DEF InOrder, params
      <4>4. params[i].id \in Int
        BY <1>3, <1>4, <4>1, ShortsFit DEF isFile, isElement, params
      <4>5. -params[i].id # d
        BY <1>2, <2>1, <4>3, <4>4
      <4> QED  BY <2>2, <4>2, <4>5
    <3> QED  BY <3>1, <3>2
  <2>4. \A g \in DOMAIN groups' : g \in Int /\ g > 0
    BY <1>5, <2>1, <2>2 DEF GroupsRead
  <2>5. GroupsRead(k + 1)'
    BY <1>2, <1>10, <2>3, <2>4 DEF GroupsRead
  <2> QED  BY <1>12, <1>14, <2>5
<1>15. CASE /\ ~(e.id < 0) /\ groups' = groups
            /\ m' = IF e.id \in DOMAIN groups
                    THEN readParam(m, file, groups[e.id], e, validate) ELSE m
  <2>1. CASE e.id \in DOMAIN groups
    <3>1. ReadAs(m, m', e, groups[e.id], validate)
      BY <1>2, <1>5, <1>15, <2>1, ParamRead
    <3>2. \A G : belongsTo(file, e, G) <=> groups[e.id] = G
      BY <1>8, <2>1
    <3>3. MeansUpTo(m', meaningAfter(file, before, e))
      BY <1>2, <1>5, <1>6, <3>1, <3>2, MeaningRead
    <3> QED  BY <1>7, <1>11, <1>15, <3>3
  <2>2. CASE e.id \notin DOMAIN groups
    BY <1>11, <1>12, <1>15, <2>2
  <2> QED  BY <2>1, <2>2
<1> QED  BY <1>9, <1>13, <1>14, <1>15

LEMMA MeansInit == Init => MeansInv
<1> SUFFICES ASSUME Init PROVE MeansInv
  OBVIOUS
<1>1. DOMAIN m = Members
  BY DEF Init, Members
<1>2. m.pointLabels = <<>> /\ m.analogLabels = <<>>
  BY DEF Init, Fresh
<1>3. validate \in BOOLEAN /\ pc = "idle"
  BY DEF Init
<1> QED  BY <1>1, <1>2, <1>3 DEF MeansInv

\* Whatever an element is, the members are those of the object.
LEMMA MembersKept ==
  ASSUME FileInv, MeansInv, Element
  PROVE  DOMAIN m' = Members
<1>1. PICK e : e = element
  OBVIOUS
<1>3. m' = m \/ m' = readParam(m, file, groups[e.id], e, validate)
  BY <1>1 DEF Element
<1>4. DOMAIN m = Members
  BY DEF MeansInv
<1>5. isElement(e)
  <2>1. PICK k \in 1..Len(params) : Elem(e, k)
    BY <1>1, ElementRead DEF Element
  <2> QED  BY <2>1 DEF Elem, isElement
<1> QED  BY <1>3, <1>4, <1>5, ParamRead DEF ReadAs

LEMMA MeansNext == FileInv /\ MeansInv /\ [Next]_vars => MeansInv'
<1> SUFFICES ASSUME FileInv, MeansInv, [Next]_vars
             PROVE  MeansInv'
  OBVIOUS
<1>1. DOMAIN m = Members /\ validate \in BOOLEAN
  BY DEF MeansInv
<1>2. ASSUME NEW f \in Files, Open(f) PROVE MeansInv'
  <2>1. UNCHANGED <<m, validate>> /\ pc = "idle" /\ pc' \in {"opened", "idle"}
    BY <1>2 DEF Open
  <2> QED  BY <2>1 DEF MeansInv
<1>3. CASE Begin
  <2>1. /\ DOMAIN m' = Members /\ validate' = validate /\ pc' \in {"idle", "params"}
        /\ m'.pointLabels = <<>> /\ m'.analogLabels = <<>> /\ m'.analogFrames = 0
    BY <1>1, <1>3, MembersAre DEF Begin, MeansInv
  <2>2. next' = 1 /\ groups' = <<>> /\ file' = file /\ isFile(file)
    BY <1>3, C3dAssumption DEF Begin, FileInv
  <2>3. file.meaning[0] = NoMeaning
    BY <2>2 DEF isFile
  <2>4. MeansUpTo(m', file.meaning[0])
    BY <2>1, <2>3, NoLabels DEF MeansUpTo, NoMeaning
  <2>5. GroupsRead(1)'
    <3>1. DOMAIN groups' = {} /\ 1..(1 - 1) = {}
      BY <2>2
    <3> QED  BY <3>1 DEF GroupsRead
  <2>6. (GroupsRead(next) /\ MeansUpTo(m, file.meaning[next - 1]))'
    <3>1. next' - 1 = 0
      BY <2>2
    <3> QED  BY <2>2, <2>4, <2>5, <3>1
  <2> QED  BY <1>1, <2>1, <2>6 DEF MeansInv
<1>4. CASE Element
  <2>1. /\ pc = "params" /\ file' = file /\ params' = params /\ validate' = validate
        /\ pc' = IF ends(element) THEN "locators" ELSE "params"
    BY <1>4 DEF Element, params
  <2>2. PICK k \in 1..Len(params) : Elem(element, k)
    BY <2>1, ElementRead
  <2>3. PICK n \in Nat : n = Len(params)
    BY <2>1, C3dAssumption DEF FileInv, isFile, params
  <2>4. DOMAIN m' = Members
    BY <1>4, MembersKept
  <2>5. next' = next + (IF next <= n THEN 1 ELSE 0)
    BY <1>4, <2>3 DEF Element, params
  <2>6. CASE next = k
    <3>1. next' = k + 1 /\ next' - 1 = k
      BY <2>3, <2>5, <2>6
    <3>2. ASSUME InOrder(file)
          PROVE  (ends(element) \/ GroupsRead(next)') /\ MeansUpTo(m', file.meaning[k])
      BY <1>4, <2>2, <2>6, <3>1, <3>2, ElementMeans
    <3>3. ends(element) => k = n
      BY <2>2, <2>3, EndsWhereClosed DEF Elem
    <3> QED  BY <1>1, <2>1, <2>3, <2>4, <3>1, <3>2, <3>3 DEF MeansInv
  <2>7. CASE next # k
    <3>1. next = n + 1 /\ k = n
      BY <2>2, <2>3, <2>7 DEF Elem
    <3>2. ~Closes(params[n].offset)
      BY <2>1, <2>3, <3>1 DEF FileInv
    <3>3. pc' = "params"
      BY <2>1, <2>2, <3>1, <3>2, EndsWhereClosed DEF Elem
    <3>4. ~(next' <= n)
      BY <2>5, <3>1
    <3> QED  BY <1>1, <2>1, <2>3, <2>4, <3>3, <3>4 DEF MeansInv
  <2> QED  BY <2>6, <2>7
<1>5. ASSUME NEW t \in BOOLEAN, SectionDone(t) PROVE MeansInv'
  <2>1. /\ pc = "locators" /\ pc' = "frames" /\ file' = file /\ params' = params
        /\ validate' = validate
    BY <1>5 DEF SectionDone, params
  <2>2. /\ DOMAIN m' = Members /\ m'.pointLabels = m.pointLabels
        /\ m'.analogLabels = m.analogLabels /\ m'.analogFrames = m.analogFrames
    BY <1>1, <1>5, MembersAre DEF SectionDone
  <2> QED  BY <1>1, <2>1, <2>2 DEF MeansInv, MeansUpTo
<1>6. CASE Frame
  <2>1. /\ pc = "frames" /\ pc' \in {"frames", "finish"} /\ params' = params
        /\ UNCHANGED <<file, m, validate>>
    BY <1>6 DEF Frame, members, params
  <2> QED  BY <1>1, <2>1 DEF MeansInv
<1>7. CASE Finish
  <2>1. /\ pc' = "idle" /\ validate' = validate /\ DOMAIN m' = Members
        /\ m'.pointLabels = <<>> /\ m'.analogLabels = <<>>
    BY <1>1, <1>7, MembersAre DEF Finish, withoutLabels
  <2> QED  BY <1>1, <2>1 DEF MeansInv
<1>8. CASE UNCHANGED vars
  <2>1. UNCHANGED <<pc, file, m, validate, groups, next>> /\ params' = params
    BY <1>8 DEF vars, members, section, params
  <2> QED  BY <2>1 DEF MeansInv, GroupsRead
<1>9. CASE Crash
  <2>1. pc' = "crashed" /\ UNCHANGED <<m, validate>>
    BY <1>9 DEF Crash, members
  <2> QED  BY <1>1, <2>1 DEF MeansInv
<1> QED  BY <1>2, <1>3, <1>4, <1>5, <1>6, <1>7, <1>8, <1>9 DEF Next, Running

-----------------------------------------------------------------------------
(* Locators *)

Announced(set, labels, count, isPoint) ==
  /\ \A i \in 0..(count - 1) : \E l \in set : l.isPoint = isPoint /\ l.i = i
  /\ \A l \in set :
       /\ l.isPoint = isPoint /\ l.i \in Nat
       /\ l.name = IF l.i < Len(labels) THEN labels[l.i + 1] ELSE NoName
       /\ l = [i |-> l.i, name |-> l.name, isPoint |-> isPoint]

LEMMA LocatorsAnnounced ==
  ASSUME NEW labels \in Seq(Text), NEW count \in Nat, NEW isPoint
  PROVE  Announced(locatorsFor(labels, count, isPoint), labels, count, isPoint)
<1>1. PICK n \in Nat : n = Len(labels)
  BY LenProperties
<1> DEFINE named(i) == [i |-> i, name |-> labels[i + 1], isPoint |-> isPoint]
           nameless(i) == [i |-> i, name |-> NoName, isPoint |-> isPoint]
           set == locatorsFor(labels, count, isPoint)
<1>2. set = {named(i) : i \in 0..(n - 1)} \cup {nameless(i) : i \in n..(count - 1)}
  BY <1>1 DEF locatorsFor
<1> HIDE DEF set
<1>3. ASSUME NEW i \in 0..(count - 1)
      PROVE  \E l \in set : l.isPoint = isPoint /\ l.i = i
  <2>1. CASE i < n
    <3>1. i \in 0..(n - 1) /\ named(i).isPoint = isPoint /\ named(i).i = i
      BY <1>1, <2>1
    <3> QED  BY <1>2, <3>1
  <2>2. CASE ~(i < n)
    <3>1. i \in n..(count - 1) /\ nameless(i).isPoint = isPoint /\ nameless(i).i = i
      BY <1>1, <2>2
    <3> QED  BY <1>2, <3>1
  <2> QED  BY <2>1, <2>2
<1>4. ASSUME NEW l \in set
      PROVE  /\ l.isPoint = isPoint /\ l.i \in Nat
             /\ l.name = IF l.i < n THEN labels[l.i + 1] ELSE NoName
             /\ l = [i |-> l.i, name |-> l.name, isPoint |-> isPoint]
  <2>1. CASE l \in {named(i) : i \in 0..(n - 1)}
    <3>1. PICK i \in 0..(n - 1) : l = named(i)
      BY <2>1
    <3>2. i \in Nat /\ i < n
      BY <1>1
    <3> QED  BY <3>1, <3>2
  <2>2. CASE l \in {nameless(i) : i \in n..(count - 1)}
    <3>1. PICK i \in n..(count - 1) : l = nameless(i)
      BY <2>2
    <3>2. i \in Nat /\ ~(i < n)
      BY <1>1
    <3> QED  BY <3>1, <3>2
  <2> QED  BY <1>2, <1>4, <2>1, <2>2
<1> QED  BY <1>1, <1>3, <1>4, Zenon DEF Announced, set

AllLocators ==
  locatorsFor(m.pointLabels, header.markers, TRUE)
    \cup locatorsFor(m.analogLabels, header.channels, FALSE)

KeysNumbered ==
  /\ \A k \in keys.points : k.i \in 0..(header.markers - 1)
  /\ \A k \in keys.analogs :
       k.i \in 0..(m.analogFrames - 1) /\ k.n \in 0..(header.perFrame - 1)

LocatorsInv ==
  /\ pc \in {"params", "locators"} => keys = noKeys
  /\ pc \in {"frames", "finish"} => locators = AllLocators /\ KeysNumbered

LEMMA LocatorsNext == MeansInv /\ LocatorsInv /\ [Next]_vars => LocatorsInv'
<1> SUFFICES ASSUME MeansInv, LocatorsInv, [Next]_vars
             PROVE  LocatorsInv'
  OBVIOUS
<1>1. ASSUME NEW f \in Files, Open(f) PROVE LocatorsInv'
  BY <1>1 DEF Open, LocatorsInv
<1>2. CASE Begin
  BY <1>2 DEF Begin, LocatorsInv
<1>3. CASE Element
  BY <1>3 DEF Element, client, LocatorsInv
<1>4. ASSUME NEW t \in BOOLEAN, SectionDone(t) PROVE LocatorsInv'
  <2>1. /\ pc' = "frames" /\ header' = header /\ keys' = noKeys /\ locators' = AllLocators
    BY <1>4 DEF SectionDone, LocatorsInv, AllLocators
  <2>2. m'.pointLabels = m.pointLabels /\ m'.analogLabels = m.analogLabels
    BY <1>4, MembersAre DEF SectionDone, MeansInv
  <2>3. KeysNumbered'
    BY <2>1 DEF KeysNumbered, noKeys
  <2> QED  BY <2>1, <2>2, <2>3 DEF LocatorsInv, AllLocators
<1>5. CASE Frame
  <2>1. /\ pc = "frames" /\ pc' \in {"frames", "finish"}
        /\ UNCHANGED <<m, header, locators>>
    BY <1>5 DEF Frame, members
  <2>2. PICK points, analogs : keys' = [points |-> pointKeys(points),
                                        analogs |-> analogKeys(analogs)]
    BY <1>5 DEF Frame
  <2>3. \A k \in pointKeys(points) : k.i \in 0..(header.markers - 1)
    BY DEF pointKeys
  <2>4. \A k \in analogKeys(analogs) :
          k.i \in 0..(m.analogFrames - 1) /\ k.n \in 0..(header.perFrame - 1)
    BY DEF analogKeys
  <2>5. KeysNumbered'
    BY <2>1, <2>2, <2>3, <2>4 DEF KeysNumbered
  <2> QED  BY <2>1, <2>5 DEF LocatorsInv, AllLocators
<1>6. CASE Finish
  BY <1>6 DEF Finish, LocatorsInv
<1>7. CASE UNCHANGED vars
  BY <1>7 DEF vars, members, client, LocatorsInv, AllLocators, KeysNumbered
<1>8. CASE Crash
  BY <1>8 DEF Crash, LocatorsInv
<1> QED  BY <1>1, <1>2, <1>3, <1>4, <1>5, <1>6, <1>7, <1>8 DEF Next, Running

\* A label that is announced is one the file gives that locator.
LEMMA NameGiven ==
  ASSUME NEW set, NEW labels, NEW meant, LabelsAre(labels, meant), NEW count, NEW isPoint,
         Announced(set, labels, count, isPoint), NEW l \in set
  PROVE  IF l.i < Len(meant) THEN l.name \in {meant[l.i + 1], Validated[meant[l.i + 1]]}
         ELSE l.name = NoName
<1>1. PICK n \in Nat : n = Len(labels) /\ n = Len(meant)
  BY LenProperties DEF LabelsAre
<1>2. l.i \in Nat /\ l.name = IF l.i < n THEN labels[l.i + 1] ELSE NoName
  BY <1>1 DEF Announced
<1>3. l.i < n => l.i + 1 \in 1..n
  BY <1>1, <1>2
<1> QED  BY <1>1, <1>2, <1>3 DEF LabelsAre

LEMMA LocatorsShown ==
  ASSUME FileInv, MeansInv, LocatorsInv
  PROVE  LocatorsComplete
<1> SUFFICES ASSUME inFrames PROVE
      /\ \A k \in keys.points : \E l \in locators : l.isPoint /\ l.i = k.i
      /\ \A k \in keys.analogs : \E l \in locators : ~l.isPoint /\ l.i = k.i
      /\ \A l1, l2 \in locators : l1.isPoint = l2.isPoint /\ l1.i = l2.i => l1 = l2
      /\ \A l \in locators :
           LET labels == Labels(file, IF l.isPoint THEN "POINT" ELSE "ANALOG")
           IN  IF l.i < Len(labels)
               THEN l.name \in {labels[l.i + 1], Validated[labels[l.i + 1]]}
               ELSE l.name = NoName
  BY DEF LocatorsComplete
<1>1. Reading /\ pc \in {"frames", "finish"} /\ InOrder(file)
  BY DEF inFrames, Reading
<1>2. PICK meant : meant = file.meaning[Len(params)]
  OBVIOUS
<1>3. /\ LabelsAre(m.pointLabels, meant.points) /\ LabelsAre(m.analogLabels, meant.analogs)
      /\ m.analogFrames = meant.used
  BY <1>1, <1>2 DEF MeansInv, MeansUpTo
<1>4. m.pointLabels \in Seq(Text) /\ m.analogLabels \in Seq(Text)
  BY <1>3 DEF LabelsAre
<1> DEFINE P == locatorsFor(m.pointLabels, header.markers, TRUE)
           A == locatorsFor(m.analogLabels, header.channels, FALSE)
<1>5. header.markers \in Nat /\ header.channels \in Nat
  BY <1>1, HeaderRead
<1>6. Announced(P, m.pointLabels, header.markers, TRUE)
  BY <1>4, <1>5, LocatorsAnnounced
<1>7. Announced(A, m.analogLabels, header.channels, FALSE)
  BY <1>4, <1>5, LocatorsAnnounced
<1>8. locators = P \cup A /\ KeysNumbered
  BY <1>1 DEF LocatorsInv, AllLocators
<1> HIDE DEF P, A
<1>9. ASSUME NEW k \in keys.points
      PROVE  \E l \in locators : l.isPoint /\ l.i = k.i
  <2>1. k.i \in 0..(header.markers - 1)
    BY <1>8 DEF KeysNumbered
  <2>2. PICK l \in P : l.isPoint = TRUE /\ l.i = k.i
    BY <1>6, <2>1 DEF Announced
  <2> QED  BY <1>8, <2>2
<1>10. ASSUME NEW k \in keys.analogs
       PROVE  \E l \in locators : ~l.isPoint /\ l.i = k.i
  <2>1. PICK u : u = m.analogFrames
    OBVIOUS
  <2>2. k.i \in 0..(u - 1) /\ k.n \in 0..(header.perFrame - 1)
    BY <1>8, <2>1 DEF KeysNumbered
  <2>3. u \in Nat /\ header.perFrame \in Nat /\ header.channels = u * header.perFrame
    <3>1. isFile(file)
      BY <1>1, HeaderRead
    <3>2. meant \in Meanings
      BY <1>2, <3>1 DEF isFile, params
    <3>3. u \in Nat
      BY <1>3, <2>1, <3>2 DEF Meanings, Shorts
    <3>4. file.channels = u * file.perFrame
      BY <1>1, <1>2, <1>3, <2>1 DEF InOrder, AnalogUsed, params
    <3> QED  BY <1>1, <3>3, <3>4, HeaderRead
  <2>4. k.i \in 0..(header.channels - 1)
    <3>1. PICK p \in Nat : p = header.perFrame
      BY <2>3
    <3>2. p > 0
      BY <2>2, <3>1
    <3>3. u <= u * p
      BY <2>3, <3>2
    <3>4. PICK c \in Nat : c = header.channels /\ c = u * p
      BY <1>5, <2>3, <3>1
    <3> QED  BY <2>2, <2>3, <3>3, <3>4
  <2>5. PICK l \in A : l.isPoint = FALSE /\ l.i = k.i
    BY <1>7, <2>4 DEF Announced
  <2> QED  BY <1>8, <2>5
<1>11. (\A l \in P : l.isPoint = TRUE) /\ (\A l \in A : l.isPoint = FALSE)
  BY <1>6, <1>7, Zenon DEF Announced
<1>12. ASSUME NEW l1 \in locators, NEW l2 \in locators,
              l1.isPoint = l2.isPoint, l1.i = l2.i
       PROVE  l1 = l2
  <2>1. CASE l1 \in P /\ l2 \in P
    BY <1>6, <1>12, <2>1 DEF Announced
  <2>2. CASE l1 \in A /\ l2 \in A
    BY <1>7, <1>12, <2>2 DEF Announced
  <2> QED  BY <1>8, <1>11, <1>12, <2>1, <2>2
<1>13. ASSUME NEW l \in locators
       PROVE  LET labels == Labels(file, IF l.isPoint THEN "POINT" ELSE "ANALOG")
              IN  IF l.i < Len(labels)
                  THEN l.name \in {labels[l.i + 1], Validated[labels[l.i + 1]]}
                  ELSE l.name = NoName
  <2>1. CASE l \in P
    <3>1. Labels(file, IF l.isPoint THEN "POINT" ELSE "ANALOG") = meant.points
      BY <1>2, <1>11, <2>1 DEF Labels, params
    <3> QED  BY <1>3, <1>6, <2>1, <3>1, NameGiven
  <2>2. CASE l \in A
    <3>1. Labels(file, IF l.isPoint THEN "POINT" ELSE "ANALOG") = meant.analogs
      BY <1>2, <1>11, <2>2 DEF Labels, params
    <3> QED  BY <1>3, <1>7, <2>2, <3>1, NameGiven
  <2> QED  BY <1>8, <2>1, <2>2
<1> QED  BY <1>9, <1>10, <1>12, <1>13

(* For every file in order, whatever was parsed before it, the locators that *)
(* parse creates (c3dFile.cpp:387-397) have no number twice, carry the labels*)
(* of this file only, and there is one for each key of a frame.              *)
THEOREM LocatorsAreComplete == Spec => []LocatorsComplete
<1>1. Init => LocatorsInv
  BY DEF Init, LocatorsInv
<1>2. FileInv /\ MeansInv /\ LocatorsInv => LocatorsComplete
  BY LocatorsShown
<1> QED  BY <1>1, <1>2, FileInit, FileNext, MeansInit, MeansNext, LocatorsNext, PTL DEF Spec

-----------------------------------------------------------------------------
(* Frames *)

LEMMA NextMultiple ==
  ASSUME NEW f \in Nat, NEW s \in Nat
  PROVE  f * s \in Nat /\ (f + 1) * s = f * s + s
OBVIOUS

\* The samples of a frame, one after the other, fill the values of the frame.
LEMMA SampleFits ==
  ASSUME NEW u \in Nat, NEW p \in Nat, NEW c \in 0..(u - 1), NEW n \in 0..(p - 1)
  PROVE  n * u + c + 1 \in 1..(p * u)
<1>1. PICK d \in Nat : p = (n + 1) + d
  <2>1. p - (n + 1) \in Nat /\ p = (n + 1) + (p - (n + 1))
    OBVIOUS
  <2> QED  BY <2>1
<1>2. n \in Nat /\ n * u \in Nat /\ (n + 1) * u = n * u + u
  BY NextMultiple
<1>3. d * u \in Nat /\ p * u = (n + 1) * u + d * u
  BY <1>1, <1>2
<1> QED  BY <1>2, <1>3

PointData(ks) == {<<k.i, k.data>> : k \in ks}
SampleData(ks) == {<<k.i, k.n, k.data>> : k \in ks}
OwnPoints(q, base) == {<<i, [c \in 1..3 |-> base + 4 * i + c]>> : i \in 0..(q - 1)}
OwnSamples(u, p, base) ==
  {<<c, n, base + n * u + c + 1>> : c \in 0..(u - 1), n \in 0..(p - 1)}

LEMMA PointsRead ==
  ASSUME NEW q \in Nat, header.markers = q, NEW base \in Nat, NEW cells,
         \A i \in 1..(4 * q) : cells[i] = base + i
  PROVE  PointData(pointKeys(cells)) = OwnPoints(q, base)
<1> DEFINE key(k) == [i |-> k, time |-> current,
                      data |-> [c \in 1..3 |-> cells[4 * k + c]]]
<1>1. pointKeys(cells) = {key(k) : k \in 0..(q - 1)}
  BY DEF pointKeys
<1>2. ASSUME NEW k \in 0..(q - 1)
      PROVE  <<key(k).i, key(k).data>> = <<k, [c \in 1..3 |-> base + 4 * k + c]>>
  <2>1. \A c \in 1..3 : 4 * k + c \in 1..(4 * q) /\ base + (4 * k + c) = base + 4 * k + c
    OBVIOUS
  <2>2. [c \in 1..3 |-> cells[4 * k + c]] = [c \in 1..3 |-> base + 4 * k + c]
    BY <2>1
  <2>3. key(k).i = k /\ key(k).data = [c \in 1..3 |-> cells[4 * k + c]]
    OBVIOUS
  <2> QED  BY <2>2, <2>3
<1> DEFINE data(k) == <<k, [c \in 1..3 |-> base + 4 * k + c]>>
           read == PointData(pointKeys(cells))
<1> HIDE DEF key, data
<1>3. \A k \in 0..(q - 1) : <<key(k).i, key(k).data>> = data(k)
  BY <1>2 DEF data
<1>4. ASSUME NEW x \in read PROVE x \in {data(k) : k \in 0..(q - 1)}
  <2>1. PICK y \in pointKeys(cells) : x = <<y.i, y.data>>
    BY <1>4 DEF read, PointData
  <2>2. PICK k \in 0..(q - 1) : y = key(k)
    BY <1>1, <2>1
  <2> QED  BY <1>3, <2>1, <2>2
<1>5. ASSUME NEW k \in 0..(q - 1) PROVE data(k) \in read
  <2>1. key(k) \in pointKeys(cells)
    BY <1>1
  <2>2. <<key(k).i, key(k).data>> \in read
    BY <2>1 DEF read, PointData
  <2> QED  BY <1>3, <2>2
<1> HIDE DEF read
<1>6. read = {data(k) : k \in 0..(q - 1)}
  BY <1>4, <1>5, Zenon
<1> QED  BY <1>6 DEF read, data, OwnPoints

LEMMA SamplesRead ==
  ASSUME NEW u \in Nat, NEW p \in Nat, m.analogFrames = u, header.perFrame = p,
         header.float \/ file.proc # Sgi, NEW base \in Nat, NEW cells,
         \A i \in 1..(p * u) : cells[i] = base + i
  PROVE  SampleData(analogKeys(cells)) = OwnSamples(u, p, base)
<1> DEFINE key(c, n) == [i |-> c, n |-> n, time |-> analogTime(n),
                         data |-> analogData(cells, n * m.analogFrames + c + 1)]
<1>1. analogKeys(cells) = {key(c, n) : c \in 0..(u - 1), n \in 0..(p - 1)}
  BY DEF analogKeys
<1>2. ASSUME NEW c \in 0..(u - 1), NEW n \in 0..(p - 1)
      PROVE  <<key(c, n).i, key(c, n).n, key(c, n).data>> = <<c, n, base + n * u + c + 1>>
  <2>1. PICK x \in 1..(p * u) : x = n * u + c + 1
    BY SampleFits
  <2>2. analogData(cells, n * m.analogFrames + c + 1) = cells[x]
    BY <2>1 DEF analogData
  <2>3. base + x = base + n * u + c + 1
    <3>1. n * u \in Nat
      BY NextMultiple
    <3> QED  BY <2>1, <3>1
  <2>4. /\ key(c, n).i = c /\ key(c, n).n = n
        /\ key(c, n).data = analogData(cells, n * m.analogFrames + c + 1)
    OBVIOUS
  <2> QED  BY <2>1, <2>2, <2>3, <2>4
<1> HIDE DEF key
<1> QED  BY <1>1, <1>2 DEF SampleData, OwnSamples

FramesInv ==
  inFrames =>
    /\ frame \in Nat
    /\ DOMAIN buffer.markers = 1..markerUnits /\ DOMAIN buffer.analogs = 1..analogUnits
    /\ frame * stride <= file.units => pos = frame * stride

\* The sizes the header and the parameters give are those of the file.
LEMMA SizesAgree ==
  ASSUME FileInv, MeansInv, pc \in {"locators", "frames", "finish"}, InOrder(file)
  PROVE  /\ markerUnits = 4 * file.markers /\ analogUnits = file.channels
         /\ m.analogFrames = AnalogUsed(file) /\ AnalogUsed(file) \in Nat
         /\ header.perFrame = file.perFrame
         /\ file.channels = file.perFrame * AnalogUsed(file)
         /\ header.markers = file.markers /\ header.body = file.body
         /\ file.markers \in Nat /\ file.channels \in Nat /\ file.perFrame \in Nat
         /\ file.body \in Nat /\ file.units \in Nat
<1>1. Reading
  BY DEF Reading
<1>2. /\ header.markers = file.markers /\ header.perFrame = file.perFrame
      /\ header.body = file.body /\ isFile(file)
      /\ file.markers \in Nat /\ file.channels \in Nat /\ file.perFrame \in Nat
      /\ file.body \in Nat
  BY <1>1, HeaderRead
<1>3. PICK u : u = AnalogUsed(file)
  OBVIOUS
<1>4. m.analogFrames = u
  BY <1>3 DEF MeansInv, MeansUpTo, AnalogUsed, params
<1>5. u \in Nat /\ file.units \in Nat
  <2>1. Len(file.params) \in 0..Len(file.params) /\ file.units \in Nat
    BY <1>2 DEF isFile
  <2>2. file.meaning[Len(file.params)] \in Meanings
    BY <1>2, <2>1 DEF isFile
  <2>3. u \in Shorts
    BY <1>3, <2>2 DEF Meanings, AnalogUsed
  <2> QED  BY <2>1, <2>3 DEF Shorts
<1>6. file.channels = u * file.perFrame
  BY <1>3 DEF InOrder
<1>7. u * file.perFrame = file.perFrame * u
  BY <1>2, <1>5
<1> QED  BY <1>2, <1>3, <1>4, <1>5, <1>6, <1>7 DEF markerUnits, analogUnits

LEMMA FrameRead ==
  ASSUME FileInv, MeansInv, FramesInv, inFrames, Frame
  PROVE  FramesInv' /\ FramesAreTheirs'
<1>1. /\ UNCHANGED <<file, m, header>> /\ pc' \in {"frames", "finish"} /\ frame' = frame + 1
      /\ pc \in {"frames", "finish"} /\ InOrder(file)
  BY DEF Frame, inFrames, members
<1>2. PICK q \in Nat : q = file.markers /\ q = header.markers
  BY <1>1, SizesAgree
<1>3. PICK u \in Nat : u = AnalogUsed(file) /\ u = m.analogFrames
  BY <1>1, SizesAgree
<1>4. PICK p \in Nat : p = file.perFrame /\ p = header.perFrame
  BY <1>1, SizesAgree
<1>5. PICK w \in Nat : w = p * u /\ w = file.channels /\ w = analogUnits
  BY <1>1, <1>3, <1>4, SizesAgree
<1>6. PICK mu \in Nat : mu = 4 * q /\ mu = markerUnits
  BY <1>1, <1>2, SizesAgree
<1>7. PICK units \in Nat : units = file.units
  BY <1>1, SizesAgree
<1>8. PICK s \in Nat : s = mu + w /\ s = stride
  BY <1>2, <1>5, <1>6 DEF stride
<1>9. PICK f \in Nat : f = frame
  BY DEF FramesInv
<1>10. PICK base \in Nat : base = f * s /\ (f + 1) * s = base + s
  BY NextMultiple
<1>11. /\ DOMAIN buffer.markers = 1..mu /\ DOMAIN buffer.analogs = 1..w
       /\ base <= units => pos = base
  BY <1>5, <1>6, <1>7, <1>8, <1>9, <1>10 DEF FramesInv
<1>12. PICK points : points = readInto(buffer.markers, pos)
  OBVIOUS
<1>13. PICK after : after = past(pos, mu)
  OBVIOUS
<1>14. PICK analogs : analogs = readInto(buffer.analogs, after)
  OBVIOUS
<1>15. /\ buffer' = [markers |-> points, analogs |-> analogs] /\ pos' = past(after, w)
       /\ keys' = [points |-> pointKeys(points), analogs |-> analogKeys(analogs)]
  BY <1>5, <1>6, <1>12, <1>13, <1>14 DEF Frame
<1>16. DOMAIN points = 1..mu /\ DOMAIN analogs = 1..w
  BY <1>11, <1>12, <1>14 DEF readInto
<1>17. markerUnits' = mu /\ analogUnits' = w /\ stride' = s
  BY <1>1, <1>5, <1>6, <1>8 DEF markerUnits, analogUnits, stride
<1>18. DOMAIN buffer'.markers = 1..markerUnits' /\ DOMAIN buffer'.analogs = 1..analogUnits'
  BY <1>15, <1>16, <1>17
<1>19. ASSUME base + s <= units
       PROVE  /\ pos = base /\ after = base + mu /\ pos' = base + s
              /\ \A i \in 1..mu : points[i] = base + i
              /\ \A i \in 1..w : analogs[i] = base + mu + i
  <2>1. pos = base /\ base + mu <= units
    BY <1>8, <1>11, <1>19
  <2>2. after = base + mu
    BY <1>7, <1>13, <2>1 DEF past
  <2>3. base + mu + w = base + s
    BY <1>8
  <2>4. pos' = base + s
    BY <1>7, <1>15, <1>19, <2>2, <2>3 DEF past
  <2>5. points = [i \in 1..mu |-> IF base + i <= units THEN base + i ELSE buffer.markers[i]]
    BY <1>7, <1>11, <1>12, <2>1 DEF readInto
  <2>6. analogs = [i \in 1..w |-> IF base + mu + i <= units THEN base + mu + i
                                  ELSE buffer.analogs[i]]
    BY <1>7, <1>11, <1>14, <2>2 DEF readInto
  <2>7. \A i \in 1..mu : base + i <= units
    BY <2>1
  <2>8. \A i \in 1..w : base + mu + i <= units
    BY <1>8, <1>19
  <2>9. \A i \in 1..mu : points[i] = base + i
    BY <2>5, <2>7
  <2>10. \A i \in 1..w : analogs[i] = base + mu + i
    BY <2>6, <2>8
  <2> QED  BY <2>1, <2>2, <2>4, <2>9, <2>10
<1>20. frame' * stride' = base + s /\ frame' \in Nat /\ (frame' - 1) * stride' = base
  <2>1. frame' = f + 1 /\ f + 1 \in Nat /\ (f + 1) - 1 = f
    BY <1>1, <1>9
  <2> QED  BY <1>10, <1>17, <2>1
<1>21. FramesInv'
  BY <1>1, <1>7, <1>18, <1>19, <1>20 DEF FramesInv
<1>22. ASSUME base + s <= units
       PROVE  PointData(keys'.points) = OwnPoints(q, base)
  <2>1. \A i \in 1..(4 * q) : points[i] = base + i
    BY <1>6, <1>19, <1>22
  <2>2. keys'.points = pointKeys(points)
    BY <1>15
  <2> QED  BY <1>2, <2>1, <2>2, PointsRead
<1>23. ASSUME base + s <= units, file.float \/ file.proc # Sgi
       PROVE  SampleData(keys'.analogs) = OwnSamples(u, p, base + 4 * q)
  <2>1. \A i \in 1..(p * u) : analogs[i] = base + mu + i
    BY <1>5, <1>19, <1>23
  <2>2. keys'.analogs = analogKeys(analogs)
    BY <1>15
  <2>3. header.float = file.float
    BY <1>1, HeaderRead DEF Reading
  <2>4. PICK b \in Nat : b = base + mu /\ b = base + 4 * q
    BY <1>6
  <2>5. header.perFrame = p /\ m.analogFrames = u
    BY <1>3, <1>4
  <2>6. header.float \/ file.proc # Sgi
    BY <1>23, <2>3
  <2>7. \A i \in 1..(p * u) : analogs[i] = b + i
    BY ONLY <2>1, <2>4
  <2>8. SampleData(analogKeys(analogs)) = OwnSamples(u, p, b)
    BY ONLY b \in Nat, p \in Nat, u \in Nat, <2>5, <2>6, <2>7, SamplesRead
  <2> QED  BY <2>2, <2>4, <2>8
<1>24. FramesAreTheirs'
  BY <1>1, <1>2, <1>3, <1>4, <1>7, <1>20, <1>22, <1>23
  DEF FramesAreTheirs, PointData, SampleData, OwnPoints, OwnSamples
<1> QED  BY <1>21, <1>24

LEMMA FramesNext ==
  FileInv /\ MeansInv /\ FramesInv /\ FramesAreTheirs /\ [Next]_vars
    => FramesInv' /\ FramesAreTheirs'
<1> SUFFICES ASSUME FileInv, MeansInv, FramesInv, FramesAreTheirs, [Next]_vars
             PROVE  FramesInv' /\ FramesAreTheirs'
  OBVIOUS
<1>1. ASSUME pc' \notin {"frames", "finish"} PROVE FramesInv' /\ FramesAreTheirs'
  BY <1>1 DEF FramesInv, FramesAreTheirs, inFrames
<1>2. ASSUME NEW f \in Files, Open(f) PROVE pc' \notin {"frames", "finish"}
  BY <1>2 DEF Open
<1>3. CASE Begin
  BY <1>1, <1>3 DEF Begin
<1>4. CASE Element
  BY <1>1, <1>4 DEF Element
<1>5. ASSUME NEW t \in BOOLEAN, SectionDone(t) PROVE FramesInv' /\ FramesAreTheirs'
  <2>1. SUFFICES ASSUME InOrder(file) PROVE FramesInv' /\ FramesAreTheirs'
    <3>1. file' = file
      BY <1>5 DEF SectionDone
    <3> QED  BY <2>1, <3>1 DEF FramesInv, FramesAreTheirs, inFrames
  <2>2. /\ pc = "locators" /\ frame' = 0 /\ UNCHANGED <<file, header>>
        /\ pos' = (header.body - file.body) * unitsPerBlock
        /\ buffer' = [markers |-> [i \in 1..markerUnits |-> Garbage],
                      analogs |-> [i \in 1..analogUnits |-> Garbage]]
    BY <1>5 DEF SectionDone
  <2>3. header.body = file.body /\ file.body \in Nat /\ stride \in Nat
    BY <2>1, <2>2, SizesAgree DEF stride
  <2>4. unitsPerBlock \in Nat
    BY DEF unitsPerBlock
  <2>5. pos' = 0
    BY <2>2, <2>3, <2>4
  <2>6. m'.analogFrames = m.analogFrames
    BY <1>5, MembersAre DEF SectionDone, MeansInv
  <2>7. markerUnits' = markerUnits /\ analogUnits' = analogUnits /\ stride' = stride
    BY <2>2, <2>6 DEF markerUnits, analogUnits, stride
  <2>8. frame' * stride' = 0
    BY <2>2, <2>3, <2>7
  <2>9. FramesInv'
    BY <2>2, <2>5, <2>7, <2>8 DEF FramesInv
  <2>10. FramesAreTheirs'
    BY <2>2 DEF FramesAreTheirs
  <2> QED  BY <2>9, <2>10
<1>6. CASE Frame
  <2>1. CASE InOrder(file)
    BY <1>6, <2>1, FrameRead DEF inFrames, Frame
  <2>2. CASE ~InOrder(file)
    BY <1>6, <2>2 DEF Frame, FramesInv, FramesAreTheirs, inFrames
  <2> QED  BY <2>1, <2>2
<1>7. CASE Finish
  BY <1>1, <1>7 DEF Finish
<1>8. CASE UNCHANGED vars
  BY <1>8 DEF vars, members, body, client, FramesInv, FramesAreTheirs, inFrames, stride,
              markerUnits, analogUnits
<1>9. CASE Crash
  BY <1>1, <1>9 DEF Crash
<1> QED  BY <1>1, <1>2, <1>3, <1>4, <1>5, <1>6, <1>7, <1>8, <1>9 DEF Next, Running

(* For every file in order and every number of markers, channels and samples,*)
(* each frame the file has in full is handed on whole (c3dFile.cpp:439-516): *)
(* each key's data are the bytes of its marker or sample in its frame.       *)
THEOREM FramesReadAreTheirs == Spec => []FramesAreTheirs
<1>1. Init => FramesInv /\ FramesAreTheirs
  BY DEF Init, FramesInv, FramesAreTheirs, inFrames
<1> QED  BY <1>1, FileInit, FileNext, MeansInit, MeansNext, FramesNext, PTL DEF Spec
=============================================================================
