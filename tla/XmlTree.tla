------------------------------- MODULE XmlTree -------------------------------
(* XmlTagEntity (XmlTag.h, xmltag.cpp): the tree of entities, read on demand *)
(* through the shared XmlParser of module XmlReader.  parse() reads a whole  *)
(* subtree by recursion; getNext() and getNextTag() read one child of an     *)
(* entity at a time; unParse() and reParse() throw the children away and     *)
(* start over.  The user mixes them on any entity still in the tree.         *)
(*                                                                           *)
(* The recursion is a stack of frames, one getTag a step.  A tag is named by *)
(* one character, "/" before it closes, "/" behind it makes it self-closing. *)
(* An exception of parseTag ends the call with all its frames.               *)
EXTENDS XmlReader, FiniteSets, Functions

CONSTANT MaxCalls   \* calls the user makes after reading the root

VARIABLES
  ents,     \* the entities in the order they were read; the first is the root
  stack,    \* the calls in progress, the innermost first
  ret,      \* what the last call of the user returned: an entity, or None
  calls,    \* calls made so far
  stray     \* an entity with no children was taken apart by unParse

treeVars == <<ents, stack, ret, calls, stray>>
vars == <<readerVars, treeVars>>

None == 0
Npos == 0         \* Xml::npos; m_inserted counts from one here

\* What parseTag makes of the characters between the brackets.
IsClosing(i) == doc[i + 1] = "/"
IsSelf(i, j) == doc[j - 1] = "/"

\* The first character of d behind the bracket i, a slash and blanks.
TagName(d, i) ==
  LET from == IF d[i + 1] = "/" THEN i + 1 ELSE i
  IN d[CHOOSE k \in DOMAIN d :
         /\ k > from /\ d[k] \notin White
         /\ \A h \in (from + 1)..(k - 1) : d[h] \in White]

NameOf(i) == TagName(doc, i)

\* Mutants: a self-closing tag is left open; the content starts at the name.
FaultyComplete(i, j) == FALSE
FaultyOffset(r) == r.open

Complete(i, j) == IsSelf(i, j)
Offset(r) == r.next

TagEntity(r) ==
  [tag |-> TRUE, name |-> NameOf(r.open), self |-> IsSelf(r.open, r.close),
   complete |-> Complete(r.open, r.close), ready |-> TRUE, error |-> FALSE,
   inserted |-> Npos, offset |-> Offset(r), pos |-> Offset(r),
   kids |-> <<>>, at |-> r.open]

\* A literal; only its place in the document is kept.
TextEntity(r) ==
  [tag |-> FALSE, name |-> "literal", self |-> FALSE, complete |-> FALSE,
   ready |-> FALSE, error |-> FALSE, inserted |-> Npos, offset |-> 0, pos |-> 0,
   kids |-> <<>>, at |-> r.open]

Entities == DOMAIN ents

TreeInit ==
  /\ ReaderStart
  /\ ents = <<>> /\ stack = <<>> /\ ret = None /\ calls = 0 /\ stray = FALSE

-----------------------------------------------------------------------------
\* The user's own getTag(offset), called until it gives the root.
ReadRoot ==
  /\ ents = <<>>
  /\ GetTag(last.next)
  /\ last'.kind # "none"
  /\ ents' = IF last'.kind = "tag" THEN <<TagEntity(last')>> ELSE <<>>
  /\ UNCHANGED <<stack, ret, calls, stray>>

Top == stack[1]
Me == Top.ent
Mine == ents[Me]

\* A mutant: an element's content is not waited for.
FaultyStaysReady(x) == TRUE

\* After a literal or a self-closing tag the next child can be read at once.
StaysReady(x) == ~x.tag \/ x.self

\* parseOne, once the entity is ready: what the tag just read does to me.  An
\* exception only moves m_pos.  A closing tag of another name is passed over,
\* and the next child can be read at once if a slash ends it.
ParseOneEnts ==
  LET r == last'
      read == [Mine EXCEPT !.pos = r.next, !.ready = FALSE]
      closes == IsClosing(r.open) /\ NameOf(r.open) = Mine.name
      Becomes(x) == [ents EXCEPT ![Me] = x]
      Add(x) ==
        Append(Becomes([read EXCEPT !.kids = Append(@, Len(ents) + 1),
                                    !.inserted = Len(Mine.kids) + 1,
                                    !.ready = StaysReady(x)]), x)
  IN CASE r.kind = "throw" -> Becomes([Mine EXCEPT !.pos = r.next])
       [] r.kind = "none" -> Becomes([read EXCEPT !.error = TRUE])
       [] r.kind = "text" -> Add(TextEntity(r))
       [] r.kind = "tag" /\ ~IsClosing(r.open) -> Add(TagEntity(r))
       [] OTHER ->
            Becomes([read EXCEPT !.complete = @ \/ closes,
                                 !.ready = ~closes /\ IsSelf(r.open, r.close)])

\* The inner loops of parse() and getNext().  That of getNext() also looks at
\* m_complete, which never goes with m_ready.
Reading == Mine.ready /\ ~Mine.error /\ (Top.op = "getNext" => ~Mine.complete)

Goto(place) == stack' = [stack EXCEPT ![1].at = place]

ParseOne ==
  /\ stack # <<>> /\ Top.at = "inner" /\ Reading
  /\ GetTag(Mine.pos)
  /\ ents' = ParseOneEnts
  /\ IF last'.kind = "throw"
       THEN stack' = <<>> /\ ret' = None
       ELSE UNCHANGED <<stack, ret>>
  /\ UNCHANGED <<calls, stray>>

\* parse() goes on to parseSub() whatever ended the inner loop, getNext() only
\* while the entity is not complete.
LeaveInner ==
  /\ stack # <<>> /\ Top.at = "inner" /\ ~Reading
  /\ Goto(IF Top.op = "getNext" /\ Mine.complete THEN "return" ELSE "sub")
  /\ UNCHANGED <<readerVars, ents, ret, calls, stray>>

AfterSub == IF Top.op = "parse" THEN "outer" ELSE "return"

LastKid == Mine.kids[Mine.inserted]

\* parseSub() reads the child inserted last to its end ...
Unread(e) == ents[e].tag /\ ~ents[e].complete /\ ~ents[e].error

SubFails ==
  /\ stack # <<>> /\ Top.at = "sub"
  /\ Mine.ready \/ Mine.inserted = Npos
  /\ ents' = [ents EXCEPT ![Me].error = TRUE]
  /\ Goto(AfterSub)
  /\ UNCHANGED <<readerVars, ret, calls, stray>>

Frame(op, e, place) ==
  [op |-> op, ent |-> e, at |-> place, had |-> Len(ents[e].kids)]

SubCall ==
  /\ stack # <<>> /\ Top.at = "sub"
  /\ ~Mine.ready /\ Mine.inserted # Npos
  /\ Unread(LastKid)
  /\ stack' = <<Frame("parse", LastKid, "outer")>> \o stack
  /\ UNCHANGED <<readerVars, ents, ret, calls, stray>>

\* A mutant: the entity is not made ready again.
FaultySubDone ==
  /\ stack # <<>> /\ Top.at = "sub"
  /\ ~Mine.ready /\ Mine.inserted # Npos
  /\ ~Unread(LastKid)
  /\ Goto(AfterSub)
  /\ UNCHANGED <<readerVars, ents, ret, calls, stray>>

\* ... and is ready for the next one.
SubDone ==
  /\ stack # <<>> /\ Top.at = "sub"
  /\ ~Mine.ready /\ Mine.inserted # Npos
  /\ ~Unread(LastKid)
  /\ ents' = [ents EXCEPT ![Me].ready = TRUE]
  /\ Goto(AfterSub)
  /\ UNCHANGED <<readerVars, ret, calls, stray>>

ParseAgain ==
  /\ stack # <<>> /\ Top.op = "parse" /\ Top.at = "outer"
  /\ ~Mine.complete /\ ~Mine.error
  /\ Goto("inner")
  /\ UNCHANGED <<readerVars, ents, ret, calls, stray>>

\* A mutant: the parent stays where the child's content begins.
FaultyResumePos == ents[stack[2].ent].pos

ResumePos == Mine.pos

\* parse() returns m_pos; called by parseSub, the parent takes it as its own.
ParseReturns ==
  /\ stack # <<>> /\ Top.op = "parse" /\ Top.at = "outer"
  /\ Mine.complete \/ Mine.error
  /\ stack' = Tail(stack)
  /\ ents' = IF Len(stack) > 1
               THEN [ents EXCEPT ![stack[2].ent].pos = ResumePos]
               ELSE ents
  /\ ret' = IF Len(stack) = 1 THEN None ELSE ret
  /\ UNCHANGED <<readerVars, calls, stray>>

\* getNext() returns the child inserted last, if there is one.
Given == IF Mine.inserted \in 1..Len(Mine.kids) THEN LastKid ELSE None

NextReturns ==
  /\ stack # <<>> /\ Top.op = "getNext" /\ Top.at = "return"
  /\ stack' = Tail(stack)
  /\ ret' = Given
  /\ UNCHANGED <<readerVars, ents, calls, stray>>

\* getNextTag() calls getNext(), which returns at once for a complete entity,
\* until it gives a tag or nothing.
NextTagCalls ==
  /\ stack # <<>> /\ Top.op = "getNextTag" /\ Top.at = "outer"
  /\ ~Mine.complete /\ ~Mine.error
  /\ stack' = <<Frame("getNext", Me, "inner")>>
              \o [stack EXCEPT ![1].at = "return"]
  /\ UNCHANGED <<readerVars, ents, ret, calls, stray>>

NextTagGot ==
  /\ stack # <<>> /\ Top.op = "getNextTag" /\ Top.at = "return"
  /\ IF ret = None \/ ents[ret].tag
       THEN stack' = Tail(stack)
       ELSE Goto("outer")
  /\ UNCHANGED <<readerVars, ents, ret, calls, stray>>

NextTagEnds ==
  /\ stack # <<>> /\ Top.op = "getNextTag" /\ Top.at = "outer"
  /\ Mine.complete \/ Mine.error
  /\ stack' = Tail(stack)
  /\ ret' = None
  /\ UNCHANGED <<readerVars, ents, calls, stray>>

-----------------------------------------------------------------------------
(* The user's calls, on any tag of the tree.                                 *)

Idle == ents # <<>> /\ stack = <<>>

\* What was taken out of the tree is deleted.  Entities are numbered as they
\* are read, so a parent comes before its children.
Kids(e) == Range(ents[e].kids)

InTree[e \in Nat] == e = 1 \/ \E p \in 1..(e - 1) : e \in Kids(p) /\ InTree[p]

Usable(e) == ents[e].tag /\ InTree[e]

Called(e) ==
  /\ Idle /\ Usable(e) /\ calls < MaxCalls
  /\ calls' = calls + 1

CallParse(e) ==
  /\ Called(e)
  /\ stack' = <<Frame("parse", e, "outer")>>
  /\ UNCHANGED <<readerVars, ents, ret, stray>>

CallGetNext(e) ==
  /\ Called(e)
  /\ IF ents[e].complete
       THEN ret' = None /\ UNCHANGED stack
       ELSE stack' = <<Frame("getNext", e, "inner")>> /\ UNCHANGED ret
  /\ UNCHANGED <<readerVars, ents, stray>>

CallGetNextTag(e) ==
  /\ Called(e)
  /\ stack' = <<Frame("getNextTag", e, "outer")>>
  /\ UNCHANGED <<readerVars, ents, ret, stray>>

\* Mutants: the children are read from where the entity ended, or from nowhere.
FaultyUnParsed(e) ==
  [ents EXCEPT ![e].kids = <<>>, ![e].complete = FALSE, ![e].ready = TRUE]
\* unParse() deletes the children.  Neither m_error nor m_inserted is reset,
\* and a self-closing entity is no longer complete.
UnParsed(e) ==
  [ents EXCEPT ![e] = [@ EXCEPT !.kids = <<>>, !.complete = FALSE,
                                !.pos = ents[e].offset, !.ready = TRUE]]

Strays(e) == stray' = (stray \/ (ents[e].kids = <<>> /\ ents[e].complete))

CallUnParse(e) ==
  /\ Called(e)
  /\ ents' = UnParsed(e)
  /\ Strays(e)
  /\ ret' = None
  /\ UNCHANGED <<readerVars, stack>>

CallReParse(e) ==
  /\ Called(e)
  /\ ents' = UnParsed(e)
  /\ Strays(e)
  /\ stack' = <<[Frame("parse", e, "outer") EXCEPT !.had = 0]>>
  /\ UNCHANGED <<readerVars, ret>>

UserCalls ==
  \E e \in Entities :
    \/ CallParse(e) \/ CallGetNext(e) \/ CallGetNextTag(e)
    \/ CallUnParse(e) \/ CallReParse(e)

Works ==
  \/ ParseOne \/ LeaveInner \/ SubFails \/ SubCall \/ SubDone
  \/ ParseAgain \/ ParseReturns
  \/ NextReturns \/ NextTagCalls \/ NextTagGot \/ NextTagEnds

Next == ReadRoot \/ UserCalls \/ Works

\* The code runs in the caller's thread; the user need not call again.
Spec == TreeInit /\ [][Next]_vars /\ WF_vars(Works)

-----------------------------------------------------------------------------
(* The tree a document d describes, from its brackets alone.                 *)

Brackets(d) == {i \in DOMAIN d : d[i] = "<"}

CloseOf(d, i) == CHOOSE j \in DOMAIN d :
  j > i /\ d[j] = ">" /\ \A k \in (i + 1)..(j - 1) : d[k] # ">"

EndTag(d, i) == d[i + 1] = "/"
EmptyTag(d, i) == d[CloseOf(d, i) - 1] = "/"

IsOpen(d, i) == ~EndTag(d, i) /\ ~EmptyTag(d, i)

\* How many elements that open from i on are open behind j.
OpensIn(d, i, j) == {k \in Brackets(d) : i <= k /\ k <= j /\ IsOpen(d, k)}
EndsIn(d, i, j) == {k \in Brackets(d) : i <= k /\ k <= j /\ EndTag(d, k)}

Depth(d, i, j) == Cardinality(OpensIn(d, i, j)) - Cardinality(EndsIn(d, i, j))

\* j closes the element that i opens.
Closing(d, i, j) ==
  /\ j > i /\ EndTag(d, j) /\ TagName(d, j) = TagName(d, i)
  /\ Depth(d, i, j) = 0
  /\ \A k \in i..(j - 1) : Depth(d, i, k) > 0

Shuts(d, i) == \E j \in Brackets(d) : Closing(d, i, j)

\* Every bracket is a tag with a name ...
WholeTags(d) ==
  \A i \in Brackets(d) : \E j \in (i + 2)..Len(d) :
    /\ d[j] = ">" /\ \A k \in (i + 1)..(j - 1) : d[k] \notin {"<", ">"}
    /\ \E k \in Inner(d, i, j) : d[k] \notin White

\* ... and the element at r and every one within it is closed.
WellFormedFrom(d, r) ==
  /\ WholeTags(d)
  /\ \E j \in Brackets(d) :
       Closing(d, r, j) /\ \A i \in OpensIn(d, r, j) : Shuts(d, i)

WellFormed == ents # <<>> /\ WellFormedFrom(doc, ents[1].at)

\* No name and no argument fills a buffer of parseTag, or ends in a backslash.
\* A well-formed document may have longer ones, which parseTag does not take.
Fits(d) ==
  \A i \in Brackets(d) :
    \A k \in Inner(d, i, CloseOf(d, i)) : d[k] \notin Oversized \union Unended

Within(d, i, k) == \E j \in Brackets(d) : Closing(d, i, j) /\ i < k /\ k < j

\* Where entities start: the tags that do not close, and the first character
\* of each literal.
Starters(d) ==
  {i \in Brackets(d) : ~EndTag(d, i)} \union
  {i \in DOMAIN d :
     /\ d[i] \notin White \union {"<"}
     /\ \E b \in Brackets(d) :
          CloseOf(d, b) < i /\ \A k \in (CloseOf(d, b) + 1)..(i - 1) : d[k] \in White}

Children(d, i) ==
  {k \in Starters(d) :
     /\ Within(d, i, k)
     /\ \A h \in Brackets(d) : IsOpen(d, h) /\ Within(d, h, k) => h <= i}

(* Whatever calls the user makes and in whatever order, a complete entity of *)
(* a well-formed document has the document's children, in its order          *)
(* (xmltag.cpp:103-162, 174-249).  An entity without children must not have   *)
(* been taken apart: unParse makes a self-closing one read on, and leaves    *)
(* the error an empty one has.  And every tag must be one that parseTag      *)
(* takes: its buffers hold 511 characters (xmltag.cpp:356), and its at()     *)
(* throws behind a backslash (445).                                          *)
TreeIsDocument ==
  Idle /\ ~stray /\ (\E e \in Entities : ents[e].complete)
    /\ WellFormed /\ Fits(doc) =>
    \A e \in Entities : InTree[e] /\ ents[e].complete =>
      LET kids == ents[e].kids
          at == [n \in DOMAIN kids |-> ents[kids[n]].at]
      IN /\ Range(at) = Children(doc, ents[e].at)
         /\ \A n \in DOMAIN at : n > 1 => at[n - 1] < at[n]

(* In a well-formed document of tags that parseTag takes, the only error an  *)
(* entity gets is the "Invalid index" of an element without children, which  *)
(* is complete all the same (xmltag.cpp:189-193): parse() never stops short. *)
ErrorsMeanBroken ==
  \A e \in Entities :
    ents[e].error /\ ~stray /\ WellFormed /\ Fits(doc) =>
      ents[e].complete /\ ents[e].kids = <<>>

(* parseSub asks for the child at m_inserted (xmltag.cpp:195), an index that *)
(* unParse leaves behind when it empties the list: at() never throws.        *)
IndexInRange ==
  stack # <<>> /\ Top.at = "sub" /\ ~Mine.ready /\ Mine.inserted # Npos =>
    Mine.inserted \in DOMAIN Mine.kids

(* getNext passes over text and self-closing tags to find a child that has   *)
(* content, and never over that: it returns it, read to its end              *)
(* (xmltag.cpp:59-73).                                                       *)
NoElementSkipped ==
  [][NextReturns =>
       \A n \in (Top.had + 1)..Len(Mine.kids) :
         LET k == Mine.kids[n] IN
         ents[k].tag /\ ~ents[k].self => ret' = k /\ ~Unread(k)]_vars

(* The tree asks the parser for no offset but those the parser handed back,  *)
(* on which the parser's skipped seek relies (XmlParser.cpp:54): every step  *)
(* is a step of the reader's own specification, or leaves the reader alone.  *)
AsksKnownOffsets ==
  ReaderInit /\ [][last'.asked \in offsets /\ GetTag(last'.asked)]_readerVars

(* Every call returns, on any document (xmltag.cpp:225-235).                 *)
CallsReturn == stack # <<>> ~> stack = <<>>
=============================================================================
