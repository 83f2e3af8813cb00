----------------------------- MODULE XmlTagText -----------------------------
(* XmlTagEntity::parseTag (xmltag.cpp): the text between the brackets of a   *)
(* tag is taken apart a character at a time into the tag's name and its      *)
(* arguments, through three buffers of a fixed size.                         *)
EXTENDS Naturals, Sequences

CONSTANTS
  Letters,    \* characters that mean nothing
  Texts,      \* texts to parse
  Tags,       \* tags with the text each is written as
  Limit       \* the last index of a buffer, 511 in the code

Blank == " "
Equals == "="
Quote == "\""
Backslash == "\\"
Slash == "/"
Nul == "0"

Chars == Letters \cup {Blank, Equals, Quote, Backslash, Slash}

(* A tag is a record of what its writer meant: the arguments are pairs of a  *)
(* name and a value, the value in quotes or, if it may be, without.          *)
argument(a) == <<Blank>> \o a.name \o <<Equals>> \o
               (IF a.quoted THEN <<Quote>> \o a.value \o <<Quote>> ELSE a.value)

Arguments ==
  {a \in [name : Seq(Chars \ {Blank, Equals}), value : Seq(Chars \ {Quote, Backslash}),
          quoted : BOOLEAN] :
     a.name # <<>> /\ (~a.quoted => \A j \in 1..Len(a.value) : a.value[j] # Blank)}

(* The text of tag t: a closing tag's slash and the name up to ends[0], then *)
(* argument k up to ends[k], and a self-closing tag's slash.  A tag that is  *)
(* not self-closing does not end like one.                                   *)
isTag(t) ==
  /\ t.name \in Seq(Chars \ {Blank}) /\ t.name # <<>> /\ t.name[1] # Slash
  /\ t.closing \in BOOLEAN /\ t.selfClosing \in BOOLEAN
  /\ t.args \in Seq(Arguments) /\ t.text \in Seq(Chars)
  /\ t.ends \in [0..Len(t.args) -> 0..Len(t.text)]
  /\ \A j, k \in 0..Len(t.args) : j < k => t.ends[j] < t.ends[k]
  /\ SubSeq(t.text, 1, t.ends[0]) = (IF t.closing THEN <<Slash>> ELSE <<>>) \o t.name
  /\ \A k \in 1..Len(t.args) :
       SubSeq(t.text, t.ends[k - 1] + 1, t.ends[k]) = argument(t.args[k])
  /\ SubSeq(t.text, t.ends[Len(t.args)] + 1, Len(t.text)) =
       IF t.selfClosing THEN <<Slash>> ELSE <<>>
  /\ ~t.selfClosing => t.text[Len(t.text)] # Slash

NoTag == [name |-> <<>>]

ASSUME TagTextAssumption ==
  /\ Texts \subseteq Seq(Chars)
  /\ \A t \in Tags : isTag(t)
  /\ Limit \in Nat \ {0}

VARIABLES
  tag,          \* the tag the text was written from, or NoTag
  src,          \* the text
  outcome,      \* "running", the result, or "throws" from string::at
  stat, src_i,
  node, name, value,               \* the buffers up to node_i, name_i, value_i
  first, quoted, skipquote,
  m_closing, m_selfClosing, m_name, m_arguments

flags == <<first, quoted, skipquote>>
entity == <<m_closing, m_selfClosing, m_name, m_arguments>>
tagVars == <<tag, src, outcome, stat, src_i, node, name, value, flags, entity>>

TagInit ==
  /\ \/ tag = NoTag /\ src \in Texts
     \/ \E t \in Tags : tag = t /\ src = t.text
  /\ outcome = "running" /\ stat = "start" /\ src_i = 0
  /\ node = <<>> /\ name = <<>> /\ value = <<>>
  /\ first = FALSE /\ quoted = FALSE /\ skipquote = FALSE
  /\ m_closing = FALSE /\ m_selfClosing = FALSE
  /\ m_name = <<>> /\ m_arguments = <<>>

at(s, k) == s[k + 1]

(* The ends of the text: a last slash is cut off, a first one is skipped and *)
(* so are the blanks behind it.  at() throws if nothing is left.             *)
withoutSlash(s) == IF s[Len(s)] = Slash THEN SubSeq(s, 1, Len(s) - 1) ELSE s

TagStart ==
  /\ stat = "start" /\ outcome = "running"
  /\ IF src = <<>> THEN outcome' = "false" /\ UNCHANGED <<src, stat, src_i, entity>>
     ELSE LET s == withoutSlash(src)
              slash == IF s # <<>> /\ at(s, 0) = Slash THEN 1 ELSE 0
              text == {k \in slash..(Len(s) - 1) : at(s, k) # Blank}
          IN  /\ src' = s
              /\ m_selfClosing' = (s # src)
              /\ m_closing' = (slash = 1)
              /\ IF text = {}
                 THEN outcome' = "throws" /\ UNCHANGED <<stat, src_i>>
                 ELSE /\ src_i' = CHOOSE k \in text : \A l \in text : k <= l
                      /\ stat' = "node" /\ outcome' = outcome
              /\ UNCHANGED <<m_name, m_arguments>>
  /\ UNCHANGED <<tag, node, name, value, flags>>

-----------------------------------------------------------------------------
(* The loop.  Its turn begins with the next character and the test of the    *)
(* three indices.                                                            *)
FaultyFull == Len(node) = Limit \/ Len(value) = Limit            \* a mutant
full == Len(node) = Limit \/ Len(name) = Limit \/ Len(value) = Limit

turn(s, c) ==
  /\ outcome = "running" /\ stat = s
  /\ src_i < Len(src) /\ c = at(src, src_i) /\ ~full

TooLong ==
  /\ outcome = "running" /\ stat # "start" /\ src_i < Len(src) /\ full
  /\ src_i' = src_i + 1 /\ outcome' = "false"
  /\ UNCHANGED <<tag, src, stat, node, name, value, flags, entity>>

NodeChar(c) ==
  /\ turn("node", c)
  /\ IF c = Blank
     THEN node' = Append(node, Nul) /\ m_name' = node /\ stat' = "wsname"
     ELSE node' = Append(node, c) /\ UNCHANGED <<m_name, stat>>
  /\ src_i' = src_i + 1
  /\ UNCHANGED <<tag, src, outcome, name, value, flags, m_closing, m_selfClosing,
                 m_arguments>>

WsNameChar(c) ==
  /\ turn("wsname", c)
  /\ IF c = Blank THEN UNCHANGED <<name, stat>>
     ELSE name' = Append(name, c) /\ stat' = "name"
  /\ src_i' = src_i + 1
  /\ UNCHANGED <<tag, src, outcome, node, value, flags, entity>>

\* A mutant: the value is not started again.
FaultyKeep ==
  /\ m_arguments' = Append(m_arguments, <<name, value>>)
  /\ name' = <<>> /\ value' = value
  /\ stat' = "wsname"

(* An argument is complete: it is kept and the buffers start again. *)
Keep ==
  /\ m_arguments' = Append(m_arguments, <<name, value>>)
  /\ name' = <<>> /\ value' = <<>>
  /\ stat' = "wsname"

NameChar(c) ==
  /\ turn("name", c)
  /\ \/ /\ c = Equals
        /\ stat' = "value"
        /\ first' = TRUE /\ quoted' = FALSE /\ skipquote' = FALSE
        /\ UNCHANGED <<name, value, m_arguments>>
     \/ c = Blank /\ Keep /\ UNCHANGED flags
     \/ /\ c \notin {Equals, Blank}
        /\ name' = Append(name, c)
        /\ UNCHANGED <<stat, value, flags, m_arguments>>
  /\ src_i' = src_i + 1
  /\ UNCHANGED <<tag, src, outcome, node, m_closing, m_selfClosing, m_name>>

endsValue(c) == (~quoted /\ c = Blank) \/ (quoted /\ ~skipquote /\ c = Quote)

(* A value ends, begins with a quote, has a quote behind a backslash, which  *)
(* is dropped with it, or takes the character.  A backslash looks at the     *)
(* next character, and throws if there is none.                              *)
ValueChar(c) ==
  /\ turn("value", c)
  /\ \/ endsValue(c) /\ Keep /\ src_i' = src_i + 1 /\ UNCHANGED <<outcome, flags>>
     \/ /\ ~endsValue(c) /\ first /\ c = Quote
        /\ first' = FALSE /\ quoted' = TRUE /\ src_i' = src_i + 1
        /\ UNCHANGED <<outcome, stat, name, value, skipquote, m_arguments>>
     \/ /\ ~endsValue(c) /\ ~(first /\ c = Quote)
        /\ first' = FALSE
        /\ \/ /\ c = Backslash /\ src_i + 1 = Len(src)
              /\ outcome' = "throws" /\ src_i' = src_i + 1
              /\ UNCHANGED <<value, skipquote>>
           \/ /\ c = Backslash /\ src_i + 1 < Len(src) /\ at(src, src_i + 1) = Quote
              /\ skipquote' = TRUE /\ src_i' = src_i + 2
              /\ UNCHANGED <<outcome, value>>
           \/ /\ c = Backslash => src_i + 1 < Len(src) /\ at(src, src_i + 1) # Quote
              /\ value' = Append(value, c) /\ src_i' = src_i + 1
              /\ UNCHANGED <<outcome, skipquote>>
        /\ UNCHANGED <<stat, name, quoted, m_arguments>>
  /\ UNCHANGED <<tag, src, node, m_closing, m_selfClosing, m_name>>

(* Behind the text: the name is complete, a value is kept, a name without a  *)
(* value is not.                                                             *)
End ==
  /\ outcome = "running" /\ stat # "start" /\ src_i = Len(src)
  /\ m_name' = IF stat = "node" THEN node ELSE m_name
  /\ m_arguments' = IF stat = "value" THEN Append(m_arguments, <<name, value>>)
                    ELSE m_arguments
  /\ outcome' = "true"
  /\ UNCHANGED <<tag, src, stat, src_i, node, name, value, flags, m_closing, m_selfClosing>>

TagNext ==
  \/ TagStart \/ TooLong \/ End
  \/ \E c \in Chars : NodeChar(c) \/ WsNameChar(c) \/ NameChar(c) \/ ValueChar(c)

TagSpec == TagInit /\ [][TagNext]_tagVars

-----------------------------------------------------------------------------
(* No write reaches past a buffer: the index of each, at which the next      *)
(* character or the terminator goes, is at most the last one of the buffer.  *)
InBounds == Len(node) <= Limit /\ Len(name) <= Limit /\ Len(value) <= Limit

(* "ANIMAL TYPE="DOG" BREED="POODLE" (brackets are removed)": a tag whose    *)
(* name and arguments fit and have no quotes or backslashes is taken apart   *)
(* into what it was written from, with or without quotes around its values,  *)
(* opening, closing or self-closing.  It is refused only if something in it  *)
(* fills a buffer.                                                           *)
TagReturns ==
  tag # NoTag /\ outcome # "running" =>
    \/ /\ outcome = "true"
       /\ m_name = tag.name
       /\ m_arguments = [k \in DOMAIN tag.args |-> <<tag.args[k].name, tag.args[k].value>>]
       /\ m_closing = tag.closing /\ m_selfClosing = tag.selfClosing
    \/ outcome = "false" /\ full
=============================================================================
