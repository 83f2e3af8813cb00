---------------------------- MODULE MCXmlTagText ----------------------------
EXTENDS XmlTagText, SequencesExt

MCLetters == {"a"}

MCTexts == BoundedSeq(MCLetters \cup {Blank, Equals, Quote, Backslash, Slash}, 5)

Plain == {"a", Equals, Slash}
Long == <<"a", "a", "a", "a", "a">>
Names == {<<"a">>, <<"a", "a">>, Long}
Quoted == [name : Names, value : BoundedSeq(Plain \cup {Blank}, 2), quoted : {TRUE}]
Unquoted == [name : Names, value : {<<"a">>, <<"a", "a">>, <<Slash, "a">>, <<Equals, "a">>, Long},
             quoted : {FALSE}]

Meant == [name : {<<"a">>, <<"a", "a", "a">>, Long}, closing : BOOLEAN, selfClosing : BOOLEAN,
          args : BoundedSeq(Quoted \cup Unquoted, 1)
                 \cup {<<a, b>> : a \in Unquoted, b \in Quoted}
                 \cup {<<a, b>> : a \in Quoted, b \in Unquoted}]

\* The tag with its text, put together a piece at a time.
Written(t) ==
  LET piece[k \in 0..Len(t.args)] ==
        IF k = 0 THEN (IF t.closing THEN <<Slash>> ELSE <<>>) \o t.name
        ELSE piece[k - 1] \o argument(t.args[k])
  IN  [name |-> t.name, closing |-> t.closing, selfClosing |-> t.selfClosing, args |-> t.args,
       text |-> piece[Len(t.args)] \o (IF t.selfClosing THEN <<Slash>> ELSE <<>>),
       ends |-> [k \in 0..Len(t.args) |-> Len(piece[k])]]

MCTags == {Written(t) : t \in Meant}
=============================================================================
