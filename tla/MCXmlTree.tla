------------------------------ MODULE MCXmlTree ------------------------------
EXTENDS XmlTree, FiniteSetsExt, SequencesExt

CONSTANTS MaxPieces, MaxTags

\* What a document is put together from.
A == <<"<", "a", ">">>
EndA == <<"<", "/", "a", ">">>
B == <<"<", "b", ">">>
EndB == <<"<", "/", "b", ">">>
S == <<"<", "s", "/", ">">>
T == <<"t">>
Blank == <<" ">>
Loose == <<"<">>
Empty == <<"<", ">">>
NoName == <<"<", "/", ">">>
BothEnds == <<"<", "/", "b", "/", ">">>
LongName == <<"<", "n512", "/", ">">>
Backslash == <<"<", "s", " ", "v\\", ">">>

\* Well-formed, with a bracket in the text.
Bracketed == A \o T \o <<">">> \o T \o S \o EndA

Tags == {A, EndA, B, EndB, S, T}
Pieces == Tags \union {Loose, Empty, NoName, BothEnds, LongName, Backslash}

Blanks == {" "}
Longs == {"n512"}
Backslashes == {"v\\"}

\* Any document of a few pieces, and the longer ones that may be well-formed.
Short == UNION {[1..n -> Pieces] : n \in 0..MaxPieces}

Long ==
  {s \in UNION {[1..n -> Tags] : n \in (MaxPieces + 1)..MaxTags} :
     /\ s[Len(s)] = EndA
     /\ \A n \in DOMAIN s :
          LET Are(set) == Cardinality({k \in 1..n : s[k] \in set})
          IN IF n < Len(s) THEN Are({A, B}) >= Are({EndA, EndB})
                           ELSE Are({A, B}) + 1 = Are({EndA, EndB})}

Prologs == {<<>>, T \o Blank}

Documents ==
  {FlattenSeq(<<first, A>> \o rest) : first \in Prologs, rest \in Short}
  \union {FlattenSeq(<<A>> \o rest) : rest \in Long}
  \union {Bracketed}

MCInit == doc \in Documents /\ TreeInit

MCSpec == MCInit /\ [][Next]_vars /\ WF_vars(Works)
=============================================================================
