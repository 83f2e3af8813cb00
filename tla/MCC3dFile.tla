----------------------------- MODULE MCC3dFile ------------------------------
EXTENDS C3dFile, TLC

MCText == {"head", "l:arm", "l_arm", "force", "actor"}

MCValidated == [t \in MCText |-> IF t = "l:arm" THEN "l_arm" ELSE t]

Group(id, name) == [id |-> -id, name |-> name, shape |-> <<>>, value |-> 0, offset |-> 4]
Param(id, name, shape, value) ==
  [id |-> id, name |-> name, shape |-> shape, value |-> value, offset |-> 4]
End == [id |-> 0, name |-> NoName, shape |-> <<>>, value |-> 0, offset |-> 0]
Ending(e) == [e EXCEPT !.offset = 0]
GoingBack(e) == [e EXCEPT !.offset = 65530]     \* -6, as a short

Points == <<Group(1, "POINT"), Param(1, "LABELS", Strings, <<"head", "l:arm">>)>>
More == <<Param(1, "LABELS2", Strings, <<"actor">>)>>
Analogs == <<Group(2, "ANALOG"), Param(2, "USED", Word, 1),
             Param(2, "LABELS", Strings, <<"force">>)>>
Meters == <<Param(1, "UNITS", String, "m")>>
Timecode == <<Group(3, "TIMECODE"), Param(3, "USED", Word, 1),
              Param(3, "DROP_FRAMES", Byte, 1),
              Param(3, "STANDARD", String, "NTSC"),
              Param(3, "SUBFRAMESPERFRAME", Words, <<2>>),
              Param(3, "OFFSETS", Words, <<1>>),
              Param(3, "FIELD_NUMBERS", Words, <<1>>),
              Param(3, "TIMECODES", Words, <<0, 0, 1, 2>>)>>
Subjects == <<Group(4, "SUBJECTS"), Param(4, "NAMES", Strings, <<"actor">>),
              Param(4, "LABEL_PREFIXES", Strings, <<"actor">>)>>

(* Two markers and three frames. *)
Plain == [isC3d |-> TRUE, data |-> 2, proc |-> Intel, float |-> TRUE,
          markers |-> 2, channels |-> 0, perFrame |-> 1, first |-> 1, last |-> 3,
          body |-> 5, units |-> 24, params |-> Points \o <<End>>]

(* Two samples a frame of one channel, one marker, two frames. *)
Sampled == [Plain EXCEPT !.markers = 1, !.channels = 2, !.perFrame = 2, !.last = 2,
                         !.units = 12]

Written ==
  {Plain,
   [Plain EXCEPT !.isC3d = FALSE],
   [Plain EXCEPT !.data = 0],
   [Plain EXCEPT !.units = 14],                               \* cut in a frame
   [Plain EXCEPT !.markers = 3, !.last = 1, !.proc = Sgi,     \* a last named element
                 !.params = Points \o <<Ending(More[1])>>],
   [Plain EXCEPT !.markers = 1, !.params = Points \o Meters \o Subjects \o <<End>>],
   [Plain EXCEPT !.params = Points],                          \* cut in the parameters
   [Sampled EXCEPT !.params = Points \o Timecode \o Analogs \o <<End>>, !.float = FALSE],
   [Sampled EXCEPT !.params = Analogs \o Points \o <<End>>, !.proc = Sgi],
   [Sampled EXCEPT !.params = Points \o <<Analogs[2], Analogs[1], End>>], \* not in order
   \* a parameter without a name, of a group with and of one without a name
   [Plain EXCEPT !.params = <<Group(2, NoName), Param(2, NoName, Word, 1),
                              Points[1], Param(1, NoName, Byte, 1),
                              Param(1, NoName, Strings, <<>>), End>>],
   \* the parameters are not in block 2: parse finds something else
   [Plain EXCEPT !.data = 3, !.proc = 0, !.float = FALSE, !.body = 1280, !.units = 3,
                 !.markers = 1, !.last = 2,
                 !.params = <<Param(1, "head", Word, 1), GoingBack(Group(7, "arm"))>>],
   [Sampled EXCEPT !.markers = 0, !.units = 4, !.params = Analogs \o <<End>>]}

(* What the elements of a file mean, one after the other. *)
Meant(f) ==
  LET meaning[n \in 0..Len(f.params)] ==
        IF n = 0 THEN NoMeaning ELSE meaningAfter(f, meaning[n - 1], f.params[n])
  IN  f @@ [meaning |-> meaning]

MCFiles == {Meant(f) : f \in Written}

ASSUME MCNamesOnce == \A f \in MCFiles : NamesOnce(f)
=============================================================================
