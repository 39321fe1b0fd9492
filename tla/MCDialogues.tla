---------------------------- MODULE MCDialogues ----------------------------
(* An instance of Dialogues for TLC. *)
EXTENDS Dialogues

\* Short replies: whole, cut short and spilling into the next, and without end.
TheReplies == {<<"more", "text">>, <<"promptish", "echoish">>, <<"moreish", "again">>}

\* With nothing, with text, and with what looks like either question.
TheBanners == {<<>>, <<"text">>, <<"login", "text">>, <<"pass", "word">>}

\* A line that was answered, and one that asks for another password.
TheOutputs == {<<"text">>, <<"pass", "word">>}
=============================================================================
