------------------------------ MODULE MCUpload ------------------------------
(* Files for TLC: the audio of the old material in its own format and in    *)
(* another one, and a new audio.                                            *)
EXTENDS MaterialUpload
MCOld     == <<"jingle", "mp3">>
MCSources == {<<"jingle", "mp3">>, <<"jingle", "mpeg">>, <<"spot", "mp3">>}
MCOther   == {<<"jingle", "mpeg">>}
=============================================================================
