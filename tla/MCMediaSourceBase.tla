-------------------------- MODULE MCMediaSourceBase --------------------------
(***************************************************************************)
(* TLC instance of MediaSourceBase: media with no stream, one, or three of *)
(* which two have the same type, and one more than codecContexts_ can      *)
(* hold.                                                                   *)
(***************************************************************************)
EXTENDS MediaSourceBase

MCLayouts == {<<>>, <<"video">>, <<"audio", "video">>, <<"video", "audio", "video">>}

=============================================================================
