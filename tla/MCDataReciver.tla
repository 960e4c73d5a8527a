---------------------------- MODULE MCDataReciver ----------------------------
(***************************************************************************)
(* TLC instance of DataReciver: media with the streams in either order,    *)
(* with only one of them, with none that can be decoded, and with more     *)
(* than codecContexts_ can hold.                                           *)
(***************************************************************************)
EXTENDS DataReciver

MCLayouts ==
  {<<"video", "audio">>, <<"audio", "video">>, <<"audio">>, <<"other">>,
   <<"other", "audio", "video">>}

=============================================================================
