------------------------- MODULE MCInlineMediaSource -------------------------
(***************************************************************************)
(* TLC instances of InlineMediaSource.  A ring of three bytes, chunks of   *)
(* up to three and reads of up to two make both indices wrap at different  *)
(* points, fill the ring in one write and in two, and leave part of a      *)
(* chunk behind.                                                           *)
(***************************************************************************)
EXTENDS InlineMediaSource

=============================================================================
