---------------------------- MODULE ByteChannel ----------------------------
(***************************************************************************)
(* What a GetMedia data path promises to the demuxer it feeds: a bounded   *)
(* first-in first-out channel of bytes that is emptied between sessions.   *)
(*                                                                         *)
(* Bytes are numbered in the order the HTTP client produced them, and the  *)
(* numbering goes on over a reset, so a byte of an earlier session can be  *)
(* told from one of the current session.                                   *)
(***************************************************************************)
EXTENDS Integers, Sequences

CONSTANT Capacity

VARIABLES
  pending,   \* bytes put and not yet got, oldest first
  got,       \* bytes the demuxer got in this session, in order
  next       \* the number of the next byte to be put

vars == <<pending, got, next>>

Init == pending = <<>> /\ got = <<>> /\ next = 1

Put ==
  \E n \in 1 .. Capacity - Len(pending) :
    /\ pending' = pending \o [i \in 1 .. n |-> next + i - 1]
    /\ next' = next + n
    /\ UNCHANGED got

Get ==
  \E n \in 1 .. Len(pending) :
    /\ got' = got \o SubSeq(pending, 1, n)
    /\ pending' = SubSeq(pending, n + 1, Len(pending))
    /\ UNCHANGED next

Reset ==
  /\ pending' = <<>>
  /\ got' = <<>>
  /\ UNCHANGED next

Next == Put \/ Get \/ Reset

Spec == Init /\ [][Next]_vars

=============================================================================
