----------------------------- MODULE RingBuffer -----------------------------
(***************************************************************************)
(* The circular byte buffer of src/getmedia/memoryBuffer.h.                *)
(*                                                                         *)
(* A ring is the control part of the C struct: the read index r, the       *)
(* write index w and the flag full.  The bytes themselves (the field data) *)
(* belong to the module that uses the ring, which copies between an array  *)
(* indexed by 0 .. Size-1 and its own side in the runs that ReadPtr and    *)
(* WritePtr hand out.                                                      *)
(***************************************************************************)
EXTENDS Integers

CONSTANT Size   \* the number of bytes malloc'ed by Init

ASSUME SizeAssumption == Size \in Nat \ {0}

Index == 0 .. Size - 1

Ring == [r : Index, w : Index, full : {0, 1}]

(***************************************************************************)
(* Init and Clear leave the indices in the same state.                     *)
(***************************************************************************)
Clear == [r |-> 0, w |-> 0, full |-> 0]

(***************************************************************************)
(* How many bytes can be copied out, starting at r, without wrapping.      *)
(***************************************************************************)
ReadPtr(b) ==
  IF b.w > b.r THEN b.w - b.r
  ELSE IF b.w < b.r \/ b.full = 1 THEN Size - b.r
  ELSE 0

(***************************************************************************)
(* How many bytes can be copied in, starting at w, without wrapping.       *)
(***************************************************************************)
WritePtr(b) ==
  IF b.w < b.r THEN b.r - b.w
  ELSE IF b.w = b.r /\ b.full = 1 THEN 0
  ELSE Size - b.w

\* Faulty: an index may come to rest behind the array.
AdvancePastEnd(i, n) == IF i + n > Size THEN 0 ELSE i + n

Advance(i, n) == IF i + n >= Size THEN 0 ELSE i + n

(***************************************************************************)
(* n bytes were copied out.  full becomes "the indices differ": it is read *)
(* only when they are equal, and Write sets it again before they can be.   *)
(***************************************************************************)
Read(b, n) ==
  LET r == Advance(b.r, n)
  IN [r |-> r, w |-> b.w, full |-> IF b.w = r THEN 0 ELSE 1]

\* Faulty: a full ring looks empty.
WriteNeverFull(b, n) == [r |-> b.r, w |-> Advance(b.w, n), full |-> 0]

(***************************************************************************)
(* n bytes were copied in.                                                 *)
(***************************************************************************)
Write(b, n) ==
  LET w == Advance(b.w, n)
  IN [r |-> b.r, w |-> w, full |-> IF w = b.r THEN 1 ELSE 0]

-----------------------------------------------------------------------------
(***************************************************************************)
(* What the indices mean.  The code computes neither of these: they are    *)
(* what the properties and the refinement compare its arithmetic with.     *)
(***************************************************************************)

\* The number of bytes written and not yet read.
Used(b) ==
  IF b.w > b.r THEN b.w - b.r
  ELSE IF b.w < b.r THEN Size - b.r + b.w
  ELSE IF b.full = 1 THEN Size
  ELSE 0

\* The slot of the k-th unread byte, counting from 1.
Slot(b, k) == IF b.r + k - 1 < Size THEN b.r + k - 1 ELSE b.r + k - 1 - Size

=============================================================================
