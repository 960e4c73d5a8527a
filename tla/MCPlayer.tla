------------------------------ MODULE MCPlayer ------------------------------
(***************************************************************************)
(* TLC instance of the parts a player is made of.  They share no state, so *)
(* each behaviour is one of a single part, and the others rest in one of   *)
(* their initial states.                                                   *)
(***************************************************************************)
EXTENDS AudioOutput, MediaSynchronise, VideoConvert, DecoderSession, TLC

VARIABLE part

mcVars == <<part, aoVars, msVars, vcVars, dsVars>>

McLayouts ==
  {<<"video">>, <<"audio">>, <<"audio", "video">>, <<"other", "video", "audio">>}

Symmetry == Permutations(Setters) \cup Permutations(Fields)

Init ==
  /\ part \in {"output", "clocks", "converter", "session"}
  /\ AoInit /\ MsInit /\ VcInit /\ DsInit
  /\ part # "clocks" => step = Min(FrameSteps) /\ framePts = Min(FirstPts)
  /\ part # "converter" => codecInfo = [k \in Fields |-> Min(Values)]
  /\ part # "session" => decoderType = "STREAN"

\* A step of part p.
Only(p) ==
  /\ part = p /\ UNCHANGED part
  /\ p # "output" => UNCHANGED aoVars
  /\ p # "clocks" => UNCHANGED msVars
  /\ p # "converter" => UNCHANGED vcVars
  /\ p # "session" => UNCHANGED dsVars

Next ==
  \/ Only("output") /\ AoNext
  \/ Only("clocks") /\ MsNext
  \/ Only("converter") /\ VcNext
  \/ Only("session") /\ DsNext

Spec == Init /\ [][Next]_mcVars

\* The variables of the parts keep to their types.
PlayerTypeOK == AoTypeOK /\ MsTypeOK /\ VcTypeOK /\ DsTypeOK

=============================================================================
