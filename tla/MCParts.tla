------------------------------- MODULE MCParts -------------------------------
(***************************************************************************)
(* TLC instance of the parts that stand alone: the thread primitives, the  *)
(* packet pool, the batch consumer, the H.264 source, the uploaders and    *)
(* the SDK's Response.  They share nothing, so each behaviour uses one of  *)
(* them, named by part, while the others rest in one of their initial      *)
(* states.                                                                 *)
(***************************************************************************)
EXTENDS ReadWriteLock, UvBarrier, UvCond, UvThread, PacketPool, FFMPEGGetMediaDataProcess,
        EvoMediaSource, KinesisPut, Response

VARIABLE part

mcVars == <<part, rwVars, barVars, cvVars, utVars, poolVars, batchVars, srcVars, putVars, respVars>>

\* The second is put back under a third tag, since Wrap cuts its 3 samples to 1.
McShapes == {<<"memory", 1, 1>>, <<"audio", 1, 3>>}

McMedia == {<<>>, <<"video", "aac">>, <<"aac", "mp3", "video", "other">>}

McFormats ==
  {[profile |-> 1, rate |-> 44100, channels |-> 2], [profile |-> 4, rate |-> 44000, channels |-> 7]}

Unit(type, code, size) == [type |-> type, code |-> code, size |-> size]
AnnexB(units) == [codecs |-> <<"aac", "h264">>, extra |-> [form |-> "annexb", units |-> units]]
\* 27 bytes if the PPS has 3.
AvcC(lengthSize, ppsSize) ==
  [codecs |-> <<"h264", "aac", "h264">>,
   extra |-> [form |-> "avcc", lengthSize |-> lengthSize, bytes |-> 27,
              sps |-> <<Unit(7, 2, 5), Unit(7, 2, 4)>>, pps |-> <<Unit(8, 2, ppsSize)>>]]

\* The last but one Annex B medium has a unit after its last SPS: its size is
\* that of the first.
McMedias ==
  {AnnexB(<<Unit(7, 4, 5), Unit(8, 4, 3)>>),
   AnnexB(<<Unit(7, 4, 5), Unit(8, 3, 3), Unit(7, 4, 6), Unit(8, 3, 2)>>),
   AnnexB(<<Unit(7, 4, 5), Unit(6, 4, 3), Unit(8, 3, 2)>>),
   AnnexB(<<Unit(7, 4, 5), Unit(8, 4, 3), Unit(7, 3, 2), Unit(6, 4, 3)>>),
   AnnexB(<<Unit(6, 4, 3), Unit(8, 4, 3), Unit(7, 3, 2)>>),
   AvcC(4, 3), AvcC(3, 3), AvcC(4, 26),
   [codecs |-> <<"h264", "hevc">>, extra |-> [form |-> "none"]],
   [codecs |-> <<"h264">>, extra |-> [form |-> "none"]]}

McNames == {<<>>, <<"none", "hevc_qsv", "h264_qsv">>}

McCodecOf ==
  [n \in {"h264", "hevc", "aac", "hevc_qsv", "h264_qsv"} |->
     CASE n = "hevc_qsv" -> "hevc" [] n = "h264_qsv" -> "h264" [] OTHER -> n]

Symmetry == Permutations(Threads)

Init ==
  /\ part \in {"rwlock", "barrier", "cond", "thread", "pool", "batch", "source", "upload", "response"}
  /\ RwInit /\ BarInit /\ CvInit /\ UtInit /\ PpInit /\ BatchInit /\ SrcInit /\ PutInit /\ RespInit
  /\ part # "cond" => haveApi
  /\ part # "upload" => kind = "video" /\ format.channels = 2

\* A step of part p.
Only(p) ==
  /\ part = p /\ UNCHANGED part
  /\ p # "rwlock" => UNCHANGED rwVars
  /\ p # "barrier" => UNCHANGED barVars
  /\ p # "cond" => UNCHANGED cvVars
  /\ p # "thread" => UNCHANGED utVars
  /\ p # "pool" => UNCHANGED poolVars
  /\ p # "batch" => UNCHANGED batchVars
  /\ p # "source" => UNCHANGED srcVars
  /\ p # "upload" => UNCHANGED putVars
  /\ p # "response" => UNCHANGED respVars

Next ==
  \/ Only("rwlock") /\ RwNext
  \/ Only("barrier") /\ BarNext
  \/ Only("cond") /\ CvNext
  \/ Only("thread") /\ UtNext
  \/ Only("pool") /\ PpNext
  \/ Only("batch") /\ BatchNext
  \/ Only("source") /\ SrcNext
  \/ Only("upload") /\ PutNext
  \/ Only("response") /\ RespNext

Spec == Init /\ [][Next]_mcVars

\* The variables of the parts keep to their types.
PartsTypeOK ==
  /\ RwTypeOK /\ BarTypeOK /\ CvTypeOK /\ UtTypeOK /\ PpTypeOK /\ BatchTypeOK
  /\ SrcTypeOK /\ PutTypeOK /\ RespTypeOK

=============================================================================
