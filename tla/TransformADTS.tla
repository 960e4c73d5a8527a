----------------------------- MODULE TransformADTS -----------------------------
(***************************************************************************)
(* src/linux/TransformADTS.h: the seven bytes that are put before each AAC *)
(* packet.  The bit operations are divisions and remainders.               *)
(***************************************************************************)
EXTENDS Integers, Sequences

ADTS_HEADER_SIZE == 7

\* avpriv_mpeg4audio_sample_rates, without the three zeroes at its end.
SampleRates ==
  <<96000, 88200, 64000, 48000, 44100, 32000,
    24000, 22050, 16000, 12000, 11025, 8000, 7350>>

\* The -1 of an unknown rate ends up as 15 in the four bits of the header.
SampleIndex(rate) ==
  IF \E i \in 1 .. Len(SampleRates) : SampleRates[i] = rate
  THEN (CHOOSE i \in 1 .. Len(SampleRates) : SampleRates[i] = rate) - 1
  ELSE 15

\* FFmpeg numbers the profiles MAIN, LOW, SSR, LTP and HE from 0; LD is 22,
\* ELD 38, MPEG2_LOW 128 and MPEG2_HE 131.
ProfileOf(profile) ==
  CASE profile \in 0 .. 4 -> profile
    [] profile = 22 -> 23
    [] profile = 38 -> 39
    [] profile = 128 -> 44
    [] profile = 131 -> 30
    [] OTHER -> 0

\* ff_mpeg4audio_channels is a table of channels by configuration, looked up
\* the other way round; only three bits of what it says are written.
Channel(channels) ==
  IF channels < 7 THEN channels ELSE IF channels = 7 THEN 8 ELSE 0

\* Faulty: the two high bits of the length are forgotten.
AdtsLengthShort(size) == (ADTS_HEADER_SIZE + size) % 2048

\* Thirteen bits: a packet of 8185 bytes or more gets a wrong length.
AdtsLength(size) == (ADTS_HEADER_SIZE + size) % 8192

WriteADTSHeader(size, format) ==
  LET length  == AdtsLength(size)
      channel == Channel(format.channels)
  IN <<255, 241,
       (ProfileOf(format.profile) % 4) * 64 + SampleIndex(format.rate) * 4
         + ((channel \div 4) % 2),
       (channel % 4) * 64 + (length \div 2048),
       (length \div 8) % 256, (length % 8) * 32 + 31, 252>>

-----------------------------------------------------------------------------
\* What a reader of ADTS finds in a header (ISO/IEC 13818-7, 6.2): the object
\* type less one, the index of the rate, the channel configuration, the length.
Parsed(h) ==
  [profile  |-> h[3] \div 64,
   rate     |-> (h[3] \div 4) % 16,
   channels |-> (h[3] % 2) * 4 + (h[4] \div 64),
   length   |-> (h[4] % 4) * 2048 + h[5] * 8 + (h[6] \div 32)]

=============================================================================
