--------------------------- MODULE SongEndDetector ---------------------------
(***************************************************************************)
(* SongEndDetector of detector.cc: update, which smooths the audio that    *)
(* is written to it and keeps half as many 8-bit samples as there were     *)
(* frames, and what detect_silence, detect_volume, trim_silence and        *)
(* trim_volume find in them.  A frame is its mono value, the mean of its   *)
(* two channels.                                                           *)
(***************************************************************************)
EXTENDS Integers, Sequences

CONSTANTS
  Freq,              \* rate: frames a second
  MsPerSec,          \* 1000
  Scale,             \* 256: 16-bit values to one 8-bit value
  ThresholdSilence,  \* THRESHOLD_SILENCE
  ThresholdVolume,   \* THRESHOLD_VOLUME
  Garbage            \* what tmp[8] holds before it is written

ASSUME RateAssumption ==
  /\ Freq \in Nat \ {0, 1}
  /\ MsPerSec \in Nat \ {0} /\ Scale \in Nat \ {0}
ASSUME ThresholdAssumption ==
  ThresholdSilence \in Nat /\ ThresholdVolume \in Nat
ASSUME GarbageAssumption == Garbage \in Int

VARIABLES
  tmp,         \* tmp[8], a ring of the last frames
  itmp, ctmp,  \* where the next frame goes; how many have come since
  buf,         \* buf: the samples
  buftmp,      \* update: buftmp[0 .. n - 1]
  audio,       \* audio: has any frame not been 0
  maxi, mini   \* the largest and the smallest sample

ringVars     == <<tmp, itmp, ctmp>>
sampleVars   == <<buf, buftmp, audio, maxi, mini>>
detectorVars == <<ringVars, sampleVars>>

InitDetector ==
  /\ tmp = [i \in 0 .. 7 |-> Garbage]
  /\ itmp = 0 /\ ctmp = 0
  /\ buf = <<>> /\ buftmp = <<>>
  /\ audio = FALSE
  /\ maxi = -128 /\ mini = 127
------------------------------------------------------------------------------
(* update *)

Largest(a, b)  == IF a > b THEN a ELSE b
Smallest(a, b) == IF a < b THEN a ELSE b
Magnitude(a)   == IF a < 0 THEN -a ELSE a

(* Division as C has it, towards 0.                                        *)
Quotient(a, b) == IF a < 0 THEN -((-a) \div b) ELSE a \div b

(* vector<int8_t> buftmp(nbytes / 8 + 2), for an update of n frames        *)
Room(n) == (4 * n) \div 8 + 2

(* The two samples that eight frames give, b(0) the oldest of them.        *)
Smoothed(b) ==
  LET mid == b[2] + b[3] + b[4] + b[5] IN
  << Quotient(b[0] + b[1] + mid, 6 * Scale),
     Quotient(mid + b[6] + b[7], 6 * Scale) >>

(* Mutant of Feed: the ring is read from its start.                        *)
FeedUnturned(val) ==
  LET ring == [tmp EXCEPT ![itmp] = val]
      s    == Smoothed(ring)
  IN
  /\ tmp' = ring
  /\ itmp' = (itmp + 1) % 8
  /\ audio' = (audio \/ val # 0)
  /\ IF ctmp + 1 = 8
     THEN /\ ctmp' = 4
          /\ buftmp' = buftmp \o s
          /\ maxi' = Largest(maxi, Largest(s[1], s[2]))
          /\ mini' = Smallest(mini, Smallest(s[1], s[2]))
     ELSE /\ ctmp' = ctmp + 1
          /\ UNCHANGED <<buftmp, maxi, mini>>
  /\ UNCHANGED buf

(* Mutant of Feed: eight new frames are awaited for two samples, and none  *)
(* of four is dropped.                                                     *)
FeedHasty(val) ==
  LET ring == [tmp EXCEPT ![itmp] = val]
      next == (itmp + 1) % 8
      s    == Smoothed([i \in 0 .. 7 |-> ring[(next + i) % 8]])
  IN
  /\ tmp' = ring
  /\ itmp' = next
  /\ audio' = (audio \/ val # 0)
  /\ IF ctmp + 1 = 8
     THEN /\ ctmp' = 6
          /\ buftmp' = buftmp \o s
          /\ maxi' = Largest(maxi, Largest(s[1], s[2]))
          /\ mini' = Smallest(mini, Smallest(s[1], s[2]))
     ELSE /\ ctmp' = ctmp + 1
          /\ UNCHANGED <<buftmp, maxi, mini>>
  /\ UNCHANGED buf

(* Mutant of Feed: the count is not set back.                              *)
FeedOnce(val) ==
  LET ring == [tmp EXCEPT ![itmp] = val]
      next == (itmp + 1) % 8
      s    == Smoothed([i \in 0 .. 7 |-> ring[(next + i) % 8]])
  IN
  /\ tmp' = ring
  /\ itmp' = next
  /\ audio' = (audio \/ val # 0)
  /\ ctmp' = ctmp + 1
  /\ IF ctmp + 1 = 8
     THEN /\ buftmp' = buftmp \o s
          /\ maxi' = Largest(maxi, Largest(s[1], s[2]))
          /\ mini' = Smallest(mini, Smallest(s[1], s[2]))
     ELSE UNCHANGED <<buftmp, maxi, mini>>
  /\ UNCHANGED buf

(* The body of update's loop: val goes into the ring; every fourth frame,  *)
(* once there are eight, the last eight make two samples.                  *)
Feed(val) ==
  LET ring == [tmp EXCEPT ![itmp] = val]
      next == (itmp + 1) % 8
      s    == Smoothed([i \in 0 .. 7 |-> ring[(next + i) % 8]])
  IN
  /\ tmp' = ring
  /\ itmp' = next
  /\ audio' = (audio \/ val # 0)
  /\ IF ctmp + 1 = 8
     THEN /\ ctmp' = 4
          /\ buftmp' = buftmp \o s
          /\ maxi' = Largest(maxi, Largest(s[1], s[2]))
          /\ mini' = Smallest(mini, Smallest(s[1], s[2]))
     ELSE /\ ctmp' = ctmp + 1
          /\ UNCHANGED <<buftmp, maxi, mini>>
  /\ UNCHANGED buf

(* buf.insert at its end *)
Keep ==
  /\ buf' = buf \o buftmp
  /\ buftmp' = <<>>
  /\ UNCHANGED <<ringVars, audio, maxi, mini>>
------------------------------------------------------------------------------
(* detect_silence, detect_volume, trim_silence, trim_volume                *)

SamplesPerSec == Freq \div 2

(* MARGIN: in samples, and compared with samples and with milliseconds     *)
Margin        == SamplesPerSec \div MsPerSec - 1

MillisOf(n)   == (n * MsPerSec) \div SamplesPerSec
SamplesIn(ms) == (ms * SamplesPerSec) \div MsPerSec

(* get_threshold: no more than what the quieter half of the wave rises     *)
(* above it                                                                *)
Threshold(t) ==
  Smallest(t, Largest(0, Smallest(Magnitude(maxi), Magnitude(mini)) - t))

Quiet(i, t) == Magnitude(buf[i]) <= t

(* volume_detect: where the first quiet stretch of more than maxcnt        *)
(* samples begins that has a louder sample before it; 0 if there is none.  *)
VolumeDetect(maxcnt, t) ==
  LET starts == {i \in 1 .. Len(buf) - maxcnt - 1 :
                   /\ ~Quiet(i, t)
                   /\ \A j \in i + 1 .. i + maxcnt + 1 : Quiet(j, t)}
  IN IF starts = {} THEN 0 ELSE CHOOSE i \in starts : \A j \in starts : i <= j

(* volume_trim: how many of the first offs samples are a quiet end; 0 if   *)
(* they all are quiet.                                                     *)
VolumeTrim(t, offs) ==
  LET loud == {i \in 1 .. offs : ~Quiet(i, t)}
  IN IF loud = {} THEN 0
     ELSE offs - CHOOSE i \in loud : \A j \in loud : j <= i

DetectSilence(seconds) ==
  IF ~audio THEN MillisOf(Len(buf)) + 1
  ELSE MillisOf(VolumeDetect(SamplesPerSec * seconds,
                             Threshold(ThresholdSilence)))

DetectVolume(seconds) ==
  LET t == Threshold(ThresholdVolume) IN
  IF t = 0 THEN 0 ELSE MillisOf(VolumeDetect(SamplesPerSec * seconds, t))

(* The rest of both trims.                                                 *)
Trimmed(t, ms) ==
  LET trimmed == MillisOf(VolumeTrim(t, Smallest(SamplesIn(ms), Len(buf))))
  IN IF Magnitude(ms - trimmed) <= Margin THEN ms ELSE trimmed

TrimSilence(ms) ==
  IF ~audio THEN ms ELSE Trimmed(Threshold(ThresholdSilence), ms)

TrimVolume(ms) ==
  LET t == Threshold(ThresholdVolume) IN IF t = 0 THEN 0 ELSE Trimmed(t, ms)
==============================================================================
