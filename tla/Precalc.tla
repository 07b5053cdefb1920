------------------------------- MODULE Precalc -------------------------------
(***************************************************************************)
(* precalc_song_end of precalc.cc: a song is played into the detector, and *)
(* the length it is given in the song database is worked out from how it   *)
(* ended and from what was heard.                                          *)
(*                                                                         *)
(* playback_loop appears here as what PlaybackLoop shows of it: buffers    *)
(* are written until the song or the limit ends it, the buffer that comes  *)
(* with an end is dropped, and the length is that of what was written.     *)
(* The decoders are external.                                              *)
(***************************************************************************)
EXTENDS LoopDetection

CONSTANTS
  Sounds,          \* the songs: sequences of frames
  Buffers,         \* how many frames a decoder may render at once
  PrecalcTimeout,  \* PRECALC_TIMEOUT, in s
  SilenceTimeout,  \* SILENCE_TIMEOUT, in s
  MaxSilence       \* MAX_SILENCE, in ms

ASSUME SongAssumption ==
  /\ \A s \in Sounds : s \in Seq(Int)
  /\ Buffers \subseteq Nat \ {0}
ASSUME LimitsAssumption ==
  {PrecalcTimeout, SilenceTimeout, MaxSilence} \subseteq Nat

(* As they are: 8062 Hz or more, buffers of a 50th of a second, an hour to *)
(* play, a minute for a loop to begin, 6 s for a repeat; silence is half a *)
(* minute, of which 3 s are kept.                                          *)
ASSUME ValuesAssumption ==
  /\ Freq >= 8 * MsPerSec
  /\ \A n \in Buffers : n <= Freq
  /\ PrecalcTimeout >= 3 /\ PrecalcTimeout > LoopSeconds
  /\ PrecalcTimeout * MsPerSec >= 18 * RepeatThreshold
  /\ MaxSilence >= Margin /\ MaxSilence <= SilenceTimeout * MsPerSec

VARIABLES
  pc,            \* play, update, detect, trim, done
  sound,         \* the song
  fed,           \* how many frames of it have been through update
  chunk, left,   \* update: frames in all and still to come
  status,        \* songend.status
  length,        \* songend.length
  ended, played  \* history: status and length as playback_loop left them

songVars  == <<sound, fed, chunk, left>>
endVars   == <<status, length>>
vars      == <<detectorVars, songVars, endVars, pc, ended, played>>

Limit == PrecalcTimeout * Freq

Init ==
  /\ InitDetector
  /\ pc = "play"
  /\ sound \in Sounds
  /\ fed = 0 /\ chunk = 0 /\ left = 0
  /\ status = "TIMEOUT" /\ length = PrecalcTimeout * MsPerSec
  /\ ended = "NONE" /\ played = 0
------------------------------------------------------------------------------
(* playback_loop *)

(* write_audio for a buffer of n frames: update begins *)
Write(n) ==
  /\ pc = "play" /\ fed < Limit
  /\ fed + n <= Len(sound)
  /\ chunk' = n /\ left' = n
  /\ pc' = "update"
  /\ UNCHANGED <<detectorVars, sound, fed, endVars, ended, played>>

(* update, a turn of its loop *)
Update ==
  /\ pc = "update" /\ left > 0
  /\ Feed(sound[fed + 1])
  /\ fed' = fed + 1
  /\ left' = left - 1
  /\ UNCHANGED <<sound, chunk, endVars, pc, ended, played>>

(* update, its end *)
UpdateEnds ==
  /\ pc = "update" /\ left = 0
  /\ Keep
  /\ pc' = "play"
  /\ UNCHANGED <<songVars, endVars, ended, played>>

(* uade reports silence after SILENCE_TIMEOUT seconds of it.               *)
SilentAtEnd ==
  /\ fed >= SilenceTimeout * Freq
  /\ \A i \in fed - SilenceTimeout * Freq + 1 .. fed : sound[i] = 0

(* The length of what was written, and playback_loop's way of taking       *)
(* uade's silence off it: see PlaybackLoop!LengthIsHeard, !WithoutSilence. *)
Heard == (fed * MsPerSec) \div Freq
HeardWithoutSilence ==
  Heard - SilenceTimeout
        + (IF SilenceTimeout > MaxSilence THEN MaxSilence ELSE 0)

(* The decoder ends, with the last buffer of the song, of n frames, or     *)
(* after it.  Those frames are dropped; with an error, they count.         *)
SongEnds(s, n) ==
  /\ pc = "play" /\ fed < Limit
  /\ fed + n >= Len(sound)
  /\ s = "DETECT_SILENCE" => SilentAtEnd
  /\ status' = s
  /\ length' = CASE s = "PLAYER"         -> Heard
                 [] s = "DETECT_SILENCE" -> HeardWithoutSilence
                 [] s = "ERROR"          -> ((fed + n) * MsPerSec) \div Freq
  /\ ended' = status' /\ played' = length'
  /\ pc' = "trim"
  /\ UNCHANGED <<detectorVars, songVars>>

(* The limit ends it: the status is still TIMEOUT.                         *)
LimitEnds ==
  /\ pc = "play" /\ fed >= Limit
  /\ ended' = status /\ played' = length
  /\ pc' = "detect"
  /\ UNCHANGED <<detectorVars, songVars, endVars>>

(* player::play finds nothing to play.                                     *)
PlayFails ==
  /\ pc = "play" /\ chunk = 0
  /\ status' = "ERROR" /\ length' = 0
  /\ ended' = "ERROR" /\ played' = 0
  /\ pc' = "done"
  /\ UNCHANGED <<detectorVars, songVars>>
------------------------------------------------------------------------------
Result(s, len) == status' = s /\ length' = len

(* Mutant of Cut: a slip of the brackets.                                  *)
CutBoth(len, silence) == len - (silence + MaxSilence)

(* songend.length - silence + MAX_SILENCE *)
Cut(len, silence) == len - silence + MaxSilence

(* apply_detector, with a silence or a soundless song *)
DetectedSilence(silence) ==
  /\ silence > 0
  /\ \/ length <= silence /\ Result("NOSOUND", 0)
     \/ /\ length > silence
        /\ IF length > silence + MaxSilence
           THEN Result("DETECT_SILENCE", silence + MaxSilence)
           ELSE UNCHANGED endVars

(* ... with a low volume *)
DetectedVolume(volume) ==
  /\ volume > 0 /\ length > volume + MaxSilence
  /\ Result("DETECT_VOLUME", volume + MaxSilence)

(* ... with a loop, in which something sounds after the first moment       *)
DetectedLoop(loop) ==
  LET silence == TrimSilence(loop)
      volume  == TrimVolume(loop)
  IN
  /\ loop <= length \div 2 /\ silence < loop /\ volume < loop
  /\ \/ silence > MaxSilence
        /\ Result("LOOP_PLUS_SILENCE", Cut(loop, silence))
     \/ silence <= MaxSilence /\ volume > MaxSilence
        /\ Result("LOOP_PLUS_VOLUME", Cut(loop, volume))
     \/ silence <= MaxSilence /\ volume <= MaxSilence
        /\ Result("DETECT_LOOP", loop)

(* apply_detector.  A loop is taken to be at most half of the song, as is  *)
(* asserted.                                                               *)
ApplyDetector ==
  LET silence == DetectSilence(SilenceTimeout)
      volume  == DetectVolume(SilenceTimeout)
  IN
  /\ pc = "detect"
  /\ \/ DetectedSilence(silence)
     \/ silence = 0 /\ DetectedVolume(volume)
     \/ /\ silence = 0 /\ ~(volume > 0 /\ length > volume + MaxSilence)
        /\ \/ UNCHANGED endVars
           \/ \E repeat \in Repeats(Len(buf)) \ {0} :
                Result("DETECT_REPEAT", repeat)
           \/ \E loop \in Loops(Len(buf)) \ {0} : DetectedLoop(loop)
  /\ pc' = "trim"
  /\ UNCHANGED <<detectorVars, songVars, ended, played>>

(* apply_trimmer, for a song that its player ended *)
TrimPlayer(silence, volume) ==
  \/ silence >= length /\ Result("NOSOUND", 0)
  \/ /\ silence < length /\ silence > MaxSilence
     /\ Result("PLAYER_PLUS_SILENCE", Cut(length, silence))
  \/ /\ silence < length /\ length > MaxSilence
     /\ silence <= MaxSilence /\ volume > MaxSilence
     /\ Result("PLAYER_PLUS_VOLUME", Cut(length, volume))
  \/ /\ silence < length
     /\ length <= MaxSilence \/ (silence <= MaxSilence /\ volume <= MaxSilence)
     /\ UNCHANGED endVars

(* Mutant of TrimSilent: what ends in silence is only looked at for sound. *)
TrimSilentNot(silence) ==
  \/ silence >= length /\ Result("NOSOUND", 0)
  \/ silence < length /\ UNCHANGED endVars

(* ... and for one that ends in silence *)
TrimSilent(silence) ==
  \/ silence >= length /\ Result("NOSOUND", 0)
  \/ /\ silence < length /\ silence > MaxSilence
     /\ Result("DETECT_SILENCE", Cut(length, silence))
  \/ silence < length /\ silence <= MaxSilence /\ UNCHANGED endVars

(* apply_trimmer *)
ApplyTrimmer ==
  /\ pc = "trim"
  /\ \/ /\ status = "PLAYER"
        /\ TrimPlayer(TrimSilence(length), TrimVolume(length))
     \/ status = "DETECT_SILENCE" /\ TrimSilent(TrimSilence(length))
     \/ status \notin {"PLAYER", "DETECT_SILENCE"} /\ UNCHANGED endVars
  /\ pc' = "done"
  /\ UNCHANGED <<detectorVars, songVars, ended, played>>

Done == pc = "done" /\ UNCHANGED vars

Next ==
  \/ \E n \in Buffers : Write(n)
  \/ Update \/ UpdateEnds \/ LimitEnds \/ PlayFails
  \/ \E s \in {"PLAYER", "ERROR", "DETECT_SILENCE"}, n \in Buffers \cup {0} :
       SongEnds(s, n)
  \/ ApplyDetector \/ ApplyTrimmer \/ Done

Spec == Init /\ [][Next]_vars
------------------------------------------------------------------------------
Statuses ==
  {"PLAYER", "TIMEOUT", "ERROR", "NOSOUND", "DETECT_SILENCE", "DETECT_VOLUME",
   "DETECT_REPEAT", "DETECT_LOOP", "PLAYER_PLUS_SILENCE", "PLAYER_PLUS_VOLUME",
   "LOOP_PLUS_SILENCE", "LOOP_PLUS_VOLUME"}

TypeOK ==
  /\ tmp \in [0 .. 7 -> Int]
  /\ itmp \in 0 .. 7 /\ ctmp \in 0 .. 7
  /\ buf \in Seq(Int) /\ buftmp \in Seq(Int)
  /\ audio \in BOOLEAN
  /\ maxi \in Int /\ mini \in Int
  /\ pc \in {"play", "update", "detect", "trim", "done"}
  /\ sound \in Sounds
  /\ fed \in 0 .. Len(sound)
  /\ chunk \in Nat /\ left \in 0 .. chunk
  /\ status \in Statuses /\ length \in Nat
  /\ ended \in Statuses \cup {"NONE"} /\ played \in Nat

(* update never writes past the end of buftmp, however much the last       *)
(* update has left over in its ring.                                       *)
BufTmpFits == Len(buftmp) <= Room(chunk)

(* The samples are the means of six frames each, two frames apart, from    *)
(* the first frame on, wherever the audio was split into buffers: none of  *)
(* it is lost at a boundary, and nothing but frames ever gets in.          *)
BufIsSmoothed ==
  LET all == buf \o buftmp IN
  /\ Len(all) = IF fed < 8 THEN 0 ELSE 2 * (fed \div 4 - 1)
  /\ \A j \in 1 .. Len(all) :
       all[j] = Quotient(sound[2 * j - 1] + sound[2 * j] + sound[2 * j + 1]
                         + sound[2 * j + 2] + sound[2 * j + 3]
                         + sound[2 * j + 4], 6 * Scale)

(* The search for loops never reads past the samples, and a song is not    *)
(* made longer than it was heard to be by a repeat (the assertion in       *)
(* apply_detector, which the overflow in detect_repeat does not break).    *)
LoopsInBounds ==
  pc = "detect" /\ audio =>
    /\ ReadsIn(Len(buf))
    /\ \A repeat \in Repeats(Len(buf)) : repeat < length

(* The samples of the song from ms on, up to where it ended                *)
From(ms) ==
  Largest(1, SamplesIn(ms) + 2) .. Smallest(SamplesIn(played), Len(buf))
QuietFor(s) ==
  Threshold(IF s \in {"PLAYER_PLUS_VOLUME", "DETECT_VOLUME"}
            THEN ThresholdVolume ELSE ThresholdSilence)

(* What is cut off the end of a song is quiet to the end; what is cut off  *)
(* an endless one begins with SILENCE_TIMEOUT seconds of quiet, less the   *)
(* MAX_SILENCE that are kept; a song without sound may have one in the     *)
(* moment that the margin stands for.                                      *)
OnlyQuietIsCut ==
  pc = "done" =>
    /\ ended \in {"PLAYER", "DETECT_SILENCE"} =>
         \A i \in From(IF status = "NOSOUND" THEN Margin ELSE length) :
           Quiet(i, QuietFor(status))
    /\ ended = "TIMEOUT" /\ status \in {"DETECT_SILENCE", "DETECT_VOLUME"} =>
         \A i \in From(length) :
           i <= SamplesIn(length - MaxSilence) + SilenceTimeout * SamplesPerSec
             => Quiet(i, QuietFor(status))

(* No song but a silent one is left with more than MAX_SILENCE of silence  *)
(* at its end, to within the rounding and what update holds back.          *)
TailIsShort ==
  LET loud == {i \in 1 .. Smallest(SamplesIn(length), Len(buf)) :
                 ~Quiet(i, QuietFor(status))}
  IN
  /\ pc = "done" /\ length > MaxSilence + 2 /\ loud # {}
  /\ ended \in {"PLAYER", "DETECT_SILENCE"} \/ status = "DETECT_SILENCE"
  => \E i \in loud : i >= SamplesIn(length - MaxSilence - 2)
==============================================================================
