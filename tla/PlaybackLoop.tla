---------------------------- MODULE PlaybackLoop -----------------------------
(***************************************************************************)
(* player::support::playback_loop of player.cc, with player::seek: the     *)
(* loop the Audacious plugin, the precalculation and the command line      *)
(* player play a song with.  The callbacks check_stop and check_seek are   *)
(* the user, who may stop at any turn of the loop and seek anywhere.       *)
(***************************************************************************)
EXTENDS PlayerState

CONSTANTS
  KnownTimeouts,    \* values of config.known_timeout, in ms; 0 if unknown
  SeekTargets,      \* the positions the user seeks to, in ms
  SilenceTimeout,   \* uade_config.silence_timeout, in s
  MaxSilence,       \* MAX_SILENCE, in ms
  MaxSeeks          \* bound: the number of seeks

ASSUME TimesAssumption ==
  /\ KnownTimeouts \subseteq Int
  /\ SeekTargets \subseteq Nat
  /\ {SilenceTimeout, MaxSilence, MaxSeeks} \subseteq Nat

NoTarget == -1

VARIABLES
  pc,        \* where the loop is
  known,     \* config.known_timeout
  stopped, seeked,
  target,    \* seek_millis, kept until the next buffer is rendered
  tail,      \* tailbytes
  status,    \* songend.status
  length,    \* songend.length
  written,   \* history: bytes passed to write_audio
  seeks      \* number of seeks made

loopVars == <<known, stopped, seeked, target, tail, status, length, written,
              seeks>>
vars == <<stateVars, loopVars, pc>>

Init ==
  /\ InitState
  /\ known \in KnownTimeouts
  /\ pc = "check"
  /\ stopped = FALSE
  /\ seeked = FALSE
  /\ target = NoTarget
  /\ tail = 0
  /\ status = "TIMEOUT"
  /\ length = PrecalcTimeout * 1000
  /\ written = 0
  /\ seeks = 0
------------------------------------------------------------------------------
(* while (!(stopped = check_stop()) && state.total_bytes < maxbytes) *)
Check ==
  /\ pc = "check"
  /\ stopped' \in BOOLEAN
  /\ pc' = IF stopped' \/ total >= MaxBytes(known) THEN "end" ELSE "poll"
  /\ UNCHANGED <<stateVars, known, seeked, target, tail, status, length,
                 written, seeks>>

(* check_seek() *)
PollSeek(ms) ==
  /\ pc = "poll"
  /\ seeks < MaxSeeks
  /\ seeks' = seeks + 1
  /\ seeked' = TRUE
  /\ target' = ms
  /\ pc' = "seek"
  /\ UNCHANGED <<stateVars, known, stopped, tail, status, length, written>>

PollNothing ==
  /\ pc = "poll"
  /\ pc' = "render"
  /\ UNCHANGED <<stateVars, loopVars>>

SeekFails ==
  /\ status' = "ERROR"
  /\ pc' = "end"
  /\ UNCHANGED <<known, stopped, seeked, target, tail, length, written, seeks>>

(* uade has a seek of its own *)
SeekUade ==
  /\ pc = "seek" /\ song.uade
  /\ \/ /\ UadeSeek(target)
        /\ pc' = "render"
        /\ UNCHANGED loopVars
     \/ /\ SeekFails
        /\ UNCHANGED stateVars

(* Mutant of SeekBack: the song is restarted only for earlier buffers.     *)
SeekBackLazy ==
  /\ pc = "seek" /\ ~song.uade
  /\ pc' = "forward"
  /\ UNCHANGED <<stateVars, loopVars>>

(* seek, its first part: a target behind the position needs a restart *)
SeekBack ==
  /\ pc = "seek" /\ ~song.uade
  /\ \/ /\ target >= pos
        /\ pc' = "forward"
        /\ UNCHANGED <<stateVars, loopVars>>
     \/ /\ target < pos
        /\ Restart
        /\ pc' = "forward"
        /\ UNCHANGED loopVars
     \/ /\ target < pos
        /\ SeekFails
        /\ UNCHANGED stateVars

(* Mutant of SeekForward: the song's end does not end the loop.            *)
SeekForwardOn ==
  /\ pc = "forward"
  /\ \/ /\ pos >= target
        /\ pc' = "render"
        /\ UNCHANGED <<stateVars, loopVars>>
     \/ /\ pos < target
        /\ Render
        /\ UNCHANGED <<loopVars, pc>>

(* seek, its loop: render and drop buffers up to the target *)
SeekForward ==
  /\ pc = "forward"
  /\ \/ /\ pos >= target
        /\ pc' = "render"
        /\ UNCHANGED <<stateVars, loopVars>>
     \/ /\ pos < target
        /\ Render
        /\ \/ /\ Status = "NONE"
              /\ UNCHANGED <<loopVars, pc>>
           \/ /\ Status # "NONE"
              /\ SeekFails

(* Mutant of Play: the tail is written and still subtracted.               *)
PlayWritesTail ==
  /\ pc = "render"
  /\ Render
  /\ IF Frames > 0 /\ Status # "ERROR"
     THEN /\ written' = written + 4 * Frames
          /\ tail' = IF Status = "NONE" THEN tail ELSE 4 * Frames
     ELSE UNCHANGED <<written, tail>>
  /\ IF Status # "NONE"
     THEN status' = Status /\ pc' = "end"
     ELSE UNCHANGED status /\ pc' = "check"
  /\ target' = NoTarget
  /\ UNCHANGED <<known, stopped, seeked, length, seeks>>

(* render and write_audio; the bytes that come with a status are tail      *)
(* bytes and are not written.                                              *)
Play ==
  /\ pc = "render"
  /\ Render
  /\ IF Frames > 0 /\ Status # "ERROR"
     THEN IF Status = "NONE" \/ total' = 0
          THEN written' = written + 4 * Frames /\ UNCHANGED tail
          ELSE tail' = 4 * Frames /\ UNCHANGED written
     ELSE UNCHANGED <<written, tail>>
  /\ IF Status # "NONE"
     THEN status' = Status /\ pc' = "end"
     ELSE UNCHANGED status /\ pc' = "check"
  /\ target' = NoTarget
  /\ UNCHANGED <<known, stopped, seeked, length, seeks>>

(* The song end when the loop is left without a seek or a stop ... *)
CountedLength ==
  IF ~seeked /\ ~stopped /\ status # "TIMEOUT" THEN Millis(total - tail)
                                               ELSE length

(* ... and uade's silence taken off it: silence_timeout is subtracted, and *)
(* compared, as it is.                                                     *)
WithoutSilence(len) ==
  IF song.uade /\ status = "DETECT_SILENCE"
  THEN len - SilenceTimeout
         + (IF SilenceTimeout > MaxSilence THEN MaxSilence ELSE 0)
  ELSE len

(* Mutant of Finish: tail bytes count as song.                             *)
FinishWithTail ==
  /\ pc = "end"
  /\ length' = IF ~seeked /\ ~stopped /\ status # "TIMEOUT" THEN Millis(total)
                                                             ELSE length
  /\ pc' = "done"
  /\ UNCHANGED <<stateVars, known, stopped, seeked, target, tail, status,
                 written, seeks>>

Finish ==
  /\ pc = "end"
  /\ length' = WithoutSilence(CountedLength)
  /\ pc' = "done"
  /\ UNCHANGED <<stateVars, known, stopped, seeked, target, tail, status,
                 written, seeks>>

Done == pc = "done" /\ UNCHANGED vars

Next ==
  \/ Check \/ PollNothing \/ SeekUade \/ SeekBack \/ SeekForward
  \/ Play \/ Finish \/ Done
  \/ \E ms \in SeekTargets : PollSeek(ms)

Spec == Init /\ [][Next]_vars

(* The loop is one thread that never waits. *)
FairSpec == Spec /\ WF_vars(Next)
------------------------------------------------------------------------------
(* The byte count and the time shown to the user are those of the decoder, *)
(* through restarts and through the buffers a seek drops (uade counts on   *)
(* its own).                                                               *)
PositionTracksSong ==
  ~song.uade => total = 4 * dec /\ pos = Millis(total)

(* After a successful seek the next buffer is the one the target lies in   *)
(* or borders on: at or past the target, by less than one buffer.          *)
SeekLands ==
  pc = "render" /\ target # NoTarget /\ ~song.uade =>
    pos >= target /\ Millis(total - 4 * BufFrames) < target

(* The length reported for a song played from start to end is the length   *)
(* of the audio that was written.                                          *)
LengthIsHeard ==
  /\ pc = "done" /\ ~seeked /\ ~stopped
  /\ status # "TIMEOUT" /\ status # "ERROR"
  /\ ~(song.uade /\ status = "DETECT_SILENCE")
  => length = Millis(written)

(* The loop ends even if the song does not and the user never stops it.    *)
LoopEnds == <>(pc = "done")
==============================================================================
