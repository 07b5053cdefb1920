----------------------------- MODULE PlayerState -----------------------------
(***************************************************************************)
(* player::PlayerState and the decoder behind it: what render, restart and *)
(* seek of player.cc do to the position of a song.                         *)
(*                                                                         *)
(* A frame is one stereo sample, 4 bytes.  The decoders are external: a    *)
(* song is a record that says how many frames its decoder yields, with     *)
(* which status it then ends, and whether that status comes along with the *)
(* last frames or with an empty buffer after them.  A decoder that reports *)
(* no status has made progress; module Decoders shows what they do.        *)
(*                                                                         *)
(* A restarted song plays the same frames again, but it may end before its *)
(* end: libdigibooster3's restart keeps that the song has ended, ft2play's *)
(* that its last order has begun, so that one ends with its next buffer    *)
(* and the other at its next order.                                        *)
(***************************************************************************)
EXTENDS Integers

CONSTANTS
  Freq,        \* state.frequency
  BufFrames,   \* state.buffer_size, in frames
  Songs,       \* the songs that may be played
  PrecalcTimeout   \* PRECALC_TIMEOUT, in s

ASSUME FreqAssumption == Freq \in Nat \ {0}
ASSUME BufAssumption  == BufFrames \in Nat \ {0}
(* A buffer is a 50th of a second, so it lasts a ms at least (mixBufSize). *)
ASSUME BufLasts == 1000 * BufFrames >= Freq
ASSUME LimitAssumption == PrecalcTimeout \in Nat

Ends == {"ERROR", "PLAYER", "TIMEOUT", "DETECT_SILENCE"}

Song == [uade    : BOOLEAN,   \* state.player = Player::uade
         frames  : Nat,       \* what the decoder yields from start to end
         ending  : Ends,      \* the status of the end
         drained : BOOLEAN,   \* the end comes with an empty buffer
         keeps   : SUBSET Nat,   \* where a restart keeps an end it has met ...
         cuts    : SUBSET Nat,   \* ... and where the song then ends
         chunk   : 1 .. BufFrames]   \* the frames of all other buffers

ASSUME SongsAssumption == Songs \subseteq Song

VARIABLES
  song,    \* the song being played
  dec,     \* the decoder's position in it, in frames
  stale,   \* the decoder was restarted and has kept an end
  total,   \* state.total_bytes
  pos      \* state.pos_millis

stateVars == <<song, dec, stale, total, pos>>

BytesPerSec   == 4 * Freq
Millis(bytes) == (bytes * 1000) \div BytesPerSec
BytesAt(ms)   == (ms * BytesPerSec) \div 1000
Least(a, b)   == IF a < b THEN a ELSE b

(* maxbytes of playback_loop and playback_step *)
MaxBytes(known) == IF known > 0 THEN BytesAt(known)
                                ELSE PrecalcTimeout * BytesPerSec

InitState ==
  /\ song \in Songs
  /\ dec = 0 /\ stale = FALSE
  /\ total = 0
  /\ pos = 0

(* player::play: a new state, at the start of a song *)
PlaySong(s) ==
  /\ song' = s
  /\ dec' = 0 /\ stale' = FALSE
  /\ total' = 0
  /\ pos' = 0

(* What the decoder's next buffer holds and reports. *)
Frames == Least(song.chunk, song.frames - dec)
Status ==
  IF \/ dec + Frames = song.frames /\ (song.drained => Frames = 0)
     \/ stale /\ dec + Frames \in song.cuts
  THEN song.ending ELSE "NONE"

(* Mutant of Render: the position is taken before the buffer is counted.   *)
RenderLate ==
  /\ dec' = dec + Frames
  /\ total' = total + 4 * Frames
  /\ pos' = Millis(total)
  /\ UNCHANGED <<song, stale>>

(* render, and the same lines in seek's loop *)
Render ==
  /\ dec' = dec + Frames
  /\ total' = total + 4 * Frames
  /\ pos' = Millis(total + 4 * Frames)
  /\ UNCHANGED <<song, stale>>

(* Mutant of Restart: the byte count survives the restart.                 *)
RestartKeepsTotal ==
  /\ dec' = 0 /\ stale' = (stale \/ dec \in song.keeps)
  /\ pos' = 0
  /\ UNCHANGED <<song, total>>

(* restart, when the player's own restart succeeds *)
Restart ==
  /\ dec' = 0 /\ stale' = (stale \/ dec \in song.keeps)
  /\ total' = 0
  /\ pos' = 0
  /\ UNCHANGED song

(* uade::seek: the position is computed, not counted. *)
UadeSeek(ms) ==
  /\ dec' = Least(BytesAt(ms) \div 4, song.frames)
  /\ total' = BytesAt(ms)
  /\ pos' = ms
  /\ UNCHANGED <<song, stale>>

TypeOKState ==
  /\ song \in Songs
  /\ dec \in 0 .. song.frames
  /\ stale \in BOOLEAN
  /\ total \in Nat
  /\ pos \in Nat
==============================================================================
