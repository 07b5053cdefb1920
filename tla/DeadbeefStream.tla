--------------------------- MODULE DeadbeefStream ----------------------------
(***************************************************************************)
(* The decoder that the DeaDBeeF plugin gives to its host: uade_open,      *)
(* uade_init, uade_read, uade_seek_sample and uade_free, over              *)
(* player::support::playback_step.                                         *)
(*                                                                         *)
(* The host reads blocks of its own size, the player renders buffers of    *)
(* its own, and what does not fit is kept in info->tail for the next read. *)
(* Frames are named by their place in the song.  The host is external: it  *)
(* drives one stream from one thread, reads blocks no smaller than a       *)
(* buffer, stops reading after a short read, and frees a stream it has     *)
(* opened, initialized or not.  It opens one stream after another.         *)
(***************************************************************************)
EXTENDS PlayerState

CONSTANTS
  KnownTimeouts,   \* pl_get_item_duration * 1000; negative if unknown
  ReadSizes,       \* the host's block sizes, in frames
  SeekTargets,     \* the positions the host seeks to, in ms
  MaxSeeks         \* bound: number of seeks of a stream

ASSUME StreamAssumption ==
  /\ KnownTimeouts \subseteq Int
  /\ ReadSizes \subseteq Nat /\ \A n \in ReadSizes : n >= BufFrames
  /\ SeekTargets \subseteq Nat
  /\ MaxSeeks \in Nat

VARIABLES
  life,      \* of the uade_info_t: none, open, failed, ready, freed
  player,    \* info->state.player: unset until uade_init stores a state
  pc,        \* the call in progress: idle, read, return, seek
  known,     \* info->known_timeout
  tail,      \* info->tail: the frames from, from + 1, ..., from + len - 1
  readpos,   \* _info->readpos, in units of 1 / (1000 * Freq) s
  size, got, \* uade_read: _size and bytes_read
  target,    \* uade_seek_sample: millis
  heard,     \* history: the frame the host must be given next
  gap,       \* history: it was given another one
  eof,       \* history: the last read was short
  lost,      \* history: a seek has failed
  seeks      \* number of seeks of this stream

infoVars == <<life, player, known>>
bufVars  == <<tail, readpos, heard, gap>>
callVars == <<size, got, target>>
hostVars == <<eof, lost, seeks>>
vars     == <<stateVars, infoVars, bufVars, callVars, hostVars, pc>>

NoTail == [from |-> 0, len |-> 0]

Init ==
  /\ InitState
  /\ known \in KnownTimeouts
  /\ life = "none" /\ player = "unset"
  /\ pc = "idle"
  /\ tail = NoTail /\ readpos = 0
  /\ size = 0 /\ got = 0 /\ target = 0
  /\ heard = 0 /\ gap = FALSE
  /\ eof = FALSE /\ lost = FALSE /\ seeks = 0
------------------------------------------------------------------------------
(* The life of a stream *)

(* uade_open: new uade_info_t leaves state.player indeterminate *)
Open ==
  /\ life \in {"none", "freed"}
  /\ life' = "open"
  /\ player' = "unset"
  /\ UNCHANGED <<stateVars, known, bufVars, callVars, hostVars, pc>>

(* uade_init, when player::play yields a state for song s                  *)
InitOk(s, timeout) ==
  /\ life = "open" /\ pc = "idle"
  /\ life' = "ready"
  /\ PlaySong(s)
  /\ player' = "playing"
  /\ known' = timeout
  /\ tail' = NoTail /\ readpos' = 0
  /\ heard' = 0 /\ eof' = FALSE /\ lost' = FALSE /\ seeks' = 0
  /\ size' = 0 /\ got' = 0 /\ target' = 0
  /\ UNCHANGED <<gap, pc>>

(* uade_init, when the file cannot be read, is not recognized or does not  *)
(* play                                                                    *)
InitFails ==
  /\ life = "open"
  /\ life' = "failed"
  /\ UNCHANGED <<stateVars, player, known, bufVars, callVars, hostVars, pc>>

(* uade_free *)
Free ==
  /\ life \in {"failed", "ready"} /\ pc = "idle"
  /\ life' = "freed"
  /\ player' = IF player = "playing" THEN "NONE" ELSE player
  /\ UNCHANGED <<stateVars, known, bufVars, callVars, hostVars, pc>>
------------------------------------------------------------------------------
(* uade_read *)

(* A seek has failed, and the song may have ended early under it: where    *)
(* the decoder stands is anybody's guess.                                  *)
Adrift == lost /\ stale

(* memcpy of n frames to the host, the first of them at from *)
Copy(from, n) ==
  /\ heard' = IF n > 0 THEN from + n ELSE heard
  /\ gap' = (gap \/ (n > 0 /\ from # heard /\ ~Adrift))

(* A known_timeout of 0 plays nothing.                                     *)
ReadNothing ==
  /\ life = "ready" /\ pc = "idle" /\ ~eof
  /\ known = 0
  /\ eof' = TRUE
  /\ UNCHANGED <<stateVars, infoVars, bufVars, callVars, lost, seeks, pc>>

(* up to the loop: the leftover frames come first *)
ReadBegin(n) ==
  LET left == IF readpos = 0 THEN NoTail ELSE tail IN
  /\ life = "ready" /\ pc = "idle" /\ ~eof
  /\ known # 0
  /\ size' = n
  /\ got' = left.len
  /\ Copy(left.from, left.len)
  /\ tail' = NoTail
  /\ pc' = "read"
  /\ UNCHANGED <<stateVars, infoVars, readpos, target, hostVars>>

(* playback_step's buffer: the frames that come with a status are dropped  *)
StepFrames == IF Status = "NONE" THEN Frames ELSE 0

(* Mutant of ReadStep: the end of the song does not end the loop.          *)
ReadStepOn ==
  LET fit == Least(StepFrames, size - got) IN
  /\ pc = "read" /\ got < size
  /\ Render
  /\ Copy(dec, fit)
  /\ tail' = IF StepFrames > fit
             THEN [from |-> dec + fit, len |-> StepFrames - fit] ELSE tail
  /\ got' = got + StepFrames
  /\ UNCHANGED <<infoVars, readpos, size, target, hostVars, pc>>

(* Mutant of ReadStep: one step is all a read makes.                       *)
ReadStepOnce ==
  LET fit == Least(StepFrames, size - got) IN
  /\ pc = "read" /\ got < size
  /\ Render
  /\ Copy(dec, fit)
  /\ tail' = IF StepFrames > fit
             THEN [from |-> dec + fit, len |-> StepFrames - fit] ELSE tail
  /\ got' = got + StepFrames
  /\ pc' = "return"
  /\ UNCHANGED <<infoVars, readpos, size, target, hostVars>>

(* The loop's body: playback_step renders a buffer, unless the song is at  *)
(* its limit; what is over the block goes to the tail; any status ends it. *)
ReadStep ==
  /\ pc = "read" /\ got < size
  /\ \/ LET fit == Least(StepFrames, size - got) IN
        /\ total < MaxBytes(known)
        /\ Render
        /\ Copy(dec, fit)
        /\ tail' = IF StepFrames > fit
                   THEN [from |-> dec + fit, len |-> StepFrames - fit] ELSE tail
        /\ got' = got + StepFrames
        /\ pc' = IF Status = "NONE" THEN "read" ELSE "return"
     \/ /\ total >= MaxBytes(known)
        /\ pc' = "return"
        /\ UNCHANGED <<stateVars, tail, heard, gap, got>>
  /\ UNCHANGED <<infoVars, readpos, size, target, hostVars>>

(* Mutant of ReadReturn: the frames kept for later count as read.          *)
ReadReturnAll ==
  /\ pc = "return" \/ (pc = "read" /\ got >= size)
  /\ readpos' = readpos + 1000 * got
  /\ eof' = (got < size)
  /\ pc' = "idle"
  /\ UNCHANGED <<stateVars, infoVars, tail, heard, gap, callVars, lost, seeks>>

ReadReturn ==
  /\ pc = "return" \/ (pc = "read" /\ got >= size)
  /\ readpos' = readpos + 1000 * Least(got, size)
  /\ eof' = (got < size)
  /\ pc' = "idle"
  /\ UNCHANGED <<stateVars, infoVars, tail, heard, gap, callVars, lost, seeks>>
------------------------------------------------------------------------------
(* uade_seek_sample, with player::seek *)

SeekBegin(ms) ==
  /\ life = "ready" /\ pc = "idle"
  /\ seeks < MaxSeeks
  /\ seeks' = seeks + 1
  /\ target' = ms
  /\ pc' = "seek"
  /\ UNCHANGED <<stateVars, infoVars, bufVars, size, got, eof, lost>>

(* -1 to the host; the tail and readpos stay as they are *)
SeekFails ==
  /\ lost' = TRUE
  /\ pc' = "idle"
  /\ UNCHANGED <<infoVars, bufVars, callVars, eof, seeks>>

(* Mutant of SeekSucceeds: the leftover frames survive the seek.           *)
SeekKeepsTail ==
  /\ readpos' = target * Freq
  /\ heard' = dec'
  /\ eof' = FALSE /\ lost' = FALSE
  /\ pc' = "idle"
  /\ UNCHANGED <<infoVars, tail, gap, callVars, seeks>>

SeekSucceeds ==
  /\ readpos' = target * Freq
  /\ tail' = NoTail
  /\ heard' = dec'
  /\ eof' = FALSE /\ lost' = FALSE
  /\ pc' = "idle"
  /\ UNCHANGED <<infoVars, gap, callVars, seeks>>

SeekUade ==
  /\ pc = "seek" /\ song.uade
  /\ \/ UadeSeek(target) /\ SeekSucceeds
     \/ UNCHANGED stateVars /\ SeekFails

(* A target behind the decoder needs a restart. *)
SeekBack ==
  /\ pc = "seek" /\ ~song.uade
  /\ \/ /\ target >= pos
        /\ pc' = "forward"
        /\ UNCHANGED <<stateVars, infoVars, bufVars, callVars, hostVars>>
     \/ /\ target < pos
        /\ Restart
        /\ pc' = "forward"
        /\ UNCHANGED <<infoVars, bufVars, callVars, hostVars>>
     \/ /\ target < pos
        /\ SeekFails
        /\ UNCHANGED stateVars

(* Buffers are rendered and dropped up to the target. *)
SeekForward ==
  /\ pc = "forward"
  /\ \/ /\ pos >= target
        /\ UNCHANGED stateVars
        /\ SeekSucceeds
     \/ /\ pos < target
        /\ Render
        /\ \/ /\ Status = "NONE"
              /\ UNCHANGED <<infoVars, bufVars, callVars, hostVars, pc>>
           \/ /\ Status # "NONE"
              /\ SeekFails
------------------------------------------------------------------------------
(* The host may stop using a stream at any time. *)
Call == ReadStep \/ ReadReturn \/ SeekUade \/ SeekBack \/ SeekForward

Next ==
  \/ Open \/ InitFails \/ Free
  \/ \E s \in Songs, timeout \in KnownTimeouts : InitOk(s, timeout)
  \/ ReadNothing \/ \E n \in ReadSizes : ReadBegin(n)
  \/ \E ms \in SeekTargets : SeekBegin(ms)
  \/ Call

Spec == Init /\ [][Next]_vars

(* A call that has begun runs on: it is a loop of the host's thread. *)
FairSpec == Spec /\ WF_vars(Call)
------------------------------------------------------------------------------
TypeOK ==
  /\ TypeOKState
  /\ life \in {"none", "open", "failed", "ready", "freed"}
  /\ player \in {"unset", "playing", "NONE"}
  /\ pc \in {"idle", "read", "return", "seek", "forward"}
  /\ known \in KnownTimeouts
  /\ tail \in [from : Nat, len : 0 .. BufFrames]
  /\ readpos \in Nat
  /\ size \in ReadSizes \cup {0} /\ got \in Nat
  /\ target \in SeekTargets \cup {0}
  /\ heard \in Nat
  /\ gap \in BOOLEAN /\ eof \in BOOLEAN /\ lost \in BOOLEAN
  /\ seeks \in 0 .. MaxSeeks

(* The frames a host reads follow one another as they do in the song, from *)
(* the start or from where its last seek landed: none is skipped, repeated *)
(* or left over from before a seek.  (Until a seek has failed on a decoder *)
(* that has kept an end over a restart.)                                   *)
NoGap == ~gap

(* A short read means the end, unless a seek has failed: everything that   *)
(* was rendered has been handed over but for the buffer that came with the *)
(* end, nothing waits in the tail, and the song is at its end or at its    *)
(* known length.  The exception is a song that a seek has restarted where  *)
(* its decoder keeps an end it has met before (libdigibooster3, ft2play):  *)
(* it may be short where that decoder then ends it, and nowhere else.      *)
EofIsTheEnd ==
  eof /\ ~lost /\ pc = "idle" /\ known # 0 =>
    /\ tail.len = 0
    /\ \/ /\ dec = song.frames \/ (stale /\ dec \in song.cuts)
          /\ dec - heard <= BufFrames
       \/ heard = dec /\ total >= MaxBytes(known)

(* The time the host shows lags what it plays by less than a buffer, and   *)
(* runs ahead of it by less than a frame, however often it has sought      *)
(* (uade takes a seek past the end of a song for a good one; a seek that   *)
(* fails on a decoder that has kept an end is excepted as in NoGap).       *)
ReadposTracksHeard ==
  /\ life = "ready" /\ pc = "idle" /\ ~Adrift
  /\ song.uade => dec < song.frames
  =>
    LET ahead == 1000 * heard - readpos IN
    -1000 < ahead /\ ahead < 1000 * BufFrames

(* Every read and every seek returns: neither loop can spin on a song that *)
(* has ended.                                                              *)
CallsReturn == pc # "idle" ~> pc = "idle"

(* player::stop is called with the state of a player (the asserts it       *)
(* begins with).                                                           *)
StopsAPlayer == life = "freed" => player # "unset"
==============================================================================
