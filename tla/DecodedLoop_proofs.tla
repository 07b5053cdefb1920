-------------------------- MODULE DecodedLoop_proofs --------------------------
(***************************************************************************)
(* The playback loop: where a song is, where a seek lands and how long a   *)
(* song is found to be, for songs, rates, buffers and limits of every      *)
(* size; and the loop with its decoders, which is such a loop, and whose   *)
(* decoders play the songs it is checked with.                             *)
(***************************************************************************)
EXTENDS DecodedLoop, WellFoundedInduction, TLAPS

Places == {"check", "poll", "seek", "forward", "render", "end", "done"}

(* The numbers of the loop, and what is not a number.                      *)
Numbers ==
  /\ TypeOKState
  /\ known \in KnownTimeouts
  /\ target \in SeekTargets \cup {NoTarget}
  /\ tail \in Nat /\ written \in Nat /\ length \in Int
  /\ seeks \in 0 .. MaxSeeks

Flags ==
  /\ pc \in Places
  /\ stopped \in BOOLEAN /\ seeked \in BOOLEAN
  /\ status \in Ends

(* A seek has a target until the next buffer is rendered, and what is not  *)
(* uade's is on its way to it from before.                                 *)
SeekInv ==
  /\ pc \in {"check", "poll"} => target = NoTarget
  /\ pc \in {"seek", "forward"} => target # NoTarget
  /\ pc = "forward" => ~song.uade /\ Millis(total - 4 * BufFrames) < target
  /\ SeekLands

(* While nobody seeks, what is rendered is written, but for the tail of a  *)
(* song that has ended.                                                    *)
HeardInv ==
  ~seeked =>
    /\ pc \notin {"seek", "forward"}
    /\ pc \in {"check", "poll", "render"} => tail = 0 /\ written = total
    /\ pc = "end" /\ status # "ERROR" => written = total - tail
    /\ LengthIsHeard

(* The loop is left with the status of a limit, or of the song's end.      *)
EndInv ==
  pc \in {"check", "poll", "seek", "forward", "render"} =>
    status = "TIMEOUT" /\ ~stopped

Core ==
  /\ PositionTracksSong
  /\ SeekInv
  /\ HeardInv
  /\ EndInv

IInv == Numbers /\ Flags /\ Core
------------------------------------------------------------------------------
(* Division with a remainder, and the order it keeps.                      *)
LEMMA DivMono ==
  ASSUME NEW a \in Int, NEW b \in Int, NEW d \in Nat \ {0}, a <= b
  PROVE  a \div d <= b \div d
  OBVIOUS

LEMMA DivLess ==
  ASSUME NEW a \in Int, NEW x \in Int, NEW d \in Nat \ {0}, d <= x
  PROVE  (a - x) \div d < a \div d
  OBVIOUS

LEMMA DivInt ==
  ASSUME NEW a \in Int, NEW d \in Nat \ {0}
  PROVE  a \div d \in Int /\ (a \in Nat => a \div d \in Nat)
  OBVIOUS

LEMMA ProductInNat ==
  ASSUME NEW a \in Nat, NEW b \in Nat
  PROVE  a * b \in Nat
  OBVIOUS

(* A position in ms and one in bytes.                                      *)
LEMMA PositionFacts ==
  /\ BytesPerSec \in Nat \ {0}
  /\ \A b \in Int : Millis(b) \in Int
  /\ \A b \in Nat : Millis(b) \in Nat
  /\ \A ms \in Nat : BytesAt(ms) \in Nat /\ BytesAt(ms) \div 4 \in Nat
  <1>1. BytesPerSec \in Nat \ {0}
    BY FreqAssumption DEF BytesPerSec
  <1>2. ASSUME NEW b \in Int
        PROVE  Millis(b) \in Int /\ (b \in Nat => Millis(b) \in Nat)
    <2>1. b * 1000 \in Int /\ (b \in Nat => b * 1000 \in Nat)
      OBVIOUS
    <2>. QED
      BY <1>1, <2>1, DivInt DEF Millis
  <1>3. ASSUME NEW ms \in Nat
        PROVE  BytesAt(ms) \in Nat /\ BytesAt(ms) \div 4 \in Nat
    <2>1. ms * BytesPerSec \in Nat
      BY <1>1, ProductInNat
    <2>. QED
      BY <2>1 DEF BytesAt
  <1>. QED
    BY <1>1, <1>2, <1>3

(* Time goes on with the bytes, by a ms at least for a buffer.             *)
LEMMA TimeGoesOn ==
  ASSUME NEW a \in Int, NEW b \in Int
  PROVE  /\ a <= b => Millis(a) <= Millis(b)
         /\ Millis(b - 4 * BufFrames) < Millis(b)
  <1>1. a <= b => a * 1000 <= b * 1000
    OBVIOUS
  <1>2. a <= b => Millis(a) <= Millis(b)
    BY <1>1, DivMono, PositionFacts DEF Millis
  <1>3. /\ 4 * BufFrames * 1000 \in Int
        /\ BytesPerSec <= 4 * BufFrames * 1000
        /\ (b - 4 * BufFrames) * 1000 = b * 1000 - 4 * BufFrames * 1000
    BY FreqAssumption, BufAssumption, BufLasts DEF BytesPerSec
  <1>4. Millis(b - 4 * BufFrames) < Millis(b)
    <2>. DEFINE x == 4 * BufFrames * 1000
                y == b * 1000
    <2>1. x \in Int /\ y \in Int /\ BytesPerSec <= x
      BY <1>3
    <2>. HIDE DEF x, y
    <2>2. (y - x) \div BytesPerSec < y \div BytesPerSec
      BY <2>1, DivLess, PositionFacts
    <2>. QED
      BY <1>3, <2>2 DEF Millis, x, y
  <1>. QED
    BY <1>2, <1>4

(* A buffer ends at the end of the song at the latest, and a status comes  *)
(* only there if no decoder cuts the song.                                 *)
LEMMA BufferFacts ==
  ASSUME TypeOKState
  PROVE  /\ song.frames \in Nat /\ song.ending \in Ends /\ dec \in Nat
         /\ Frames \in 0 .. BufFrames /\ Frames \in Nat
         /\ dec + Frames \in 0 .. song.frames
         /\ Status # "NONE" => /\ song.cuts = {} => dec + Frames = song.frames
                               /\ Status = song.ending
  <1>1. /\ song.frames \in Nat /\ song.ending \in Ends /\ dec \in Nat
        /\ song.chunk \in 1 .. BufFrames
    BY SongsAssumption DEF TypeOKState, Song
  <1>2. Frames \in 0 .. BufFrames /\ dec + Frames \in 0 .. song.frames
    BY <1>1, BufAssumption DEF TypeOKState, Frames, Least
  <1>3. Status # "NONE" => /\ song.cuts = {} => dec + Frames = song.frames
                           /\ Status = song.ending
    BY Zenon DEF Status
  <1>. QED
    BY <1>1, <1>2, <1>3, BufAssumption

(* Rendering, restarting and seeking keep the types of the player's state. *)
LEMMA RenderFacts ==
  ASSUME TypeOKState, Render
  PROVE  /\ TypeOKState'
         /\ total' = total + 4 * Frames /\ dec' = dec + Frames
         /\ song' = song /\ pos' = Millis(total')
  <1>1. /\ total' = total + 4 * Frames /\ dec' = dec + Frames
        /\ song' = song /\ pos' = Millis(total + 4 * Frames)
        /\ stale' = stale
    BY DEF Render
  <1>2. total + 4 * Frames \in Nat
    BY BufferFacts DEF TypeOKState
  <1>3. pos' \in Nat
    BY <1>1, <1>2, PositionFacts
  <1>. QED
    BY <1>1, <1>2, <1>3, BufferFacts DEF TypeOKState

LEMMA UadeSeekFacts ==
  ASSUME TypeOKState, NEW ms \in Nat, UadeSeek(ms)
  PROVE  TypeOKState' /\ song' = song
  <1>1. BytesAt(ms) \in Nat /\ BytesAt(ms) \div 4 \in Nat
    BY PositionFacts
  <1>2. song.frames \in Nat
    BY BufferFacts
  <1>. QED
    BY <1>1, <1>2 DEF TypeOKState, UadeSeek, Least

LEMMA RestartFacts ==
  ASSUME TypeOKState, Restart
  PROVE  TypeOKState' /\ song' = song
  <1>1. song.frames \in Nat
    BY BufferFacts
  <1>. QED
    BY <1>1 DEF TypeOKState, Restart
------------------------------------------------------------------------------
(* A loop begins at the start of its song.                                 *)
LEMMA InitIInv == Init => IInv
  <1>. SUFFICES ASSUME Init PROVE IInv
    OBVIOUS
  <1>1. song \in Songs /\ dec = 0 /\ total = 0 /\ pos = 0
    BY DEF Init, InitState
  <1>2. song.frames \in Nat
    BY <1>1, SongsAssumption DEF Song
  <1>3. TypeOKState
    <2>1. stale \in BOOLEAN
      BY Zenon DEF Init, InitState
    <2>. QED
      BY <1>1, <1>2, <2>1 DEF TypeOKState
  <1>4. Numbers
    BY <1>3, TimesAssumption, LimitAssumption DEF Init, Numbers
  <1>5. Flags
    BY DEF Init, Flags, Places, Ends
  <1>6. Millis(0) = 0
    BY PositionFacts DEF Millis
  <1>. QED
    BY <1>1, <1>4, <1>5, <1>6
    DEF Init, IInv, Core, PositionTracksSong, SeekInv, SeekLands, HeardInv,
        LengthIsHeard, EndInv
------------------------------------------------------------------------------
(* What the invariant says of the numbers.                                 *)
LEMMA NumberFacts ==
  ASSUME IInv
  PROVE  /\ TypeOKState
         /\ dec \in Nat /\ total \in Nat /\ pos \in Nat
         /\ target \in Int /\ (target # NoTarget => target \in Nat)
         /\ tail \in Nat /\ written \in Nat /\ length \in Int
  <1>1. TypeOKState
    BY DEF IInv, Numbers
  <1>2. dec \in Nat /\ total \in Nat /\ pos \in Nat
    BY <1>1, BufferFacts DEF TypeOKState
  <1>. QED
    BY <1>1, <1>2, TimesAssumption DEF IInv, Numbers, NoTarget

(* The parts of the invariant.                                             *)
LEMMA IInvParts ==
  IInv => /\ PositionTracksSong /\ SeekInv /\ SeekLands
          /\ HeardInv /\ LengthIsHeard /\ EndInv
          /\ pc \in Places /\ stopped \in BOOLEAN /\ seeked \in BOOLEAN
          /\ status \in Ends
  <1>. SUFFICES ASSUME IInv PROVE LengthIsHeard
    BY Zenon DEF IInv, Core, SeekInv, Flags
  <1>. QED
    BY DEF IInv, Core, HeardInv, LengthIsHeard

(* Steps that leave the player's state and the bytes written alone.        *)
LEMMA CheckCore ==
  ASSUME IInv, Check
  PROVE  Flags' /\ Core'
  <1>1. /\ pc = "check" /\ pc' \in {"end", "poll"} /\ stopped' \in BOOLEAN
        /\ stopped' => pc' = "end"
    BY DEF Check
  <1>2. UNCHANGED <<stateVars, known, seeked, target, tail, status, length,
                    written>>
    BY DEF Check
  <1>3. Flags'
    BY <1>1, <1>2, IInvParts DEF Flags, Places
  <1>4. PositionTracksSong' /\ SeekInv' /\ EndInv'
    BY <1>1, <1>2, IInvParts
    DEF PositionTracksSong, SeekInv, SeekLands, EndInv, stateVars, Millis,
        BytesPerSec
  <1>5. HeardInv'
    <2>. SUFFICES ASSUME ~seeked' PROVE HeardInv'
      BY DEF HeardInv
    <2>1. tail = 0 /\ written = total
      BY <1>1, <1>2, IInvParts DEF HeardInv
    <2>2. written' = total' - tail'
      BY <1>2, <2>1, NumberFacts DEF stateVars
    <2>. QED
      BY <1>1, <1>2, <2>1, <2>2 DEF HeardInv, LengthIsHeard, stateVars
  <1>. QED
    BY <1>3, <1>4, <1>5 DEF Core

LEMMA PollCore ==
  ASSUME IInv, (\E ms \in SeekTargets : PollSeek(ms)) \/ PollNothing
  PROVE  Flags' /\ Core'
  <1>1. CASE PollNothing
    BY <1>1, IInvParts
    DEF PollNothing, loopVars, stateVars, Flags, Places, Core,
        PositionTracksSong, SeekInv, SeekLands, HeardInv, LengthIsHeard,
        EndInv, Millis, BytesPerSec
  <1>2. ASSUME NEW ms \in SeekTargets, PollSeek(ms)
        PROVE  Flags' /\ Core'
    <2>1. target' # NoTarget
      BY <1>2, TimesAssumption DEF PollSeek, NoTarget
    <2>. QED
      BY <1>2, <2>1, IInvParts
      DEF PollSeek, loopVars, stateVars, Flags, Places, Core,
          PositionTracksSong, SeekInv, SeekLands, HeardInv, EndInv, Millis,
          BytesPerSec
  <1>. QED
    BY <1>1, <1>2

(* A seek is made by someone who has sought.                               *)
LEMMA SoughtBefore == IInv /\ pc \in {"seek", "forward"} => seeked
  BY IInvParts DEF HeardInv

LEMMA SeekFailsCore ==
  ASSUME IInv, SeekFails, PositionTracksSong', pc \in {"seek", "forward"}
  PROVE  Flags' /\ Core'
  <1>1. seeked' /\ status' = "ERROR" /\ pc' = "end" /\ stopped' = stopped
        /\ seeked' = seeked
    BY SoughtBefore DEF SeekFails
  <1>. QED
    BY <1>1, IInvParts
    DEF Flags, Places, Ends, Core, SeekInv, SeekLands, HeardInv, EndInv

LEMMA SeekUadeCore ==
  ASSUME IInv, SeekUade
  PROVE  Flags' /\ Core'
  <1>1. pc = "seek" /\ song.uade /\ song' = song
    BY DEF SeekUade, UadeSeek, stateVars
  <1>2. PositionTracksSong'
    BY <1>1 DEF PositionTracksSong
  <1>3. CASE pc' = "render" /\ UNCHANGED loopVars
    BY <1>1, <1>2, <1>3, IInvParts, SoughtBefore
    DEF loopVars, Flags, Places, Core, SeekInv, SeekLands, HeardInv, EndInv
  <1>. QED
    BY <1>1, <1>2, <1>3, SeekFailsCore DEF SeekUade

(* A target that is not behind is at most a buffer's ms ahead or to come;  *)
(* after a restart, everything is.                                         *)
LEMMA SeekBackCore ==
  ASSUME IInv, SeekBack
  PROVE  Flags' /\ Core'
  <1>1. pc = "seek" /\ ~song.uade /\ target \in Nat
    BY IInvParts, NumberFacts DEF SeekBack, SeekInv
  <1>2. ASSUME UNCHANGED loopVars, pc' = "forward", song' = song,
               total' \in Nat, Millis(total') <= target, PositionTracksSong'
        PROVE  Flags' /\ Core'
    <2>1. Millis(total' - 4 * BufFrames) < Millis(total')
      BY <1>2, TimeGoesOn
    <2>2. /\ Millis(total' - 4 * BufFrames) \in Int
          /\ Millis(total') \in Int
      BY <1>2, PositionFacts, BufAssumption
    <2>3. Millis(total' - 4 * BufFrames) < target'
      BY <1>1, <1>2, <2>1, <2>2 DEF loopVars
    <2>. QED
      BY <1>1, <1>2, <2>3, IInvParts, SoughtBefore
      DEF loopVars, Flags, Places, Core, SeekInv, SeekLands, HeardInv,
          EndInv, Millis, BytesPerSec
  <1>3. CASE target >= pos /\ pc' = "forward"
             /\ UNCHANGED <<stateVars, loopVars>>
    <2>1. pos = Millis(total) /\ total \in Nat /\ PositionTracksSong
      BY <1>1, IInvParts, NumberFacts DEF PositionTracksSong
    <2>. QED
      BY <1>2, <1>3, <2>1, NumberFacts
      DEF stateVars, PositionTracksSong, Millis, BytesPerSec
  <1>4. CASE Restart /\ pc' = "forward" /\ UNCHANGED loopVars
    <2>1. Millis(0) = 0
      BY PositionFacts DEF Millis
    <2>2. /\ song' = song /\ dec' = 0 /\ total' = 0 /\ pos' = 0
      BY <1>4 DEF Restart
    <2>3. PositionTracksSong'
      BY <2>1, <2>2 DEF PositionTracksSong, Millis, BytesPerSec
    <2>. QED
      BY <1>1, <1>2, <1>4, <2>1, <2>2, <2>3 DEF Millis, BytesPerSec
  <1>5. CASE SeekFails /\ UNCHANGED stateVars
    BY <1>1, <1>5, IInvParts, SeekFailsCore
    DEF stateVars, PositionTracksSong, Millis, BytesPerSec
  <1>. QED
    BY <1>3, <1>4, <1>5 DEF SeekBack

(* Rendering keeps the count.                                              *)
LEMMA RenderTracks ==
  ASSUME IInv, Render
  PROVE  PositionTracksSong'
  <1>1. /\ total' = total + 4 * Frames /\ dec' = dec + Frames
        /\ song' = song /\ pos' = Millis(total') /\ Frames \in Nat
    BY RenderFacts, NumberFacts, BufferFacts
  <1>2. ~song.uade => total' = 4 * dec'
    BY <1>1, IInvParts, NumberFacts DEF PositionTracksSong
  <1>. QED
    BY <1>1, <1>2 DEF PositionTracksSong, Millis, BytesPerSec

(* The buffer that reaches the target is one before which it was ahead.    *)
LEMMA SeekForwardCore ==
  ASSUME IInv, SeekForward
  PROVE  Flags' /\ Core'
  <1>1. /\ pc = "forward" /\ ~song.uade /\ target \in Nat
        /\ Millis(total - 4 * BufFrames) < target
    BY IInvParts, NumberFacts DEF SeekForward, SeekInv
  <1>2. CASE pos >= target /\ pc' = "render"
             /\ UNCHANGED <<stateVars, loopVars>>
    BY <1>1, <1>2, IInvParts, SoughtBefore
    DEF stateVars, loopVars, Flags, Places, Core, PositionTracksSong, SeekInv,
        SeekLands, HeardInv, EndInv, Millis, BytesPerSec
  <1>3. CASE pos < target /\ Render /\ UNCHANGED <<loopVars, pc>>
    <2>1. pos = Millis(total) /\ total \in Nat /\ Frames \in 0 .. BufFrames
      BY <1>1, IInvParts, NumberFacts, BufferFacts DEF PositionTracksSong
    <2>2. total' = total + 4 * Frames /\ song' = song
      BY <1>3, NumberFacts, RenderFacts
    <2>3. total' - 4 * BufFrames \in Int /\ total' - 4 * BufFrames <= total
      BY <2>1, <2>2, BufAssumption
    <2>4. Millis(total' - 4 * BufFrames) <= Millis(total)
      BY <2>1, <2>3, TimeGoesOn
    <2>5. Millis(total' - 4 * BufFrames) < target'
      <3>1. /\ Millis(total' - 4 * BufFrames) \in Int
            /\ Millis(total) \in Int /\ target' = target
        BY <1>3, <2>1, <2>3, PositionFacts DEF loopVars
      <3>. QED
        BY <1>1, <1>3, <2>1, <2>4, <3>1
    <2>6. PositionTracksSong'
      BY <1>3, RenderTracks
    <2>. QED
      BY <1>1, <1>3, <2>2, <2>5, <2>6, IInvParts, SoughtBefore
      DEF loopVars, Flags, Places, Core, SeekInv, SeekLands, HeardInv, EndInv,
          Millis, BytesPerSec
  <1>4. CASE SeekFails /\ Render
    BY <1>1, <1>4, RenderTracks, SeekFailsCore
  <1>. QED
    BY <1>2, <1>3, <1>4 DEF SeekForward

(* What is rendered is written or is the tail; the song's end ends the     *)
(* loop.                                                                   *)
LEMMA PlayCore ==
  ASSUME IInv, Play
  PROVE  Flags' /\ Core'
  <1>1. /\ pc = "render" /\ Render /\ target' = NoTarget
        /\ UNCHANGED <<known, stopped, seeked, length>>
        /\ IF Status # "NONE" THEN status' = Status /\ pc' = "end"
                              ELSE status' = status /\ pc' = "check"
        /\ IF Frames > 0 /\ Status # "ERROR"
           THEN IF Status = "NONE" \/ total' = 0
                THEN written' = written + 4 * Frames /\ tail' = tail
                ELSE tail' = 4 * Frames /\ written' = written
           ELSE written' = written /\ tail' = tail
    BY DEF Play
  <1>2. /\ total' = total + 4 * Frames /\ song' = song
        /\ Frames \in Nat /\ (Status # "NONE" => Status \in Ends)
    BY <1>1, NumberFacts, RenderFacts, BufferFacts
  <1>3. Flags'
    BY <1>1, <1>2, IInvParts DEF Flags, Places
  <1>4. PositionTracksSong' /\ SeekInv' /\ EndInv'
    BY <1>1, RenderTracks, IInvParts DEF SeekInv, SeekLands, EndInv
  <1>5. HeardInv'
    <2>. SUFFICES ASSUME ~seeked' PROVE HeardInv'
      BY DEF HeardInv
    <2>1. tail = 0 /\ written = total
      BY <1>1, IInvParts DEF HeardInv
    <2>2. CASE Status = "NONE"
      <3>1. tail' = 0 /\ written' = total'
        BY <1>1, <1>2, <2>1, <2>2, NumberFacts
      <3>. QED
        BY <1>1, <2>2, <3>1 DEF HeardInv, LengthIsHeard
    <2>3. CASE Status # "NONE"
      <3>1. status' # "ERROR" => written' = total' - tail'
        BY <1>1, <1>2, <2>1, <2>3, NumberFacts
      <3>. QED
        BY <1>1, <2>3, <3>1 DEF HeardInv, LengthIsHeard
    <2>. QED
      BY <2>2, <2>3
  <1>. QED
    BY <1>3, <1>4, <1>5 DEF Core

LEMMA FinishCore ==
  ASSUME IInv, Finish
  PROVE  Flags' /\ Core'
  <1>1. /\ pc = "end" /\ pc' = "done"
        /\ length' = WithoutSilence(CountedLength)
        /\ UNCHANGED <<stateVars, known, stopped, seeked, target, tail, status,
                       written>>
    BY DEF Finish
  <1>2. LengthIsHeard'
    <2>. SUFFICES ASSUME ~seeked, ~stopped, status # "TIMEOUT",
                         status # "ERROR",
                         ~(song.uade /\ status = "DETECT_SILENCE")
                  PROVE  length' = Millis(written)
      BY <1>1 DEF LengthIsHeard, stateVars, Millis, BytesPerSec
    <2>1. length' = Millis(total - tail)
      BY <1>1 DEF WithoutSilence, CountedLength
    <2>2. written = total - tail
      BY <1>1, IInvParts DEF HeardInv
    <2>. QED
      BY <2>1, <2>2
  <1>. QED
    BY <1>1, <1>2, IInvParts
    DEF stateVars, Flags, Places, Core, PositionTracksSong, SeekInv, SeekLands,
        HeardInv, EndInv, Millis, BytesPerSec

(* Every step keeps the types of the numbers.                              *)
LEMMA NumbersStep ==
  ASSUME IInv, Next
  PROVE  Numbers'
  <1>. USE DEF IInv, Numbers
  <1>1. CASE Check \/ PollNothing \/ Done
    BY <1>1 DEF Check, PollNothing, Done, vars, loopVars, stateVars,
                TypeOKState
  <1>2. ASSUME NEW ms \in SeekTargets, PollSeek(ms) PROVE Numbers'
    BY <1>2, TimesAssumption DEF PollSeek, stateVars, TypeOKState
  <1>3. CASE SeekUade
    <2>1. target \in Nat
      BY <1>3, NumberFacts, IInvParts DEF SeekUade, SeekInv
    <2>2. TypeOKState'
      BY <1>3, <2>1, UadeSeekFacts DEF SeekUade, stateVars, TypeOKState
    <2>. QED
      BY <1>3, <2>2 DEF SeekUade, SeekFails, loopVars
  <1>4. CASE SeekBack
    <2>1. TypeOKState'
      BY <1>4, RestartFacts DEF SeekBack, stateVars, TypeOKState
    <2>. QED
      BY <1>4, <2>1 DEF SeekBack, SeekFails, loopVars
  <1>5. CASE SeekForward
    <2>1. TypeOKState'
      BY <1>5, RenderFacts DEF SeekForward, stateVars, TypeOKState
    <2>. QED
      BY <1>5, <2>1 DEF SeekForward, SeekFails, loopVars
  <1>6. CASE Play
    <2>1. TypeOKState' /\ Frames \in Nat
      BY <1>6, RenderFacts, BufferFacts DEF Play
    <2>2. tail' \in Nat /\ written' \in Nat
      BY <1>6, <2>1 DEF Play
    <2>. QED
      BY <1>6, <2>1, <2>2 DEF Play
  <1>7. CASE Finish
    <2>1. total - tail \in Int
      BY NumberFacts
    <2>2. Millis(total - tail) \in Int
      BY <2>1, PositionFacts
    <2>3. CountedLength \in Int
      BY <2>2, NumberFacts DEF CountedLength
    <2>4. WithoutSilence(CountedLength) \in Int
      BY <2>3, TimesAssumption DEF WithoutSilence
    <2>. QED
      BY <1>7, <2>4 DEF Finish, stateVars, TypeOKState
  <1>. QED
    BY <1>1, <1>2, <1>3, <1>4, <1>5, <1>6, <1>7 DEF Next

(* The invariant is inductive.                                             *)
LEMMA IInvStep == IInv /\ [Next]_vars => IInv'
  <1>. SUFFICES ASSUME IInv, [Next]_vars PROVE IInv'
    OBVIOUS
  <1>1. ASSUME Next PROVE Flags' /\ Core'
    <2>1. CASE Done
      BY <2>1 DEF Done, vars, stateVars, loopVars, IInv, Flags, Core,
        PositionTracksSong, SeekInv, SeekLands, HeardInv, LengthIsHeard,
        EndInv, Millis, BytesPerSec
    <2>. QED
      BY <1>1, <2>1, CheckCore, PollCore, SeekUadeCore, SeekBackCore,
         SeekForwardCore, PlayCore, FinishCore
      DEF Next
  <1>2. CASE Next
    BY <1>1, <1>2, NumbersStep DEF IInv
  <1>3. CASE UNCHANGED vars
    BY <1>3 DEF vars, stateVars, loopVars, IInv, Numbers, TypeOKState, Flags,
      Core, PositionTracksSong, SeekInv, SeekLands, HeardInv, LengthIsHeard,
      EndInv, Millis, BytesPerSec
  <1>. QED
    BY <1>2, <1>3

LEMMA Invariance == Spec => []IInv
  BY InitIInv, IInvStep, PTL DEF Spec

(* playback_loop's position is the decoder's, for songs that are not       *)
(* uade's, whatever has been restarted, sought and dropped.                *)
THEOREM PositionIsTheDecoders == Spec => []PositionTracksSong
  <1>1. IInv => PositionTracksSong
    BY IInvParts
  <1>. QED
    BY <1>1, Invariance, PTL

(* player::seek leaves off at the buffer the target lies in or borders on. *)
THEOREM SeekLandsAtTarget == Spec => []SeekLands
  <1>1. IInv => SeekLands
    BY IInvParts
  <1>. QED
    BY <1>1, Invariance, PTL

(* The length playback_loop returns is that of the audio it has written.   *)
THEOREM LengthIsWhatWasHeard == Spec => []LengthIsHeard
  <1>1. IInv => LengthIsHeard
    BY IInvParts
  <1>. QED
    BY <1>1, Invariance, PTL
------------------------------------------------------------------------------
(* The loop with its decoders is a loop: all of the above holds of it.     *)
THEOREM DecodedLoopIsALoop == DSpec => Spec
  <1>1. DInit => Init
    BY Zenon DEF DInit
  <1>2. [DNext]_allVars => [Next]_vars
    BY Zenon DEF DNext, allVars
  <1>. QED
    BY <1>1, <1>2, PTL DEF DSpec, Spec

LEMMA DInvariance == DSpec => []IInv
  BY DecodedLoopIsALoop, Invariance, PTL

(* What is played of a file is one of its tunes.                           *)
LEMMA TunesArePlayed ==
  ASSUME NEW f \in Files, NEW s \in Nat, MayPlay(f, s), NEW d \in Start(f, s)
  PROVE  /\ d.tune \in Tunes /\ d.tune.player = f.player
         /\ \E i \in DOMAIN f.tunes : d.tune = f.tunes[i]
  <1>1. /\ f.tunes \in Seq(Tunes) /\ f.tunes # <<>>
        /\ \A i \in DOMAIN f.tunes : f.tunes[i].player = f.player
    BY FilesAssumption
  <1>2. DOMAIN f.tunes = 1 .. Len(f.tunes) /\ Len(f.tunes) \in Nat \ {0}
    BY <1>1
  <1>3. ASSUME NEW i \in 1 .. Len(f.tunes), NEW a, d \in Decoder(f.tunes[i], a)
        PROVE  /\ d.tune \in Tunes /\ d.tune.player = f.player
               /\ \E k \in DOMAIN f.tunes : d.tune = f.tunes[k]
    BY <1>1, <1>2, <1>3 DEF Decoder
  <1>4. ASSUME NEW S, d \in IfLoads(f, S) PROVE d \in S
    BY <1>4 DEF IfLoads
  <1>5. CASE f.player = "uade"
    <2>1. d \in UadePlay(f, s)
      BY <1>5 DEF Start
    <2>2. PICK i \in {s - f.first} \cap (0 .. Last(f)) :
            d \in Decoder(f.tunes[i + 1], 0)
      BY <2>1, <1>4 DEF UadePlay
    <2>3. i + 1 \in 1 .. Len(f.tunes)
      BY <1>2 DEF Last
    <2>. QED
      BY <1>3, <2>2, <2>3
  <1>6. CASE f.player = "hivelytracker" \/ f.player = "libdigibooster3"
    <2>1. s + 1 \in 1 .. Len(f.tunes)
      BY <1>2, <1>6 DEF MayPlay, OneSong, Last
    <2>2. d \in Decoder(f.tunes[s + 1], 0)
          \/ d \in Decoder(f.tunes[s + 1], Db3Context)
      BY <1>4, <1>6 DEF Start, HivelyPlay, Db3Play
    <2>. QED
      BY <1>3, <2>1, <2>2
  <1>7. CASE f.player = "libopenmpt"
    <2>1. d \in Decoder(f.tunes[Least(s, Last(f)) + 1], 0)
      BY <1>4, <1>7 DEF Start, OpenmptPlay
    <2>2. Least(s, Last(f)) + 1 \in 1 .. Len(f.tunes)
      BY <1>2 DEF Least, Last
    <2>. QED
      BY <1>3, <2>1, <2>2
  <1>8. CASE f.player = "libxmp"
    <2>1. ~(s > Last(f)) /\ d \in IfLoads(f, Decoder(f.tunes[s + 1], 0))
      BY <1>8, Zenon DEF Start, XmpPlay
    <2>2. s + 1 \in 1 .. Len(f.tunes)
      BY <1>2, <2>1 DEF Last
    <2>. QED
      BY <1>3, <1>4, <2>1, <2>2
  <1>9. CASE f.player \in OneSong
    <2>1. \/ d \in Decoder(f.tunes[1], 0)
          \/ d \in Decoder(f.tunes[1], St23Load(f.tunes[1].spt))
      BY <1>4, <1>9
      DEF OneSong, Start, Ptk1Play, Ptk2Play, V2Play, St23Play, NtkPlay
    <2>. QED
      BY <1>2, <1>3, <2>1
  <1>10. f.player \in {"uade", "hivelytracker", "libdigibooster3",
                       "libopenmpt", "libxmp"} \cup OneSong
    BY <1>1, <1>2 DEF Tunes, OneSong
  <1>. QED
    BY <1>5, <1>6, <1>7, <1>8, <1>9, <1>10

(* The song is uade's if the tune is, with uade's limits, which depend on  *)
(* the known length.                                                       *)
TuneInv ==
  /\ tune \in Tunes
  /\ song.uade <=> tune.player = "uade"
  /\ song.uade => song.frames = UadeFrames(tune)
               /\ song.ending = UadeStatus(tune)
               /\ song.cuts = {}

(* uade counts at least what its decoder has played, and the loop is only  *)
(* left for a limit when it is reached.                                    *)
KnownInv ==
  song.uade =>
    /\ total >= 4 * dec
    /\ pc \in {"end", "done"} /\ known > 0 /\ ~stopped
         /\ status \in {"TIMEOUT", "DETECT_SILENCE"}
       => total >= MaxBytes(known)

(* What is played is the tune's song from the start.                       *)
LEMMA InitTune == DInit => TuneInv
  <1>. SUFFICES ASSUME DInit PROVE TuneInv
    OBVIOUS
  <1>1. PICK f \in Files, s \in 0 .. 255 :
          MayPlay(f, s) /\ \E d \in Start(f, s) : tune = d.tune
    BY Zenon DEF DInit
  <1>2. s \in Nat
    OBVIOUS
  <1>3. tune \in Tunes
    BY <1>1, <1>2, TunesArePlayed
  <1>4. song = SongOf(tune)
    BY DEF DInit
  <1>5. song.uade = (tune.player = "uade")
    BY <1>4, Zenon DEF SongOf
  <1>6. song.frames = FramesOf(tune)
    BY <1>4, Zenon DEF SongOf
  <1>7. tune.player = "uade" => song.frames = UadeFrames(tune)
    BY <1>6 DEF FramesOf
  <1>8. tune.player = "uade" => song.ending = UadeStatus(tune)
    BY <1>4 DEF SongOf
  <1>9. song.cuts = {}
    BY <1>4, Zenon DEF SongOf
  <1>. QED
    BY <1>3, <1>5, <1>7, <1>8, <1>9 DEF TuneInv

LEMMA SongStays == IInv /\ [DNext]_allVars => song' = song /\ known' = known
  <1>. SUFFICES ASSUME IInv, [DNext]_allVars
                PROVE  song' = song /\ known' = known
    OBVIOUS
  <1>1. [Next]_vars
    BY Zenon DEF DNext, allVars
  <1>. QED
    BY <1>1 DEF Next, vars, stateVars, loopVars, Check, PollSeek, PollNothing,
      SeekUade, UadeSeek, SeekFails, SeekBack, Restart, SeekForward, Render,
      Play, Finish, Done

LEMMA TuneStep == IInv /\ TuneInv /\ [DNext]_allVars => TuneInv'
  <1>. SUFFICES ASSUME IInv, TuneInv, [DNext]_allVars PROVE TuneInv'
    OBVIOUS
  <1>1. tune' = tune
    BY Zenon DEF DNext, Decode, allVars
  <1>2. UadeFrames(tune)' = UadeFrames(tune)
        /\ UadeStatus(tune)' = UadeStatus(tune)
    BY <1>1, SongStays DEF UadeFrames, UadeStatus, UadeTimeout
  <1>. QED
    BY <1>1, <1>2, SongStays DEF TuneInv

(* uade's own limits, in whole seconds, come after the known length.       *)
LEMMA WholeSeconds ==
  \A k \in Nat : BytesAt(k) <= 4 * (Freq * (k \div 1000 + 1))
  <1>. TAKE k \in Nat
  <1>. DEFINE q == k \div 1000 + 1
              b == BytesPerSec
  <1>1. q \in Nat /\ k <= 1000 * q /\ b \in Nat
    BY PositionFacts
  <1>2. b = 4 * Freq /\ Freq \in Nat
    BY FreqAssumption DEF BytesPerSec
  <1>. HIDE DEF q, b
  <1>3. k * b <= (1000 * q) * b
    BY <1>1
  <1>4. (1000 * q) * b = 1000 * (q * b) /\ q * b \in Nat /\ k * b \in Nat
    BY <1>1
  <1>5. (k * b) \div 1000 <= (1000 * (q * b)) \div 1000
    BY <1>3, <1>4, DivMono
  <1>6. (1000 * (q * b)) \div 1000 = q * b
    BY <1>4
  <1>7. q * b = 4 * (Freq * q)
    BY <1>1, <1>2
  <1>. QED
    BY <1>5, <1>6, <1>7 DEF BytesAt, q, b

LEMMA UadeLimits ==
  ASSUME TuneInv, song.uade, Numbers, known > 0,
         song.ending \in {"TIMEOUT", "DETECT_SILENCE"}
  PROVE  4 * song.frames >= MaxBytes(known)
  <1>1. /\ song.frames = UadeFrames(tune) /\ song.ending = UadeStatus(tune)
        /\ tune.audible \in Nat /\ tune.frames \in Nat
    BY DEF TuneInv, Tunes
  <1>2. known \in Nat /\ Freq \in Nat
    BY TimesAssumption, FreqAssumption DEF Numbers
  <1>0. BytesAt(known) <= 4 * (Freq * (known \div 1000 + 1))
    <2>1. known \in Nat
      BY <1>2
    <2>. QED
      BY <2>1, WholeSeconds
  <1>. DEFINE limit == Freq * (known \div 1000 + 1)
  <1>3. limit \in Nat /\ BytesAt(known) <= 4 * limit
    BY <1>0, <1>2
  <1>4. /\ Freq * UadeTimeout(SubsongTimeout) = limit
        /\ Freq * UadeTimeout(SilenceTimeout) = limit
    BY DEF UadeTimeout
  <1>5. MaxBytes(known) = BytesAt(known)
    BY DEF MaxBytes
  <1>7. UadeFrames(tune) # tune.frames
    BY <1>1 DEF UadeStatus
  <1>. HIDE DEF limit
  <1>8. UadeFrames(tune) >= limit
    BY <1>1, <1>3, <1>4, <1>7 DEF UadeFrames, Least
  <1>9. BytesAt(known) \in Nat /\ UadeFrames(tune) \in Nat
    BY <1>1, <1>2, <1>3, <1>4, PositionFacts DEF UadeFrames, Least
  <1>. QED
    BY <1>1, <1>3, <1>5, <1>8, <1>9

LEMMA KnownStep ==
  IInv /\ TuneInv /\ KnownInv /\ [DNext]_allVars => KnownInv'
  <1>. SUFFICES ASSUME IInv, TuneInv, KnownInv, [DNext]_allVars, song.uade
                PROVE  KnownInv'
    BY SongStays DEF KnownInv
  <1>1. [Next]_vars /\ song' = song /\ known' = known
    BY SongStays, Zenon DEF DNext, allVars
  <1>2. MaxBytes(known)' = MaxBytes(known)
    BY <1>1 DEF MaxBytes, BytesAt, BytesPerSec
  <1>3. total >= 4 * dec /\ total \in Nat /\ dec \in Nat
    BY NumberFacts DEF KnownInv
  <1>4. CASE Check
    BY <1>1, <1>2, <1>3, <1>4, IInvParts
    DEF Check, KnownInv, stateVars, EndInv
  <1>5. CASE (\E ms \in SeekTargets : PollSeek(ms)) \/ PollNothing
    BY <1>1, <1>2, <1>3, <1>5
    DEF PollSeek, PollNothing, KnownInv, stateVars, loopVars
  <1>6. CASE SeekUade
    <2>1. CASE UadeSeek(target) /\ pc' = "render"
      <3>1. target \in Nat
        BY <1>6, NumberFacts, IInvParts DEF SeekUade, SeekInv
      <3>. DEFINE b == BytesAt(target)
      <3>2. b \in Nat /\ b \div 4 \in Nat /\ 4 * (b \div 4) <= b
        <4>1. b \in Nat
          BY <3>1, PositionFacts
        <4>. HIDE DEF b
        <4>. QED
          BY <4>1
      <3>3. total' = b /\ dec' = Least(b \div 4, song.frames)
        BY <2>1 DEF UadeSeek
      <3>4. song.frames \in Nat
        BY NumberFacts, BufferFacts
      <3>. HIDE DEF b
      <3>5. total' >= 4 * dec'
        BY <3>2, <3>3, <3>4 DEF Least
      <3>. QED
        BY <2>1, <3>5 DEF KnownInv
    <2>2. CASE SeekFails /\ UNCHANGED stateVars
      BY <1>3, <2>2 DEF SeekFails, KnownInv, stateVars
    <2>. QED
      BY <1>6, <2>1, <2>2 DEF SeekUade
  <1>7. CASE SeekBack \/ SeekForward
    BY <1>7, IInvParts DEF SeekBack, SeekForward, SeekInv
  <1>8. CASE Play
    <2>1. /\ total' = total + 4 * Frames /\ dec' = dec + Frames
          /\ Frames \in Nat
      BY <1>8, NumberFacts, RenderFacts, BufferFacts DEF Play
    <2>2. total' >= 4 * dec'
      BY <1>3, <2>1
    <2>3. ASSUME pc' = "end", known > 0,
                 status' \in {"TIMEOUT", "DETECT_SILENCE"}
          PROVE  total' >= MaxBytes(known)
      <3>1. Status # "NONE" /\ status' = Status
        BY <1>8, <2>3 DEF Play
      <3>2. dec' = song.frames /\ status' = song.ending
        BY <1>3, <2>1, <3>1, NumberFacts, BufferFacts DEF TuneInv
      <3>3. 4 * song.frames >= MaxBytes(known)
        BY <2>3, <3>2, UadeLimits DEF IInv
      <3>4. MaxBytes(known) \in Nat
        BY <2>3, PositionFacts, TimesAssumption DEF MaxBytes, IInv, Numbers
      <3>5. total' \in Nat /\ dec' \in Nat
        BY <1>3, <2>1
      <3>. QED
        BY <2>2, <3>2, <3>3, <3>4, <3>5
    <2>. QED
      BY <1>1, <1>2, <1>8, <2>2, <2>3 DEF Play, KnownInv
  <1>9. CASE Finish \/ Done \/ UNCHANGED vars
    BY <1>1, <1>2, <1>3, <1>9
    DEF Finish, Done, vars, stateVars, loopVars, KnownInv
  <1>. QED
    BY <1>1, <1>4, <1>5, <1>6, <1>7, <1>8, <1>9 DEF Next

(* A song of known length is played for that long: neither the loop's      *)
(* limit nor uade's own timeouts cut it short.                             *)
THEOREM KnownTimeIsAlwaysPlayed == DSpec => []KnownTimeIsPlayed
  <1>1. DInit => KnownInv
    BY DEF DInit, Init, InitState, KnownInv
  <1>2. IInv /\ TuneInv /\ KnownInv => KnownTimeIsPlayed
    BY DEF TuneInv, KnownInv, KnownTimeIsPlayed
  <1>. QED
    BY <1>1, <1>2, InitTune, TuneStep, KnownStep, DInvariance, PTL DEF DSpec
------------------------------------------------------------------------------
(* A set of numbers has a least one.                                       *)
LEMMA LeastElement ==
  ASSUME NEW S \in SUBSET Nat, S # {}
  PROVE  \E x \in S : \A y \in S : x <= y
  <1>1. PICK x \in S : \A y \in S : ~ (<<y, x>> \in OpToRel(<, Nat))
    BY WFMin, NatLessThanWellFounded
  <1>2. \A y \in S : x <= y
    <2>1. SUFFICES ASSUME NEW y \in S PROVE x <= y
      OBVIOUS
    <2>2. <<y, x>> \in OpToRel(<, Nat) <=> y < x
      BY DEF OpToRel
    <2>3. ~ (y < x)
      BY <1>1, <2>2, Zenon
    <2>. QED
      BY <2>3
  <1>. QED
    BY <1>2

(* Multiples of a number are ordered as their factors.                     *)
LEMMA Multiples ==
  ASSUME NEW B \in Nat \ {0}, NEW a \in Int, NEW b \in Int
  PROVE  /\ a * B \in Int /\ (a \in Nat => a * B \in Nat)
         /\ (a + 1) * B = a * B + B
         /\ a <= b <=> a * B <= b * B
         /\ a < b <=> a * B < b * B
         /\ a = b <=> a * B = b * B
  <1>1. a * B \in Int /\ (a \in Nat => a * B \in Nat) /\ b * B \in Int
    OBVIOUS
  <1>2. (a + 1) * B = a * B + B
    OBVIOUS
  <1>3. ASSUME NEW x \in Int, NEW y \in Int, x < y PROVE x * B < y * B
    <2>1. PICK z \in Nat : y = x + 1 + z
      <3>1. y - x - 1 \in Nat /\ y = x + 1 + (y - x - 1)
        BY <1>3
      <3>. QED
        BY <3>1
    <2>2. y * B = x * B + B + z * B /\ z * B >= 0 /\ x * B \in Int
      BY <2>1
    <2>. QED
      BY <2>2
  <1>4. a < b => a * B < b * B
    BY <1>3
  <1>5. b < a => b * B < a * B
    BY <1>3
  <1>6. a < b \/ a = b \/ b < a
    OBVIOUS
  <1>. QED
    BY <1>1, <1>2, <1>4, <1>5, <1>6

(* Division, rounded down and up.                                          *)
LEMMA Quotients ==
  ASSUME NEW B \in Nat \ {0}, NEW f \in Nat
  PROVE  /\ f \div B \in Nat
         /\ (f \div B) * B <= f /\ f < (f \div B) * B + B
         /\ f % B = 0 <=> f = (f \div B) * B
         /\ CeilDiv(f, B) \in Nat
         /\ f <= CeilDiv(f, B) * B /\ CeilDiv(f, B) * B < f + B
  <1>1. \A g \in Nat : /\ g \div B \in Nat
                       /\ B * (g \div B) <= g /\ g < B * (g \div B) + B
                       /\ B * (g \div B) = (g \div B) * B
    OBVIOUS
  <1>2. f % B = 0 <=> f = B * (f \div B)
    OBVIOUS
  <1>. DEFINE c == (f + B - 1) \div B
  <1>3. f + B - 1 \in Nat
    OBVIOUS
  <1>4. /\ c \in Nat /\ c * B <= f + B - 1 /\ f + B - 1 < c * B + B
    BY <1>1, <1>3
  <1>. HIDE DEF c
  <1>5. f <= c * B /\ c * B < f + B
    BY <1>4, Multiples
  <1>. QED
    BY <1>1, <1>2, <1>4, <1>5 DEF CeilDiv, c

(* Among the buffers before a multiple: the next one is the last, or not.  *)
LEMMA NextMultiple ==
  ASSUME NEW B \in Nat \ {0}, NEW k \in Nat, NEW n \in Nat, k * B < n * B
  PROVE  /\ k + 1 <= n
         /\ Least(B, n * B - k * B) = B
         /\ k * B + B = (k + 1) * B
         /\ k * B + B = n * B <=> k + 1 = n
         /\ k + 1 # n => k * B + B < n * B
  <1>1. /\ k < n /\ (k + 1) * B = k * B + B
        /\ k * B \in Nat /\ n * B \in Nat
    BY Multiples
  <1>2. /\ (k + 1) * B <= n * B
        /\ (k + 1 = n <=> (k + 1) * B = n * B)
        /\ (k + 1 < n <=> (k + 1) * B < n * B)
    BY <1>1, Multiples
  <1>. QED
    BY <1>1, <1>2 DEF Least

------------------------------------------------------------------------------
(* hivelytracker's ticks are whole frames.                                 *)
WholeTicks == FrameLen \in Nat \ {0} /\ FrameLen % 4 = 0

InBuffers == {"libdigibooster3", "libxmp", "protrekkr1", "protrekkr2",
              "v2redux", "st23play", "noisetrekker2"}

(* st23play's and noisetrekker2's context after k buffers. *)
PlayedTo(t, k) == IF k = 0 THEN ContextOf(t) ELSE Buffers(t)[k].at

(* A decoder is at a, d frames into a tune, of which more is to come.      *)
Along(t, frames, a, d) ==
  /\ t.player \in {"uade", "libopenmpt", "libxmp", "protrekkr1",
                   "protrekkr2", "v2redux"} => a = d
  /\ t.player = "hivelytracker" =>
       a \in 0 .. t.ticks /\ d = a * (FrameLen \div 4)
  /\ t.player = "libdigibooster3" => a = [mixed |-> d, songend |-> FALSE]
  /\ t.player \in {"st23play", "noisetrekker2"} =>
       \E k \in 0 .. Horizon : d = k * BufFrames /\ a = PlayedTo(t, k)
  /\ t.player \in InBuffers =>
       /\ \E k \in Nat : d = k * BufFrames
       /\ d < frames \/ d = 0 \/ (t.player = "libdigibooster3" /\ t.stops)

OnItsWay ==
  /\ TypeOKState
  /\ tune \in Tunes /\ song = SongOf(tune)
  /\ Along(tune, song.frames, at, dec)

(* The next buffer is the song's, and leaves the decoder on its way.       *)
Over == dec + Frames = song.frames /\ (song.drained => Frames = 0)

GoesOn ==
  /\ Buffer.bytes = 4 * Frames
  /\ Buffer.ended <=> Over
  /\ ~Over => Along(tune, song.frames, Buffer.at, dec + Frames)

(* What SongOf says of a tune.                                             *)
LEMMA SongFacts ==
  ASSUME OnItsWay
  PROVE  /\ song.frames = FramesOf(tune) /\ song.frames \in Nat
         /\ dec \in 0 .. song.frames
         /\ song.uade <=> tune.player = "uade"
         /\ tune.player # "hivelytracker" => song.chunk = BufFrames
         /\ tune.player \notin {"uade", "libopenmpt", "libdigibooster3"} =>
              ~song.drained
         /\ song.ending = IF tune.player = "uade" THEN UadeStatus(tune)
                                                  ELSE "PLAYER"
         /\ song.cuts = {}
  <1>1. song.frames = FramesOf(tune)
    BY Zenon DEF OnItsWay, SongOf
  <1>2. song.uade = (tune.player = "uade")
    BY Zenon DEF OnItsWay, SongOf
  <1>3. tune.player # "hivelytracker" => song.chunk = BufFrames
    BY Zenon DEF OnItsWay, SongOf
  <1>4. song.ending = IF tune.player = "uade" THEN UadeStatus(tune)
                                              ELSE "PLAYER"
    BY Zenon DEF OnItsWay, SongOf
  <1>5. song.drained
          = CASE tune.player = "uade" -> tune.drained
              [] tune.player = "libopenmpt" -> TRUE
              [] tune.player = "libdigibooster3" ->
                   tune.stops /\ tune.frames % BufFrames = 0
              [] OTHER -> FALSE
    BY Zenon DEF OnItsWay, SongOf
  <1>6. tune.player \notin {"uade", "libopenmpt", "libdigibooster3"} =>
          ~song.drained
    BY <1>5
  <1>7. dec \in 0 .. song.frames /\ song.frames \in Nat
    BY BufferFacts DEF OnItsWay, TypeOKState
  <1>8. song.cuts = {}
    BY Zenon DEF OnItsWay, SongOf
  <1>. QED
    BY <1>1, <1>2, <1>3, <1>4, <1>6, <1>7, <1>8

LEMMA UadeGoesOn ==
  ASSUME OnItsWay, tune.player = "uade"
  PROVE  GoesOn
  <1>1. Buffer = UadeRender(tune, dec)
    BY DEF Buffer, RenderBy, OnItsWay, Along
  <1>2. /\ song.frames = UadeFrames(tune) /\ song.chunk = BufFrames
        /\ song.frames \in Nat /\ dec \in 0 .. song.frames
    BY SongFacts DEF FramesOf
  <1>3. song.drained = tune.drained
    BY DEF OnItsWay, SongOf
  <1>4. Frames = Least(BufFrames, UadeFrames(tune) - dec)
    BY <1>2 DEF Frames
  <1>5. /\ Buffer.bytes = 4 * Frames /\ Buffer.at = dec + Frames
        /\ Buffer.ended <=> Over
    BY <1>1, <1>2, <1>3, <1>4, Zenon DEF UadeRender, Over
  <1>. QED
    BY <1>5 DEF GoesOn, Along, InBuffers

LEMMA OpenmptGoesOn ==
  ASSUME OnItsWay, tune.player = "libopenmpt"
  PROVE  GoesOn
  <1>1. Buffer = OpenmptRender(tune, dec)
    BY DEF Buffer, RenderBy, OnItsWay, Along
  <1>2. /\ song.frames = tune.frames /\ song.chunk = BufFrames
        /\ song.frames \in Nat /\ dec \in 0 .. song.frames
    BY SongFacts DEF FramesOf
  <1>3. song.drained
    BY DEF OnItsWay, SongOf
  <1>4. Frames = Least(BufFrames, tune.frames - dec)
    BY <1>2 DEF Frames
  <1>5. /\ Buffer.bytes = 4 * Frames /\ Buffer.at = dec + Frames
        /\ Buffer.ended <=> Frames = 0
    BY <1>1, <1>4, Zenon DEF OpenmptRender
  <1>6. Frames = 0 => dec + Frames = song.frames
    BY <1>2, <1>4, BufAssumption DEF Least
  <1>. QED
    BY <1>3, <1>5, <1>6 DEF GoesOn, Along, InBuffers, Over

LEMMA HivelyGoesOn ==
  ASSUME OnItsWay, WholeTicks, tune.player = "hivelytracker"
  PROVE  GoesOn
  <1>. DEFINE q == FrameLen \div 4
              c == MixBufSize \div FrameLen
              T == tune.ticks
              m == Least(at + c, T)
  <1>1. q \in Nat \ {0} /\ FrameLen = 4 * q
    BY DEF WholeTicks
  <1>2. c \in Nat
    BY BufAssumption, DivInt DEF WholeTicks, MixBufSize
  <1>3. T \in Nat \ {0}
    BY DEF OnItsWay, Tunes
  <1>4. at \in 0 .. T /\ dec = at * q
    BY DEF OnItsWay, Along
  <1>5. song.frames = T * q /\ song.chunk = c * q /\ ~song.drained
    <2>1. FramesOf(tune) = T * q
      BY DEF FramesOf
    <2>2. song.chunk = c * q
      BY Zenon DEF OnItsWay, SongOf
    <2>. QED
      BY <2>1, <2>2, SongFacts
  <1>6. Buffer = [at |-> m, bytes |-> (m - at) * FrameLen,
                  ended |-> m = tune.ticks]
    BY DEF Buffer, RenderBy, HivelyRender
  <1>7. Frames = Least(c * q, T * q - at * q)
    BY <1>4, <1>5 DEF Frames
  <1>8. Along(tune, song.frames, m, m * q) <=> m \in 0 .. T
    BY DEF Along, InBuffers
  <1>. HIDE DEF q, c, T
  <1>9. /\ m \in 0 .. T
        /\ c * q \in Nat /\ T * q \in Nat /\ at * q \in Nat
        /\ (at + c) * q = at * q + c * q
        /\ m * q = T * q <=> m = T
    BY <1>1, <1>2, <1>3, <1>4, Multiples DEF Least
  <1>10. m * q = at * q + Frames
    <2>1. CASE at + c < T
      <3>1. (at + c) * q < T * q
        BY <1>1, <1>2, <1>3, <1>4, <2>1, Multiples
      <3>. QED
        BY <1>7, <1>9, <2>1, <3>1 DEF Least
    <2>2. CASE ~(at + c < T)
      <3>1. T * q <= (at + c) * q
        BY <1>1, <1>2, <1>3, <1>4, <2>2, Multiples
      <3>. QED
        BY <1>7, <1>9, <2>2, <3>1 DEF Least
    <2>. QED
      BY <2>1, <2>2
  <1>11. (m - at) * FrameLen = 4 * (m * q - at * q)
    BY <1>1, <1>4, <1>9
  <1>12. Frames \in Int
    BY <1>7, <1>9 DEF Least
  <1>. HIDE DEF m
  <1>13. /\ Buffer.at = m /\ Buffer.bytes = 4 * Frames
         /\ Buffer.ended <=> m = T
    <2>1. (m - at) * FrameLen = 4 * Frames
      BY <1>9, <1>10, <1>11, <1>12
    <2>. QED
      BY <1>6, <2>1 DEF T
  <1>14. Over <=> m = T
    BY <1>4, <1>5, <1>9, <1>10 DEF Over
  <1>15. dec + Frames = m * q
    BY <1>4, <1>10
  <1>. QED
    BY <1>8, <1>9, <1>13, <1>14, <1>15 DEF GoesOn

(* A player of whole buffers plays one more of those that are left.        *)
LEMMA WholeBuffer ==
  ASSUME OnItsWay, tune.player \in InBuffers \ {"libdigibooster3"},
         NEW n \in Nat \ {0}, song.frames = n * BufFrames
  PROVE  \E k \in Nat :
           /\ dec = k * BufFrames /\ k + 1 <= n
           /\ Frames = BufFrames /\ dec + Frames = (k + 1) * BufFrames
           /\ Over <=> k + 1 = n
           /\ ~Over => dec + Frames < song.frames
  <1>1. PICK k \in Nat : dec = k * BufFrames
    BY DEF OnItsWay, Along
  <1>2. dec < song.frames \/ dec = 0
    BY DEF OnItsWay, Along
  <1>3. 0 < n * BufFrames
    BY Multiples, BufAssumption
  <1>4. k * BufFrames < n * BufFrames
    BY <1>1, <1>2, <1>3
  <1>5. /\ k + 1 <= n
        /\ Least(BufFrames, n * BufFrames - k * BufFrames) = BufFrames
        /\ k * BufFrames + BufFrames = (k + 1) * BufFrames
        /\ k * BufFrames + BufFrames = n * BufFrames <=> k + 1 = n
        /\ k + 1 # n => k * BufFrames + BufFrames < n * BufFrames
    BY <1>4, NextMultiple, BufAssumption
  <1>6. song.chunk = BufFrames /\ ~song.drained
    BY SongFacts DEF InBuffers
  <1>7. Frames = BufFrames
    BY <1>1, <1>5, <1>6 DEF Frames
  <1>8. Over <=> k + 1 = n
    BY <1>1, <1>5, <1>6, <1>7 DEF Over
  <1>. QED
    BY <1>1, <1>5, <1>7, <1>8

LEMMA V2GoesOn ==
  ASSUME OnItsWay, tune.player = "v2redux"
  PROVE  GoesOn
  <1>. DEFINE f == tune.frames
              g == IF f = 0 THEN 1 ELSE f
              n == CeilDiv(g, BufFrames)
  <1>1. f \in Nat /\ g \in Nat \ {0}
    BY DEF OnItsWay, Tunes
  <1>2. n \in Nat /\ g <= n * BufFrames /\ n * BufFrames < g + BufFrames
    BY <1>1, Quotients, BufAssumption
  <1>3. song.frames = BufFrames * n
    <2>1. FramesOf(tune) = BufFrames * n
      BY DEF FramesOf
    <2>. QED
      BY <2>1, SongFacts
  <1>4. Buffer = [at |-> dec + BufFrames, bytes |-> MixBufSize,
                  ended |-> dec + BufFrames >= f]
    BY DEF OnItsWay, Along, Buffer, RenderBy, V2Render
  <1>5. f <= g /\ (f # g => g = 1)
    BY <1>1
  <1>. HIDE DEF f, g, n
  <1>6. n # 0 /\ song.frames = n * BufFrames
    BY <1>1, <1>2, <1>3, BufAssumption
  <1>7. PICK k \in Nat :
          /\ dec = k * BufFrames /\ k + 1 <= n
          /\ Frames = BufFrames /\ dec + Frames = (k + 1) * BufFrames
          /\ Over <=> k + 1 = n
          /\ ~Over => dec + Frames < song.frames
    BY <1>2, <1>6, WholeBuffer DEF InBuffers
  <1>8. dec + BufFrames >= f <=> k + 1 = n
    <2>1. CASE k + 1 = n
      <3>1. dec + BufFrames = n * BufFrames /\ n * BufFrames \in Nat
        BY <1>2, <1>7, <2>1, Multiples, BufAssumption
      <3>. QED
        BY <1>1, <1>2, <1>5, <2>1, <3>1
    <2>2. CASE k + 1 # n
      <3>1. k + 1 < n /\ k + 1 + 1 <= n
        BY <1>2, <1>7, <2>2
      <3>2. (k + 1 + 1) * BufFrames <= n * BufFrames
        BY <1>2, <3>1, Multiples, BufAssumption
      <3>3. /\ (k + 1 + 1) * BufFrames = (k + 1) * BufFrames + BufFrames
            /\ (k + 1) * BufFrames \in Nat /\ n * BufFrames \in Nat
            /\ BufFrames <= (k + 1) * BufFrames
        <4>1. /\ (k + 1 + 1) * BufFrames = (k + 1) * BufFrames + BufFrames
              /\ (k + 1) * BufFrames = k * BufFrames + BufFrames
              /\ k * BufFrames \in Nat /\ (k + 1) * BufFrames \in Nat
              /\ n * BufFrames \in Nat
          BY <1>2, Multiples, BufAssumption
        <4>. QED
          BY <4>1, BufAssumption
      <3>4. (k + 1) * BufFrames < g
        BY <1>1, <1>2, <3>2, <3>3, BufAssumption
      <3>. QED
        BY <1>1, <1>5, <1>7, <2>2, <3>3, <3>4, BufAssumption
    <2>. QED
      BY <2>1, <2>2
  <1>9. MixBufSize = 4 * Frames
    BY <1>7 DEF MixBufSize
  <1>10. /\ Buffer.at = dec + Frames /\ Buffer.bytes = 4 * Frames
         /\ Buffer.ended <=> Over
    BY <1>4, <1>7, <1>8, <1>9
  <1>11. \E j \in Nat : dec + Frames = j * BufFrames
    BY <1>7
  <1>. QED
    BY <1>7, <1>10, <1>11 DEF GoesOn, Along, InBuffers

(* Every buffer lasts a ms at least.                                       *)
LEMMA BuffersLast ==
  ASSUME NEW j \in Nat
  PROVE  j <= Millis(j * MixBufSize)
  <1>. DEFINE M == MixBufSize * 1000
  <1>1. M \in Nat /\ BytesPerSec <= M /\ BytesPerSec \in Nat \ {0}
    BY FreqAssumption, BufAssumption, BufLasts, PositionFacts
    DEF MixBufSize, BytesPerSec
  <1>2. MixBufSize \in Nat
    BY BufAssumption DEF MixBufSize
  <1>3. (j * MixBufSize) * 1000 = j * M
    BY <1>2
  <1>. HIDE DEF M
  <1>4. j * BytesPerSec <= j * M
    <2>1. PICK z \in Nat : M = BytesPerSec + z
      <3>1. M - BytesPerSec \in Nat /\ M = BytesPerSec + (M - BytesPerSec)
        BY <1>1
      <3>. QED
        BY <3>1
    <2>2. /\ j * M = j * BytesPerSec + j * z /\ j * z >= 0
          /\ j * BytesPerSec \in Int
      BY <1>1, <2>1
    <2>. QED
      BY <2>2
  <1>5. (j * BytesPerSec) \div BytesPerSec <= (j * M) \div BytesPerSec
    BY <1>1, <1>4, DivMono
  <1>6. (j * BytesPerSec) \div BytesPerSec = j
    BY <1>1
  <1>. QED
    BY <1>3, <1>5, <1>6 DEF Millis

(* The buffers of a length in ms are the first that reach it.              *)
LEMMA PtkBuffersReach ==
  ASSUME NEW t, t.length \in Nat
  PROVE  LET n == PtkBuffers(t)
             Reaches(j) == Millis((j - 1) * MixBufSize)
                             + Millis(MixBufSize) >= t.length
         IN  /\ n \in 1 .. t.length + 1 /\ Reaches(n)
             /\ \A j \in 1 .. n - 1 : ~Reaches(j)
  <1>. DEFINE Reaches(j) == Millis((j - 1) * MixBufSize)
                              + Millis(MixBufSize) >= t.length
              S == {j \in 1 .. t.length + 1 : Reaches(j)}
              First(n) == /\ Reaches(n)
                          /\ \A k \in 1 .. n - 1 :
                               Millis((k - 1) * MixBufSize)
                                 + Millis(MixBufSize) < t.length
  <1>1. /\ MixBufSize \in Nat
        /\ \A j \in Nat \ {0} : Millis((j - 1) * MixBufSize) \in Nat
        /\ Millis(MixBufSize) \in Nat
    <2>1. MixBufSize \in Nat
      BY BufAssumption DEF MixBufSize
    <2>2. ASSUME NEW j \in Nat \ {0}
          PROVE  Millis((j - 1) * MixBufSize) \in Nat
      <3>1. (j - 1) * MixBufSize \in Nat
        BY <2>1, ProductInNat
      <3>. QED
        BY <3>1, PositionFacts
    <2>. QED
      BY <2>1, <2>2, PositionFacts
  <1>2. t.length + 1 \in S
    <2>1. t.length <= Millis(t.length * MixBufSize)
      BY BuffersLast
    <2>2. t.length + 1 - 1 = t.length /\ t.length + 1 \in 1 .. t.length + 1
      OBVIOUS
    <2>3. Millis(t.length * MixBufSize) \in Nat
      BY <1>1, ProductInNat, PositionFacts
    <2>4. Reaches(t.length + 1)
      BY <1>1, <2>1, <2>2, <2>3
    <2>. HIDE DEF Reaches
    <2>. QED
      BY <2>2, <2>4
  <1>3. PICK n \in S : \A j \in S : n <= j
    <2>1. S \in SUBSET Nat
      OBVIOUS
    <2>. HIDE DEF S
    <2>. QED
      BY <1>2, <2>1, LeastElement
  <1>4. n \in 1 .. t.length + 1 /\ First(n)
    <2>1. n \in 1 .. t.length + 1 /\ Reaches(n)
      BY <1>3
    <2>2. ASSUME NEW k \in 1 .. n - 1 PROVE ~Reaches(k)
      <3>1. k \in 1 .. t.length + 1 /\ ~(n <= k)
        BY <2>1
      <3>. HIDE DEF Reaches
      <3>. QED
        BY <1>3, <3>1
    <2>3. ASSUME NEW k \in 1 .. n - 1
          PROVE  Millis((k - 1) * MixBufSize) + Millis(MixBufSize) < t.length
      <3>1. ~Reaches(k) /\ k \in Nat \ {0}
        BY <2>1, <2>2
      <3>. QED
        BY <1>1, <3>1
    <2>. QED
      BY <2>1, <2>3
  <1>5. PtkBuffers(t) = CHOOSE m \in 1 .. t.length + 1 : First(m)
    BY DEF PtkBuffers
  <1>. HIDE DEF First
  <1>6. PtkBuffers(t) \in 1 .. t.length + 1 /\ First(PtkBuffers(t))
    BY <1>4, <1>5
  <1>. USE DEF First
  <1>7. ASSUME NEW j \in 1 .. PtkBuffers(t) - 1 PROVE ~Reaches(j)
    <2>1. Millis((j - 1) * MixBufSize) + Millis(MixBufSize) < t.length
      BY <1>6
    <2>2. j \in Nat \ {0}
      BY <1>6
    <2>. QED
      BY <1>1, <2>1, <2>2
  <1>. QED
    BY <1>6, <1>7

LEMMA PtkGoesOn ==
  ASSUME OnItsWay, tune.player \in {"protrekkr1", "protrekkr2"},
         pos = Millis(4 * dec)
  PROVE  GoesOn
  <1>. DEFINE n == PtkBuffers(tune)
              Reaches(j) == Millis((j - 1) * MixBufSize)
                              + Millis(MixBufSize) >= tune.length
  <1>1. tune.length \in Nat
    BY DEF OnItsWay, Tunes
  <1>2. n \in 1 .. tune.length + 1 /\ Reaches(n)
        /\ \A j \in 1 .. n - 1 : ~Reaches(j)
    BY <1>1, PtkBuffersReach
  <1>3. song.frames = n * BufFrames
    <2>1. FramesOf(tune) = BufFrames * n
      BY DEF FramesOf
    <2>2. n \in Nat
      BY <1>1, <1>2
    <2>. HIDE DEF n
    <2>. QED
      BY <2>1, <2>2, SongFacts, BufAssumption
  <1>4. Buffer = [at |-> dec + BufFrames, bytes |-> MixBufSize,
                  ended |-> pos + Millis(MixBufSize) >= tune.length]
    BY DEF OnItsWay, Along, Buffer, RenderBy, PtkRender
  <1>. HIDE DEF n
  <1>5. n \in Nat \ {0}
    BY <1>1, <1>2
  <1>6. PICK k \in Nat :
          /\ dec = k * BufFrames /\ k + 1 <= n
          /\ Frames = BufFrames /\ dec + Frames = (k + 1) * BufFrames
          /\ Over <=> k + 1 = n
          /\ ~Over => dec + Frames < song.frames
    BY <1>3, <1>5, WholeBuffer DEF InBuffers
  <1>7. 4 * dec = (k + 1 - 1) * MixBufSize
    BY <1>6, BufAssumption DEF MixBufSize
  <1>8. Buffer.ended <=> Reaches(k + 1)
    <2>1. Buffer.ended <=> pos + Millis(MixBufSize) >= tune.length
      BY <1>4
    <2>2. pos = Millis((k + 1 - 1) * MixBufSize)
      BY <1>7, Zenon
    <2>. QED
      BY <2>1, <2>2
  <1>9. Reaches(k + 1) <=> k + 1 = n
    <2>1. k + 1 # n => k + 1 \in 1 .. n - 1
      BY <1>5, <1>6
    <2>. HIDE DEF Reaches
    <2>. QED
      BY <1>2, <2>1
  <1>10. MixBufSize = 4 * Frames
    BY <1>6 DEF MixBufSize
  <1>11. /\ Buffer.at = dec + Frames /\ Buffer.bytes = 4 * Frames
         /\ Buffer.ended <=> Over
    BY <1>4, <1>6, <1>8, <1>9, <1>10
  <1>12. \E j \in Nat : dec + Frames = j * BufFrames
    BY <1>6
  <1>. QED
    BY <1>6, <1>11, <1>12 DEF GoesOn, Along, InBuffers

(* libdigibooster3 calls back in the buffer that reaches beyond the end.   *)
LEMMA Db3GoesOn ==
  ASSUME OnItsWay, tune.player = "libdigibooster3"
  PROVE  GoesOn
  <1>. DEFINE f == tune.frames
              past == dec + BufFrames > f
              m == IF past /\ tune.stops THEN f - dec ELSE BufFrames
              n == f \div BufFrames
  <1>1. f \in Nat \ {0} /\ tune.stops \in BOOLEAN
    BY DEF OnItsWay, Tunes
  <1>2. PICK k \in Nat : dec = k * BufFrames
    BY DEF OnItsWay, Along, InBuffers
  <1>3. /\ n \in Nat /\ n * BufFrames <= f /\ f < n * BufFrames + BufFrames
        /\ f % BufFrames = 0 <=> f = n * BufFrames
    BY <1>1, Quotients, BufAssumption
  <1>4. song.frames = IF tune.stops THEN f ELSE BufFrames * (n + 1)
    <2>1. FramesOf(tune) = IF tune.stops THEN f ELSE BufFrames * (n + 1)
      BY DEF FramesOf
    <2>. QED
      BY <2>1, SongFacts
  <1>5. song.drained <=> tune.stops /\ f % BufFrames = 0
    BY DEF OnItsWay, SongOf
  <1>6. /\ dec \in 0 .. song.frames /\ song.chunk = BufFrames
        /\ tune.stops \/ dec < song.frames \/ dec = 0
    BY SongFacts DEF OnItsWay, Along, InBuffers
  <1>7. /\ at = [mixed |-> dec, songend |-> FALSE]
        /\ Buffer = Db3Render(tune, at)
    BY DEF OnItsWay, Along, Buffer, RenderBy
  <1>8. /\ Buffer.at = [mixed |-> dec + m, songend |-> past]
        /\ Buffer.bytes = 4 * m
        /\ Buffer.ended <=> past \/ m < BufFrames
        /\ ~past => Buffer.at = [mixed |-> dec + m, songend |-> FALSE]
    <2>1. at.mixed = dec /\ at.songend = FALSE
      BY <1>7
    <2>3. Db3Render(tune, at)
            = [at    |-> [mixed |-> at.mixed + m,
                          songend |-> at.songend \/ past],
               bytes |-> 4 * m,
               ended |-> at.songend \/ past \/ m < BufFrames]
      BY <2>1 DEF Db3Render
    <2>4. past \in BOOLEAN
      OBVIOUS
    <2>. HIDE DEF past, m
    <2>5. (at.songend \/ past) = past
      BY <2>1, <2>4, Zenon
    <2>6. ~past => past = FALSE
      BY <2>4, Zenon
    <2>7. Buffer = [at    |-> [mixed |-> at.mixed + m,
                              songend |-> at.songend \/ past],
                   bytes |-> 4 * m,
                   ended |-> at.songend \/ past \/ m < BufFrames]
      <3>1. Buffer = Db3Render(tune, at)
        BY <1>7
      <3>. QED
        BY <2>3, <3>1, Zenon
    <2>8. /\ Buffer.ended <=> at.songend \/ past \/ m < BufFrames
          /\ Buffer.bytes = 4 * m
          /\ Buffer.at = [mixed |-> at.mixed + m,
                          songend |-> at.songend \/ past]
      BY <2>7, Zenon
    <2>9. Buffer.at = [mixed |-> dec + m, songend |-> past]
      BY <2>1, <2>5, <2>8, Zenon
    <2>. QED
      BY <2>1, <2>6, <2>7, <2>8, <2>9, Zenon
  <1>. HIDE DEF f, n
  <1>9. /\ dec + BufFrames = (k + 1) * BufFrames /\ dec \in Nat
        /\ (k + 1) * BufFrames \in Nat
    BY <1>2, Multiples, BufAssumption
  <1>10. /\ n * BufFrames \in Nat
         /\ (n + 1) * BufFrames = n * BufFrames + BufFrames
         /\ BufFrames * (n + 1) = (n + 1) * BufFrames
    BY <1>3, Multiples, BufAssumption
  <1>11. CASE tune.stops
    <2>1. song.frames = f /\ Frames = Least(BufFrames, f - dec)
      BY <1>4, <1>6, <1>11 DEF Frames
    <2>2. m = Frames /\ Frames \in Nat
      BY <1>1, <1>6, <1>9, <1>11, <2>1, BufAssumption DEF Least
    <2>3. past => dec + Frames = f
      BY <1>1, <1>6, <1>9, <2>1, BufAssumption DEF Least
    <2>4. ~past => Frames = BufFrames
      BY <1>1, <1>6, <1>9, <2>1, BufAssumption DEF Least
    <2>5. past /\ f = n * BufFrames => Frames = 0
      <3>. SUFFICES ASSUME past, f = n * BufFrames PROVE Frames = 0
        OBVIOUS
      <3>1. n * BufFrames < (k + 1) * BufFrames
        BY <1>1, <1>9, BufAssumption
      <3>2. n < k + 1
        BY <1>3, <3>1, Multiples, BufAssumption
      <3>3. n <= k
        BY <1>3, <3>2
      <3>4. n * BufFrames <= k * BufFrames
        BY <1>3, <3>3, Multiples, BufAssumption
      <3>5. dec = f
        BY <1>1, <1>2, <1>6, <2>1, <3>4
      <3>. QED
        BY <1>1, <2>1, <3>5, BufAssumption DEF Least
    <2>6. ~past /\ dec + BufFrames = f => f = n * BufFrames
      <3>. SUFFICES ASSUME dec + BufFrames = f PROVE f = n * BufFrames
        OBVIOUS
      <3>1. (k + 1) * BufFrames < (n + 1) * BufFrames
        BY <1>1, <1>3, <1>9, <1>10
      <3>2. k + 1 < n + 1
        BY <1>3, <3>1, Multiples, BufAssumption
      <3>3. k + 1 <= n
        BY <1>3, <3>2
      <3>4. (k + 1) * BufFrames <= n * BufFrames
        BY <1>3, <3>3, Multiples, BufAssumption
      <3>. QED
        BY <1>1, <1>3, <1>9, <1>10, <3>4
    <2>7. song.drained <=> f = n * BufFrames
      BY <1>3, <1>5, <1>11
    <2>8. Over <=> past
      <3>1. past => Over
        BY <2>1, <2>3, <2>5, <2>7 DEF Over
      <3>2. ~past => ~Over
        <4>. SUFFICES ASSUME ~past, Over PROVE FALSE
          OBVIOUS
        <4>1. Frames = BufFrames /\ dec + BufFrames = f
          BY <2>1, <2>4 DEF Over
        <4>2. song.drained
          BY <2>6, <2>7, <4>1
        <4>. QED
          BY <4>1, <4>2, BufAssumption DEF Over
      <3>. QED
        BY <3>1, <3>2
    <2>9. ~past => \E j \in Nat : dec + Frames = j * BufFrames
      BY <1>9, <2>4
    <2>10. past \/ m < BufFrames <=> past
      BY <2>2, <2>4, BufAssumption
    <2>. HIDE DEF past, m
    <2>. QED
      BY <1>8, <1>11, <2>2, <2>8, <2>9, <2>10 DEF GoesOn, Along, InBuffers
  <1>12. CASE ~tune.stops
    <2>1. song.frames = (n + 1) * BufFrames /\ ~song.drained
      BY <1>4, <1>5, <1>10, <1>12
    <2>2. m = BufFrames
      BY <1>12
    <2>3. 0 < (n + 1) * BufFrames
      BY <1>10, BufAssumption
    <2>4. k * BufFrames < (n + 1) * BufFrames
      BY <1>2, <1>6, <1>12, <2>1, <2>3
    <2>5. /\ k + 1 <= n + 1
          /\ Least(BufFrames, (n + 1) * BufFrames - k * BufFrames) = BufFrames
          /\ k * BufFrames + BufFrames = (n + 1) * BufFrames <=> k + 1 = n + 1
          /\ k + 1 # n + 1 =>
               k * BufFrames + BufFrames < (n + 1) * BufFrames
      <3>1. n + 1 \in Nat
        BY <1>3
      <3>. QED
        BY <2>4, <3>1, NextMultiple, BufAssumption
    <2>6. Frames = BufFrames
      BY <1>2, <1>6, <2>1, <2>5 DEF Frames
    <2>7. Over <=> k + 1 = n + 1
      BY <1>2, <2>1, <2>5, <2>6 DEF Over
    <2>8. past <=> k + 1 = n + 1
      <3>1. CASE k + 1 = n + 1
        BY <1>1, <1>2, <1>3, <1>9, <1>10, <3>1
      <3>2. CASE k + 1 # n + 1
        <4>1. k + 1 <= n
          BY <1>3, <2>5, <3>2
        <4>2. (k + 1) * BufFrames <= n * BufFrames
          BY <1>3, <4>1, Multiples, BufAssumption
        <4>. QED
          BY <1>1, <1>3, <1>9, <1>10, <3>2, <4>2
      <3>. QED
        BY <3>1, <3>2
    <2>9. ~Over => dec + Frames < song.frames
      BY <1>2, <2>1, <2>5, <2>6, <2>7
    <2>10. \E j \in Nat : dec + Frames = j * BufFrames
      BY <1>9, <2>6
    <2>11. past \/ m < BufFrames <=> past
      BY <2>2, BufAssumption
    <2>. HIDE DEF past, m
    <2>. QED
      BY <1>8, <1>12, <2>2, <2>6, <2>7, <2>8, <2>9, <2>10, <2>11
      DEF GoesOn, Along, InBuffers
  <1>. QED
    BY <1>1, <1>11, <1>12

(* libxmp: by its duration, or a buffer after libxmp has ended.            *)
LEMMA XmpGoesOn ==
  ASSUME OnItsWay, tune.player = "libxmp", total = 4 * dec
  PROVE  GoesOn
  <1>. DEFINE f == tune.frames
              C == CeilDiv((tune.duration * BytesPerSec) \div 1000, 4)
              c == CeilDiv(f, BufFrames)
              left == XmpBytes(tune) - total
              render == Least(left, MixBufSize)
  <1>1. f \in Nat /\ tune.duration \in Nat
    BY DEF OnItsWay, Tunes
  <1>2. C \in Nat
    <2>1. tune.duration * BytesPerSec \in Nat
      BY <1>1, PositionFacts, ProductInNat
    <2>2. (tune.duration * BytesPerSec) \div 1000 \in Nat
      BY <2>1, DivInt
    <2>. HIDE DEF C
    <2>. QED
      BY <2>2, Quotients DEF C
  <1>3. c \in Nat /\ f <= c * BufFrames /\ c * BufFrames < f + BufFrames
    BY <1>1, Quotients, BufAssumption
  <1>4. XmpBytes(tune) = 4 * C
    BY DEF XmpBytes
  <1>5. song.frames = Least(XmpBytes(tune) \div 4, BufFrames * (c + 1))
    <2>1. FramesOf(tune)
            = Least(XmpBytes(tune) \div 4, BufFrames * (c + 1))
      BY DEF FramesOf
    <2>. QED
      BY <2>1, SongFacts
  <1>6. PICK k \in Nat : dec = k * BufFrames
    BY DEF OnItsWay, Along, InBuffers
  <1>7. /\ at = dec /\ song.chunk = BufFrames /\ ~song.drained
        /\ dec \in 0 .. song.frames /\ song.frames \in Nat
        /\ dec < song.frames \/ dec = 0
    BY SongFacts DEF OnItsWay, Along, InBuffers
  <1>8. Buffer = [at |-> dec + (render \div 4), bytes |-> render,
                  ended |-> left <= MixBufSize \/ dec >= f]
    BY <1>7 DEF Buffer, RenderBy, XmpRender
  <1>. HIDE DEF f, C, c
  <1>9. song.frames = Least(C, BufFrames * (c + 1))
    <2>1. (4 * C) \div 4 = C
      BY <1>2
    <2>. QED
      BY <1>4, <1>5, <2>1
  <1>10. /\ (k + 1) * BufFrames = dec + BufFrames /\ dec \in Nat
         /\ BufFrames * (c + 1) = c * BufFrames + BufFrames
         /\ c * BufFrames \in Nat
         /\ (k + 1) * BufFrames \in Nat
    <2>1. /\ (k + 1) * BufFrames = k * BufFrames + BufFrames
          /\ (c + 1) * BufFrames = c * BufFrames + BufFrames
          /\ k * BufFrames \in Nat /\ c * BufFrames \in Nat
      BY <1>3, Multiples, BufAssumption
    <2>2. BufFrames * (c + 1) = (c + 1) * BufFrames
      BY <1>3, BufAssumption
    <2>. QED
      BY <1>6, <2>1, <2>2, BufAssumption
  <1>11. dec >= f <=> c <= k
    <2>1. CASE c <= k
      <3>1. c * BufFrames <= k * BufFrames
        BY <1>3, <2>1, Multiples, BufAssumption
      <3>. QED
        BY <1>1, <1>3, <1>6, <1>10, <2>1, <3>1
    <2>2. CASE ~(c <= k)
      <3>1. k + 1 <= c
        BY <1>3, <2>2
      <3>2. (k + 1) * BufFrames <= c * BufFrames
        BY <1>3, <3>1, Multiples, BufAssumption
      <3>. QED
        BY <1>1, <1>3, <1>10, <2>2, <3>2, BufAssumption
    <2>. QED
      BY <2>1, <2>2
  <1>12. dec < c * BufFrames + BufFrames /\ (c <= k => dec = c * BufFrames)
    <2>1. dec < c * BufFrames + BufFrames
      BY <1>2, <1>7, <1>9, <1>10, BufAssumption DEF Least
    <2>2. ASSUME c <= k PROVE dec = c * BufFrames
      <3>1. k * BufFrames < (c + 1) * BufFrames
        BY <1>3, <1>6, <1>10, <2>1, BufAssumption
      <3>2. k < c + 1
        BY <1>3, <3>1, Multiples, BufAssumption
      <3>3. k = c
        BY <1>3, <2>2, <3>2
      <3>. QED
        BY <1>6, <3>3
    <2>. QED
      BY <2>1, <2>2
  <1>13. c > k => dec + BufFrames <= c * BufFrames
    <2>1. c > k => k + 1 <= c
      BY <1>3
    <2>2. k + 1 <= c => (k + 1) * BufFrames <= c * BufFrames
      BY <1>3, Multiples, BufAssumption
    <2>. QED
      BY <1>10, <2>1, <2>2
  <1>14. left = 4 * (C - dec) /\ dec <= C
    BY <1>2, <1>4, <1>7, <1>9, <1>10, BufAssumption DEF Least
  <1>15. Frames = Least(BufFrames, song.frames - dec)
    BY <1>7 DEF Frames
  <1>16. render = 4 * Frames /\ Frames \in Nat
    BY <1>2, <1>3, <1>7, <1>9, <1>10, <1>12, <1>13, <1>14, <1>15,
       BufAssumption
    DEF MixBufSize, Least
  <1>17. left <= MixBufSize \/ c <= k <=> dec + Frames = song.frames
    BY <1>2, <1>3, <1>7, <1>9, <1>10, <1>12, <1>13, <1>14, <1>15,
       BufAssumption
    DEF MixBufSize, Least
  <1>18. dec + Frames # song.frames =>
           Frames = BufFrames /\ dec + Frames < song.frames
    BY <1>7, <1>15, BufAssumption DEF Least
  <1>19. render \div 4 = Frames
    BY <1>16
  <1>. HIDE DEF left, render
  <1>20. /\ Buffer.at = dec + Frames /\ Buffer.bytes = 4 * Frames
         /\ Buffer.ended <=> Over
    BY <1>7, <1>8, <1>11, <1>16, <1>17, <1>19 DEF Over
  <1>21. ~Over => /\ dec + Frames < song.frames
                  /\ \E j \in Nat : dec + Frames = j * BufFrames
    BY <1>7, <1>10, <1>18 DEF Over
  <1>. QED
    BY <1>20, <1>21 DEF GoesOn, Along, InBuffers
------------------------------------------------------------------------------
(* st23play and noisetrekker2 play each buffer from where the last one     *)
(* ended.                                                                  *)
LEMMA BuffersFollow ==
  ASSUME NEW t
  PROVE  \A n \in 1 .. Horizon : Buffers(t)[n] = Played(t, PlayedTo(t, n - 1))
  <1>. DEFINE After(g, n) == IF n = 1 THEN ContextOf(t) ELSE g[n - 1].at
              Made(N, g)  == g = [n \in 1 .. N |-> Played(t, After(g, n))]
              r           == CHOOSE g : Made(Horizon, g)
  <1>0. Horizon \in Nat \ {0}
    BY HorizonAssumption
  <1>1. Buffers(t) = r
    BY DEF Buffers
  <1>2. \E g : Made(Horizon, g)
    <2>. DEFINE S == {n \in 1 .. Horizon : ~ \E g : Made(n, g)}
    <2>1. SUFFICES ASSUME S # {} PROVE FALSE
      BY <1>0
    <2>2. PICK x \in S : \A y \in S : x <= y
      <3>1. S \in SUBSET Nat
        BY <1>0
      <3>. QED
        BY <2>1, <3>1, LeastElement
    <2>3. x \in 1 .. Horizon /\ ~ \E g : Made(x, g)
      OBVIOUS
    <2>4. x # 1
      <3>. DEFINE g == [n \in 1 .. 1 |-> Played(t, ContextOf(t))]
      <3>1. Made(1, g)
        OBVIOUS
      <3>. QED
        BY <2>3, <3>1
    <2>5. x - 1 \in 1 .. Horizon /\ x - 1 \notin S
      <3>1. x - 1 \in 1 .. Horizon /\ ~(x <= x - 1)
        BY <2>3, <2>4, <1>0
      <3>. HIDE DEF S
      <3>. QED
        BY <2>2, <3>1
    <2>6. PICK g : Made(x - 1, g)
      BY <2>5
    <2>. DEFINE h == [n \in 1 .. x |->
                        IF n < x THEN g[n] ELSE Played(t, g[x - 1].at)]
    <2>7. Made(x, h)
      <3>1. ASSUME NEW n \in 1 .. x
            PROVE  h[n] = Played(t, After(h, n))
        <4>1. CASE n < x
          <5>1. n \in 1 .. x - 1
            BY <2>3, <4>1
          <5>2. g[n] = Played(t, After(g, n))
            BY <2>6, <5>1
          <5>3. h[n] = g[n] /\ (n # 1 => h[n - 1] = g[n - 1])
            BY <2>3, <4>1
          <5>. QED
            BY <5>2, <5>3
        <4>2. CASE n = x
          BY <2>3, <2>4, <4>2
        <4>. QED
          BY <2>3, <4>1, <4>2
      <3>2. h = [n \in 1 .. x |-> h[n]]
        OBVIOUS
      <3>. QED
        BY <3>1, <3>2
    <2>. QED
      BY <2>3, <2>7
  <1>3. Made(Horizon, r)
    BY <1>2
  <1>. HIDE DEF r
  <1>4. \A n \in 1 .. Horizon : r[n] = Played(t, After(r, n))
    BY <1>3
  <1>5. ASSUME NEW n \in 1 .. Horizon
        PROVE  After(r, n) = PlayedTo(t, n - 1)
    <2>1. n = 1 <=> n - 1 = 0
      BY <1>0
    <2>. QED
      BY <1>1, <2>1 DEF PlayedTo
  <1>. QED
    BY <1>1, <1>4, <1>5

(* The last buffer is the first with a status, if any has one.             *)
LEMMA LastBufferIs ==
  ASSUME NEW t
  PROVE  /\ LastBuffer(t) \in 1 .. Horizon + 1
         /\ LastBuffer(t) <= Horizon => Buffers(t)[LastBuffer(t)].ended
         /\ \A n \in 1 .. Horizon :
              n < LastBuffer(t) => ~Buffers(t)[n].ended
  <1>. DEFINE ends == {n \in 1 .. Horizon : Buffers(t)[n].ended}
  <1>0. Horizon \in Nat \ {0}
    BY HorizonAssumption
  <1>1. LastBuffer(t) = IF ends = {} THEN Horizon + 1
                        ELSE CHOOSE n \in ends : \A k \in ends : n <= k
    BY DEF LastBuffer
  <1>2. CASE ends = {}
    BY <1>0, <1>1, <1>2
  <1>3. CASE ends # {}
    <2>1. ends \in SUBSET Nat
      BY <1>0
    <2>2. \E n \in ends : \A k \in ends : n <= k
      <3>. HIDE DEF ends
      <3>. QED
        BY <1>3, <2>1, LeastElement
    <2>3. LastBuffer(t) \in ends /\ \A k \in ends : LastBuffer(t) <= k
      <3>. HIDE DEF ends
      <3>. QED
        BY <1>1, <1>3, <2>2
    <2>. QED
      BY <1>0, <2>3
  <1>. QED
    BY <1>2, <1>3

(* The next buffer is that of the song's which follows those played.       *)
LEMMA TrackersBuffer ==
  ASSUME OnItsWay, tune.player \in {"st23play", "noisetrekker2"},
         4 * dec <= MixBufSize * (Horizon - 1)
  PROVE  \E k \in 0 .. Horizon :
           /\ k + 1 \in 1 .. Horizon /\ k + 1 <= LastBuffer(tune)
           /\ dec = k * BufFrames /\ at = PlayedTo(tune, k)
           /\ Buffer = Buffers(tune)[k + 1]
  <1>. DEFINE n == LastBuffer(tune)
  <1>0. Horizon \in Nat \ {0}
    BY HorizonAssumption
  <1>1. n \in Nat \ {0} /\ n <= Horizon + 1
    BY <1>0, LastBufferIs
  <1>2. song.frames = n * BufFrames
    <2>1. FramesOf(tune) = BufFrames * n
      BY DEF FramesOf
    <2>. HIDE DEF n
    <2>. QED
      BY <1>1, <2>1, SongFacts, BufAssumption
  <1>3. PICK k \in 0 .. Horizon :
          dec = k * BufFrames /\ at = PlayedTo(tune, k)
    BY DEF OnItsWay, Along
  <1>4. k + 1 \in 1 .. Horizon
    <2>1. 4 * dec = k * MixBufSize /\ MixBufSize \in Nat \ {0}
      BY <1>3, BufAssumption DEF MixBufSize
    <2>2. MixBufSize * (Horizon - 1) = (Horizon - 1) * MixBufSize
      BY <1>0, <2>1
    <2>3. k * MixBufSize <= (Horizon - 1) * MixBufSize
      BY <2>1, <2>2
    <2>4. k <= Horizon - 1
      BY <1>0, <2>1, <2>3, Multiples
    <2>. QED
      BY <1>0, <2>4
  <1>5. Buffer = Buffers(tune)[k + 1]
    <2>1. Buffers(tune)[k + 1] = Played(tune, PlayedTo(tune, k + 1 - 1))
      BY <1>4, BuffersFollow
    <2>2. k + 1 - 1 = k
      OBVIOUS
    <2>3. Buffer = Played(tune, at)
      BY DEF Buffer, RenderBy, Played
    <2>. QED
      BY <1>3, <2>1, <2>2, <2>3
  <1>. HIDE DEF n
  <1>8. PICK j \in Nat :
          /\ dec = j * BufFrames /\ j + 1 <= n
          /\ Frames = BufFrames /\ dec + Frames = (j + 1) * BufFrames
    BY <1>1, <1>2, WholeBuffer DEF InBuffers
  <1>9. j = k
    BY <1>3, <1>8, Multiples, BufAssumption
  <1>10. k + 1 <= LastBuffer(tune)
    BY <1>8, <1>9 DEF n
  <1>. QED
    BY <1>3, <1>4, <1>5, <1>10

LEMMA TrackersGoOn ==
  ASSUME OnItsWay, tune.player \in {"st23play", "noisetrekker2"},
         4 * dec <= MixBufSize * (Horizon - 1)
  PROVE  GoesOn
  <1>. DEFINE n == LastBuffer(tune)
  <1>0. Horizon \in Nat \ {0}
    BY HorizonAssumption
  <1>1. n \in Nat \ {0} /\ n <= Horizon + 1
    BY <1>0, LastBufferIs
  <1>2. song.frames = n * BufFrames
    <2>1. FramesOf(tune) = BufFrames * n
      BY DEF FramesOf
    <2>. HIDE DEF n
    <2>. QED
      BY <1>1, <2>1, SongFacts, BufAssumption
  <1>3. PICK k \in 0 .. Horizon :
          /\ k + 1 \in 1 .. Horizon /\ k + 1 <= n
          /\ dec = k * BufFrames /\ at = PlayedTo(tune, k)
          /\ Buffer = Buffers(tune)[k + 1]
    BY TrackersBuffer
  <1>4. k + 1 \in 1 .. Horizon
    BY <1>3
  <1>5. Buffer = Buffers(tune)[k + 1]
    BY <1>3
  <1>6. Buffer.bytes = MixBufSize
    BY DEF Buffer, RenderBy, St23Render, NtkRender
  <1>7. Buffer.at = PlayedTo(tune, k + 1)
    BY <1>4, <1>5 DEF PlayedTo
  <1>. HIDE DEF n
  <1>8. PICK j \in Nat :
          /\ dec = j * BufFrames /\ j + 1 <= n
          /\ Frames = BufFrames /\ dec + Frames = (j + 1) * BufFrames
          /\ Over <=> j + 1 = n
          /\ ~Over => dec + Frames < song.frames
    BY <1>1, <1>2, WholeBuffer DEF InBuffers
  <1>9. j = k
    BY <1>3, <1>8, Multiples, BufAssumption
  <1>10. Buffer.ended <=> k + 1 = n
    <2>1. k + 1 = n => Buffers(tune)[k + 1].ended
      BY <1>0, <1>4, LastBufferIs DEF n
    <2>2. k + 1 # n => ~Buffers(tune)[k + 1].ended
      <3>1. k + 1 # n => k + 1 < n
        BY <1>1, <1>8, <1>9
      <3>. QED
        BY <1>4, <3>1, LastBufferIs DEF n
    <2>. QED
      BY <1>5, <2>1, <2>2
  <1>11. Buffer.bytes = 4 * Frames
    BY <1>6, <1>8 DEF MixBufSize
  <1>12. /\ \E i \in Nat : dec + Frames = i * BufFrames
         /\ \E i \in 0 .. Horizon :
              dec + Frames = i * BufFrames /\ Buffer.at = PlayedTo(tune, i)
    <2>1. k + 1 \in Nat /\ k + 1 \in 0 .. Horizon
      BY <1>4
    <2>. QED
      BY <1>7, <1>8, <1>9, <2>1
  <1>. QED
    BY <1>8, <1>9, <1>10, <1>11, <1>12 DEF GoesOn, Along, InBuffers

------------------------------------------------------------------------------
(* Where play and restart put a decoder.                                   *)
StartOf(t) == IF t.player = "libdigibooster3" THEN Db3Context ELSE ContextOf(t)

LEMMA DecodersStart ==
  ASSUME NEW f \in Files, NEW s \in Nat, MayPlay(f, s), NEW d \in Start(f, s)
  PROVE  d.at = StartOf(d.tune)
  <1>1. d.tune \in Tunes /\ d.tune.player = f.player
    BY TunesArePlayed
  <1>2. ASSUME NEW t, NEW a, d \in Decoder(t, a)
        PROVE  d.tune = t /\ d.at = a
    BY <1>2 DEF Decoder
  <1>3. ASSUME NEW S, d \in IfLoads(f, S) PROVE d \in S
    BY <1>3 DEF IfLoads
  <1>4. CASE f.player = "uade"
    <2>1. d \in UadePlay(f, s)
      BY <1>4 DEF Start
    <2>2. PICK i \in {s - f.first} \cap (0 .. Last(f)) :
            d \in Decoder(f.tunes[i + 1], 0)
      BY <2>1, <1>3 DEF UadePlay
    <2>. QED
      BY <1>1, <1>2, <1>4, <2>2 DEF StartOf, ContextOf
  <1>5. CASE f.player = "libdigibooster3"
    <2>1. d \in Decoder(f.tunes[s + 1], Db3Context)
      BY <1>3, <1>5 DEF Start, Db3Play
    <2>. QED
      BY <1>1, <1>2, <1>5, <2>1 DEF StartOf
  <1>6. CASE f.player = "st23play"
    <2>1. d \in Decoder(f.tunes[1], St23Load(f.tunes[1].spt))
      BY <1>3, <1>6 DEF Start, St23Play
    <2>. QED
      BY <1>1, <1>2, <1>6, <2>1 DEF StartOf, ContextOf
  <1>7. CASE f.player = "libxmp"
    <2>1. d \in IfLoads(f, Decoder(f.tunes[s + 1], 0))
      BY <1>7, Zenon DEF Start, XmpPlay
    <2>. QED
      BY <1>1, <1>2, <1>3, <1>7, <2>1 DEF StartOf, ContextOf
  <1>8. CASE f.player \in {"hivelytracker", "libopenmpt", "protrekkr1",
                           "protrekkr2", "v2redux", "noisetrekker2"}
    <2>1. \/ d \in Decoder(f.tunes[s + 1], 0)
          \/ d \in Decoder(f.tunes[Least(s, Last(f)) + 1], 0)
          \/ d \in Decoder(f.tunes[1], 0)
      BY <1>3, <1>8
      DEF Start, HivelyPlay, OpenmptPlay, Ptk1Play, Ptk2Play, V2Play, NtkPlay
    <2>. QED
      BY <1>1, <1>2, <1>8, <2>1 DEF StartOf, ContextOf
  <1>. QED
    BY <1>1, <1>4, <1>5, <1>6, <1>7, <1>8 DEF Tunes

(* At its start, a decoder is on its way.                                  *)
LEMMA StartIsAlong ==
  ASSUME NEW t \in Tunes, NEW frames
  PROVE  Along(t, frames, StartOf(t), 0)
  <1>0. Horizon \in Nat \ {0} /\ BufFrames \in Nat \ {0}
    BY HorizonAssumption, BufAssumption
  <1>1. 0 = 0 * BufFrames /\ 0 \in Nat /\ 0 \in 0 .. Horizon
    BY <1>0
  <1>2. t.player \in {"uade", "hivelytracker", "libopenmpt", "libxmp",
                      "protrekkr1", "protrekkr2", "v2redux",
                      "noisetrekker2"} => StartOf(t) = 0
    BY DEF StartOf, ContextOf
  <1>3. t.player = "hivelytracker" =>
          0 \in 0 .. t.ticks /\ 0 = 0 * (FrameLen \div 4)
    <2>1. t.player = "hivelytracker" => t.ticks \in Nat
      BY DEF Tunes
    <2>2. FrameLen \div 4 \in Int
      <3>1. FrameLen \in Int
        BY FreqAssumption, BufferAssumption, DivInt DEF FrameLen
      <3>. QED
        BY <3>1
    <2>. QED
      BY <2>1, <2>2
  <1>4. t.player \in {"st23play", "noisetrekker2"} =>
          StartOf(t) = PlayedTo(t, 0)
    BY DEF StartOf, PlayedTo
  <1>5. t.player = "libdigibooster3" =>
          StartOf(t) = [mixed |-> 0, songend |-> FALSE]
    BY DEF StartOf, Db3Context
  <1>. QED
    BY <1>1, <1>2, <1>3, <1>4, <1>5 DEF Along, InBuffers

(* A restart puts a decoder where play has put it, but for st23play.       *)
LEMMA RestartStarts ==
  ASSUME NEW frames, NEW d, NEW a,
         NEW t \in Tunes, t.player \notin {"uade", "st23play"},
         Along(t, frames, a, d)
  PROVE  RestartBy(t, a) = StartOf(t)
  <1>1. CASE t.player = "libdigibooster3"
    <2>1. a.songend = FALSE
      BY <1>1 DEF Along
    <2>2. RestartBy(t, a) = [Db3Context EXCEPT !.songend = a.songend]
      BY <1>1 DEF RestartBy, Db3Restart
    <2>3. RestartBy(t, a) = Db3Context
      BY <2>1, <2>2 DEF Db3Context
    <2>. QED
      BY <1>1, <2>3 DEF StartOf
  <1>2. CASE t.player # "libdigibooster3"
    BY <1>2
    DEF Tunes, StartOf, ContextOf, RestartBy, HivelyRestart, OpenmptRestart,
        XmpRestart, Ptk1Restart, Ptk2Restart, V2Restart, NtkRestart
  <1>. QED
    BY <1>1, <1>2
------------------------------------------------------------------------------
Live == {"check", "poll", "seek", "forward", "render"}

(* A decoder is on its way until its song ends, and the loop within its    *)
(* limits; st23play's is not followed through a restart.                   *)
Followed == ~(tune.player = "st23play" /\ seeked)

DecoderInv ==
  /\ tune \in Tunes
  /\ song = SongOf(tune)
  /\ pc \in Live /\ Followed => Along(tune, song.frames, at, dec)
  /\ pc = "poll" \/ (pc = "render" /\ target = NoTarget) =>
       total < MaxBytes(known)

LEMMA InitDecoder == DInit => DecoderInv
  <1>. SUFFICES ASSUME DInit PROVE DecoderInv
    OBVIOUS
  <1>1. PICK f \in Files, s \in 0 .. 255 :
          MayPlay(f, s) /\ \E d \in Start(f, s) : tune = d.tune /\ at = d.at
    BY Zenon DEF DInit
  <1>2. s \in Nat
    OBVIOUS
  <1>3. tune \in Tunes /\ at = StartOf(tune)
    BY <1>1, <1>2, TunesArePlayed, DecodersStart
  <1>4. song = SongOf(tune) /\ dec = 0 /\ pc = "check"
    BY DEF DInit, Init, InitState
  <1>5. Along(tune, song.frames, at, dec)
    BY <1>3, <1>4, StartIsAlong
  <1>. QED
    BY <1>3, <1>4, <1>5, Zenon DEF DecoderInv

(* What is rendered is within the limits, or short of the target.          *)
LEMMA RenderingIsEarly ==
  ASSUME IInv, DecoderInv, Rendering, ~song.uade
  PROVE  total <= MixBufSize * (Horizon - 1)
  <1>. DEFINE h == MixBufSize * (Horizon - 2)
  <1>0. /\ Horizon \in Nat \ {0} /\ MixBufSize \in Nat \ {0}
        /\ total \in Nat /\ BytesPerSec \in Nat \ {0}
    BY HorizonAssumption, BufAssumption, NumberFacts, PositionFacts
    DEF MixBufSize
  <1>1. h \in Int /\ MixBufSize * (Horizon - 1) = h + MixBufSize
    BY <1>0
  <1>2. \A ms \in KnownTimeouts \cup SeekTargets \cup {1000 * PrecalcTimeout} :
          BytesAt(ms) <= h
    BY HorizonAssumption
  <1>. HIDE DEF h
  <1>3. ASSUME NEW b \in Int, NEW ms \in Nat, Millis(b) < ms
        PROVE  b <= BytesAt(ms)
    <2>. DEFINE x == b * 1000
                y == ms * BytesPerSec
    <2>1. x \in Int /\ y \in Int
      BY <1>0
    <2>2. x \div BytesPerSec < ms
      BY <1>3 DEF Millis
    <2>3. x < y
      <3>1. CASE y <= x
        <4>1. y \div BytesPerSec <= x \div BytesPerSec
          BY <1>0, <2>1, <3>1, DivMono
        <4>2. y \div BytesPerSec = ms
          BY <1>0
        <4>3. x \div BytesPerSec \in Int
          BY <1>0, <2>1, DivInt
        <4>. QED
          BY <2>2, <4>1, <4>2, <4>3
      <3>. QED
        BY <2>1, <3>1
    <2>4. x \div 1000 <= y \div 1000
      BY <2>1, <2>3
    <2>5. x \div 1000 = b
      OBVIOUS
    <2>. QED
      BY <2>4, <2>5 DEF BytesAt
  <1>4. CASE pc = "render" /\ target = NoTarget
    <2>1. total < MaxBytes(known)
      BY <1>4 DEF DecoderInv
    <2>2. MaxBytes(known) \in Int /\ MaxBytes(known) <= h
      <3>1. known \in KnownTimeouts /\ known \in Int
        BY TimesAssumption DEF IInv, Numbers
      <3>2. CASE known > 0
        <4>1. MaxBytes(known) = BytesAt(known) /\ known \in Nat
          BY <3>1, <3>2 DEF MaxBytes
        <4>. QED
          BY <1>2, <3>1, <4>1, PositionFacts
      <3>3. CASE ~(known > 0)
        <4>1. BytesAt(1000 * PrecalcTimeout) <= h
          BY <1>2
        <4>2. MaxBytes(known) = PrecalcTimeout * BytesPerSec
          BY <3>3 DEF MaxBytes
        <4>3. BytesAt(1000 * PrecalcTimeout) = PrecalcTimeout * BytesPerSec
          <5>. DEFINE p == PrecalcTimeout * BytesPerSec
          <5>1. p \in Nat
            BY <1>0, LimitAssumption
          <5>2. (1000 * PrecalcTimeout) * BytesPerSec = 1000 * p
            BY <1>0, LimitAssumption
          <5>. HIDE DEF p
          <5>3. (1000 * p) \div 1000 = p
            BY <5>1
          <5>. QED
            BY <5>2, <5>3 DEF BytesAt, p
        <4>4. PrecalcTimeout * BytesPerSec \in Int
          BY <1>0, LimitAssumption
        <4>. QED
          BY <4>1, <4>2, <4>3, <4>4
      <3>. QED
        BY <3>2, <3>3
    <2>. QED
      BY <1>0, <1>1, <2>1, <2>2
  <1>5. CASE pc = "render" /\ target # NoTarget
    <2>1. target \in SeekTargets /\ target \in Nat
      BY <1>5, TimesAssumption DEF IInv, Numbers
    <2>2. Millis(total - MixBufSize) < target
      BY <1>5, IInvParts DEF SeekLands, MixBufSize
    <2>3. total - MixBufSize <= BytesAt(target)
      BY <1>0, <1>3, <2>1, <2>2
    <2>4. BytesAt(target) <= h /\ BytesAt(target) \in Nat
      BY <1>2, <2>1, PositionFacts
    <2>. QED
      BY <1>0, <1>1, <2>3, <2>4
  <1>6. CASE pc = "forward" /\ pos < target
    <2>1. target \in SeekTargets /\ target \in Nat
      BY <1>6, IInvParts, TimesAssumption DEF SeekInv, IInv, Numbers
    <2>2. pos = Millis(total)
      BY IInvParts DEF PositionTracksSong
    <2>3. total <= BytesAt(target)
      BY <1>0, <1>3, <1>6, <2>1, <2>2
    <2>4. BytesAt(target) <= h /\ BytesAt(target) \in Nat
      BY <1>2, <2>1, PositionFacts
    <2>. QED
      BY <1>0, <1>1, <2>3, <2>4
  <1>. QED
    BY <1>4, <1>5, <1>6 DEF Rendering

(* What every player renders is the song's next buffer.                    *)
LEMMA RenderingGoesOn ==
  ASSUME WholeTicks, IInv, DecoderInv, Rendering, Followed
  PROVE  OnItsWay /\ GoesOn
  <1>1. pc \in Live
    BY DEF Rendering, Live
  <1>2. OnItsWay
    BY <1>1, NumberFacts DEF OnItsWay, DecoderInv
  <1>3. tune.player # "uade" => ~song.uade
    BY <1>2, SongFacts
  <1>4. tune.player # "uade" => total = 4 * dec /\ pos = Millis(4 * dec)
    BY <1>3, IInvParts DEF PositionTracksSong
  <1>5. tune.player # "uade" => 4 * dec <= MixBufSize * (Horizon - 1)
    BY <1>3, <1>4, RenderingIsEarly
  <1>6. tune.player \in {"uade", "hivelytracker", "libopenmpt"} \cup InBuffers
    BY <1>2 DEF OnItsWay, Tunes, InBuffers
  <1>. QED
    BY <1>2, <1>4, <1>5, <1>6, UadeGoesOn, HivelyGoesOn, OpenmptGoesOn,
       Db3GoesOn, XmpGoesOn, PtkGoesOn, V2GoesOn, TrackersGoOn
    DEF InBuffers

LEMMA Agreement ==
  ASSUME WholeTicks, IInv, DecoderInv
  PROVE  DecoderAgrees
  <1>. SUFFICES ASSUME Rendering, Followed
                PROVE  Buffer.bytes = 4 * Frames /\ BufferStatus = Status
    BY DEF DecoderAgrees, Followed
  <1>1. OnItsWay /\ GoesOn
    BY RenderingGoesOn
  <1>2. Status = IF Over THEN song.ending ELSE "NONE"
    BY <1>1, SongFacts, Zenon DEF Status, Over
  <1>3. song.ending = IF tune.player = "uade" THEN UadeStatus(tune)
                                              ELSE "PLAYER"
    BY <1>1, SongFacts
  <1>. QED
    BY <1>1, <1>2, <1>3, Zenon DEF GoesOn, BufferStatus

(* A buffer that does not end the song leaves the decoder on its way.      *)
LEMMA RenderFollows ==
  ASSUME WholeTicks, IInv, DecoderInv, Rendering, Followed, Render,
         Status = "NONE", at' = Buffer.at, tune' = tune
  PROVE  Along(tune, song.frames, at, dec)'
  <1>1. OnItsWay /\ GoesOn
    BY RenderingGoesOn
  <1>2. song.ending # "NONE"
    BY <1>1, BufferFacts DEF OnItsWay, Ends
  <1>3. ~Over
    BY <1>2 DEF Status, Over
  <1>4. Along(tune, song.frames, Buffer.at, dec + Frames)
    BY <1>1, <1>3 DEF GoesOn
  <1>5. dec' = dec + Frames /\ song' = song
    BY DEF Render
  <1>. QED
    BY <1>4, <1>5

LEMMA DecoderStep ==
  ASSUME WholeTicks
  PROVE  IInv /\ DecoderInv /\ [DNext]_allVars => DecoderInv'
  <1>. SUFFICES ASSUME IInv, DecoderInv, [DNext]_allVars
                PROVE  DecoderInv'
    OBVIOUS
  <1>1. [Next]_vars /\ tune' = tune /\ song' = song /\ known' = known
    BY SongStays, Zenon DEF DNext, Decode, allVars
  <1>2. tune' \in Tunes /\ song' = SongOf(tune)'
    <2>1. /\ UadeFrames(tune)' = UadeFrames(tune)
          /\ UadeStatus(tune)' = UadeStatus(tune)
      BY <1>1 DEF UadeFrames, UadeStatus, UadeTimeout
    <2>2. FramesOf(tune)' = FramesOf(tune)
      BY <1>1, <2>1 DEF FramesOf
    <2>3. SongOf(tune)' = SongOf(tune)
      BY <1>1, <2>1, <2>2 DEF SongOf
    <2>. QED
      BY <1>1, <2>3 DEF DecoderInv
  <1>3. MaxBytes(known)' = MaxBytes(known)
    BY <1>1 DEF MaxBytes, BytesAt, BytesPerSec
  <1>. DEFINE Early == pc = "poll" \/ (pc = "render" /\ target = NoTarget) =>
                         total < MaxBytes(known)
              Ahead == pc \in Live /\ Followed =>
                         Along(tune, song.frames, at, dec)
  <1>4. SUFFICES Early' /\ Ahead'
    BY <1>2 DEF DecoderInv
  <1>5. Early /\ Ahead
    BY DEF DecoderInv
  <1>6. CASE UNCHANGED allVars
    BY <1>3, <1>5, <1>6
    DEF allVars, vars, stateVars, loopVars, Followed
  <1>8. CASE DNext
    <2>1. Decode /\ Next
      BY <1>8 DEF DNext
    <2>2. CASE Check
      <3>1. at' = at
        BY <2>1, <2>2 DEF Decode, Check, Rendering, Restarting, Seeking
      <3>2. pc' = "poll" => total < MaxBytes(known)
        <4>1. known > 0 => BytesAt(known) \in Int
          BY TimesAssumption, PositionFacts DEF IInv, Numbers
        <4>2. MaxBytes(known) \in Int
          BY <4>1, LimitAssumption, PositionFacts DEF MaxBytes
        <4>. QED
          BY <2>2, <4>2, NumberFacts DEF Check
      <3>. QED
        BY <1>1, <1>3, <1>5, <2>2, <3>1, <3>2
        DEF Check, stateVars, Live, Followed
    <2>3. CASE PollNothing
      <3>1. at' = at
        BY <2>1, <2>3 DEF Decode, PollNothing, Rendering, Restarting, Seeking
      <3>. QED
        BY <1>1, <1>3, <1>5, <2>3, <3>1
        DEF PollNothing, stateVars, loopVars, Live, Followed
    <2>4. ASSUME NEW ms \in SeekTargets, PollSeek(ms) PROVE Early' /\ Ahead'
      <3>1. at' = at
        BY <2>1, <2>4 DEF Decode, PollSeek, Rendering, Restarting, Seeking
      <3>. QED
        BY <1>1, <1>5, <2>4, <3>1 DEF PollSeek, stateVars, Live, Followed
    <2>5. CASE SeekUade
      <3>1. pc = "seek" /\ song.uade /\ target # NoTarget
        BY <2>5, IInvParts DEF SeekUade, SeekInv
      <3>2. CASE UadeSeek(target) /\ pc' = "render" /\ UNCHANGED loopVars
        <4>1. at' = Sought(BytesAt(target) \div 4)
          BY <2>1, <3>1, <3>2 DEF Decode, Rendering, Restarting, Seeking
        <4>2. TuneInv
          <5>1. song.uade = (tune.player = "uade")
            BY Zenon DEF DecoderInv, SongOf
          <5>2. tune.player = "uade" => song.frames = UadeFrames(tune)
                                     /\ song.ending = UadeStatus(tune)
            BY DEF DecoderInv, SongOf, FramesOf
          <5>3. song.cuts = {}
            BY Zenon DEF DecoderInv, SongOf
          <5>. QED
            BY <5>1, <5>2, <5>3 DEF TuneInv, DecoderInv
        <4>3. at' = dec' /\ tune.player = "uade"
          BY <3>1, <3>2, <4>1, <4>2 DEF UadeSeek, Sought, TuneInv
        <4>4. Along(tune, song.frames, at, dec)'
          BY <1>1, <4>3 DEF Along, InBuffers
        <4>5. target' # NoTarget
          BY <3>1, <3>2 DEF loopVars
        <4>. QED
          BY <3>2, <4>4, <4>5
      <3>3. CASE SeekFails
        BY <3>3 DEF SeekFails, Live
      <3>. QED
        BY <2>5, <3>2, <3>3 DEF SeekUade
    <2>6. CASE SeekBack
      <3>1. pc = "seek" /\ ~song.uade /\ seeked
        BY <2>6, SoughtBefore DEF SeekBack
      <3>2. CASE target >= pos /\ pc' = "forward"
                 /\ UNCHANGED <<stateVars, loopVars>>
        <4>1. at' = at
          <5>1. ~Rendering /\ ~Restarting /\ ~Seeking
            <6>1. ~(target < pos)
              BY <3>2, NumberFacts
            <6>. QED
              BY <3>1, <6>1 DEF Rendering, Restarting, Seeking
          <5>. QED
            BY <2>1, <5>1 DEF Decode
        <4>. QED
          BY <1>1, <1>5, <3>1, <3>2, <4>1
          DEF stateVars, loopVars, Live, Followed
      <3>3. CASE target < pos /\ Restart /\ pc' = "forward"
                 /\ UNCHANGED loopVars
        <4>1. at' = RestartBy(tune, at)
          BY <2>1, <3>1, <3>3 DEF Decode, Rendering, Restarting, Seeking
        <4>2. ASSUME Followed'
              PROVE  Along(tune, song.frames, at, dec)'
          <5>1. Followed /\ tune.player # "st23play"
            BY <1>1, <3>1, <3>3, <4>2 DEF Followed, loopVars
          <5>2. tune.player # "uade" /\ tune \in Tunes
            <6>1. song.uade = (tune.player = "uade")
              BY Zenon DEF DecoderInv, SongOf
            <6>. QED
              BY <3>1, <6>1 DEF DecoderInv
          <5>3. at' = StartOf(tune)
            BY <1>5, <3>1, <4>1, <5>1, <5>2, RestartStarts DEF Live
          <5>4. dec' = 0 /\ song' = song
            BY <3>3 DEF Restart
          <5>. QED
            BY <1>1, <5>2, <5>3, <5>4, StartIsAlong
        <4>. QED
          BY <3>3, <4>2
      <3>4. CASE SeekFails
        BY <3>4 DEF SeekFails, Live
      <3>. QED
        BY <2>6, <3>2, <3>3, <3>4 DEF SeekBack
    <2>7. CASE SeekForward
      <3>1. pc = "forward" /\ target # NoTarget
        BY <2>7, IInvParts DEF SeekForward, SeekInv
      <3>2. CASE pos >= target /\ pc' = "render"
                 /\ UNCHANGED <<stateVars, loopVars>>
        <4>1. at' = at
          <5>1. ~Rendering /\ ~Restarting /\ ~Seeking
            <6>1. ~(pos < target)
              BY <3>2, NumberFacts
            <6>. QED
              BY <3>1, <6>1 DEF Rendering, Restarting, Seeking
          <5>. QED
            BY <2>1, <5>1 DEF Decode
        <4>. QED
          BY <1>1, <1>5, <3>1, <3>2, <4>1
          DEF stateVars, loopVars, Live, Followed
      <3>3. CASE pos < target /\ Render /\ Status = "NONE"
                 /\ UNCHANGED <<loopVars, pc>>
        <4>1. Rendering
          BY <3>1, <3>3 DEF Rendering
        <4>2. at' = Buffer.at
          BY <2>1, <3>1, <4>1 DEF Decode, Rendering, Restarting, Seeking
        <4>3. Followed' => Followed
          BY <1>1, <3>3 DEF Followed, loopVars
        <4>. QED
          BY <1>1, <3>1, <3>3, <4>1, <4>2, <4>3, RenderFollows
      <3>4. CASE SeekFails
        BY <3>4 DEF SeekFails, Live
      <3>. QED
        BY <2>7, <3>2, <3>3, <3>4 DEF SeekForward
    <2>8. CASE Play
      <3>1. /\ pc = "render" /\ Render /\ seeked' = seeked
            /\ Status # "NONE" => pc' = "end"
            /\ Status = "NONE" => pc' = "check"
        BY <2>8 DEF Play
      <3>2. Rendering
        BY <3>1 DEF Rendering
      <3>3. at' = Buffer.at
        BY <2>1, <3>1, <3>2 DEF Decode, Rendering, Restarting, Seeking
      <3>4. Followed' => Followed
        BY <1>1, <3>1 DEF Followed
      <3>5. Status = "NONE" /\ Followed => Along(tune, song.frames, at, dec)'
        BY <1>1, <3>1, <3>2, <3>3, RenderFollows
      <3>. QED
        BY <3>1, <3>4, <3>5 DEF Live
    <2>9. CASE Finish \/ Done
      <3>1. pc' = "done"
        BY <2>9 DEF Finish, Done, vars
      <3>. QED
        BY <3>1 DEF Live
    <2>. QED
      BY <2>1, <2>2, <2>3, <2>4, <2>5, <2>6, <2>7, <2>8, <2>9 DEF Next
  <1>. QED
    BY <1>6, <1>8

(* Buffer by buffer, through restarts and seeks, each of the ten players   *)
(* hands out the bytes and the status of the song that the loop plays, if  *)
(* the ticks of hivelytracker are whole frames.                            *)
THEOREM DecodersYieldTheSong ==
  ASSUME WholeTicks
  PROVE  DSpec => []DecoderAgrees
  <1>1. IInv /\ DecoderInv => DecoderAgrees
    BY Agreement
  <1>. QED
    BY <1>1, InitDecoder, DecoderStep, DInvariance, PTL DEF DSpec

------------------------------------------------------------------------------
(* Two spans of time, rounded down, are less than a ms short of their sum. *)
LEMMA MillisAdd ==
  ASSUME NEW a \in Nat, NEW b \in Nat
  PROVE  Millis(a + b) <= Millis(a) + Millis(b) + 1
  <1>1. \A x \in Nat, y \in Nat, d \in Nat \ {0} :
          (x + y) \div d <= (x \div d) + (y \div d) + 1
    <2>. TAKE x \in Nat, y \in Nat, d \in Nat \ {0}
    <2>. DEFINE p == x \div d
                q == y \div d
                r == (x + y) \div d
    <2>1. p \in Nat /\ q \in Nat /\ r \in Nat
      OBVIOUS
    <2>2. /\ x < p * d + d /\ y < q * d + d /\ r * d <= x + y
      <3>1. r * d <= x + y
        BY Quotients
      <3>2. x < p * d + d /\ y < q * d + d
        BY Quotients
      <3>. QED
        BY <3>1, <3>2
    <2>. HIDE DEF p, q, r
    <2>3. /\ (p + q + 2) * d = p * d + d + q * d + d
          /\ p * d \in Int /\ q * d \in Int /\ r * d \in Int
      BY <2>1
    <2>4. r * d < (p + q + 2) * d
      BY <2>2, <2>3
    <2>5. r < p + q + 2
      <3>1. p + q + 2 \in Int
        BY <2>1
      <3>. QED
        BY <2>1, <2>4, <3>1, Multiples
    <2>6. r <= p + q + 1
      BY <2>1, <2>5
    <2>. QED
      BY <2>6 DEF p, q, r
  <1>2. /\ a * 1000 \in Nat /\ b * 1000 \in Nat
        /\ (a + b) * 1000 = a * 1000 + b * 1000
    OBVIOUS
  <1>. QED
    BY <1>1, <1>2, PositionFacts DEF Millis

(* A status is missing only from a buffer that is not the last.            *)
LEMMA NoStatus ==
  ASSUME BufferStatus = "NONE"
  PROVE  ~Buffer.ended
  <1>1. UadeStatus(tune) # "NONE"
    BY DEF UadeStatus
  <1>. QED
    BY <1>1 DEF BufferStatus

Watched == tune.player \notin {"st23play", "noisetrekker2"}

LEMMA EndIsWatched ==
  ASSUME WholeTicks, IInv, DecoderInv, Watched
  PROVE  NothingPastEnd
  <1>. SUFFICES ASSUME Rendering, BufferStatus = "NONE"
                PROVE  IF tune.player \in {"protrekkr1", "protrekkr2"}
                       THEN Millis(Reach) <= EndOf(tune)
                       ELSE Reach <= 4 * EndOf(tune)
    BY DEF NothingPastEnd
  <1>1. OnItsWay /\ GoesOn
    BY RenderingGoesOn DEF Followed, Watched
  <1>2. ~Buffer.ended /\ Buffer.bytes = 4 * Frames
    BY <1>1, NoStatus DEF GoesOn
  <1>3. Reach = 4 * dec + Buffer.bytes
    BY DEF Reach, Watched
  <1>4. /\ dec \in Nat /\ Frames \in Nat /\ dec + Frames <= song.frames
        /\ song.frames = FramesOf(tune) /\ song.frames \in Nat
    BY <1>1, SongFacts, BufferFacts DEF OnItsWay
  <1>5. tune.player \in {"libopenmpt", "libdigibooster3", "libxmp", "v2redux",
                         "protrekkr1", "protrekkr2", "uade",
                         "hivelytracker"}
    BY <1>1 DEF OnItsWay, Tunes, Watched
  <1>6. ASSUME song.frames <= EndOf(tune), EndOf(tune) \in Nat
        PROVE  Reach <= 4 * EndOf(tune)
    BY <1>2, <1>3, <1>4, <1>6
  <1>7. CASE tune.player = "hivelytracker"
    <2>1. FramesOf(tune) = EndOf(tune)
      BY <1>7 DEF FramesOf, EndOf
    <2>. QED
      BY <1>4, <1>6, <1>7, <2>1
  <1>8. CASE tune.player = "libopenmpt"
    <2>1. FramesOf(tune) = EndOf(tune)
      BY <1>8 DEF FramesOf, EndOf
    <2>. QED
      BY <1>4, <1>6, <1>8, <2>1
  <1>9. CASE tune.player = "libxmp"
    <2>. DEFINE X == XmpBytes(tune) \div 4
                Y == BufFrames * (CeilDiv(tune.frames, BufFrames) + 1)
    <2>1. FramesOf(tune) = Least(X, Y) /\ EndOf(tune) = X
      BY <1>9 DEF FramesOf, EndOf
    <2>2. X \in Nat
      <3>1. tune.duration \in Nat
        BY <1>1, <1>9 DEF OnItsWay, Tunes
      <3>2. tune.duration * BytesPerSec \in Nat
        BY <3>1, PositionFacts, ProductInNat
      <3>. DEFINE z == (tune.duration * BytesPerSec) \div 1000
      <3>3. z \in Nat
        BY <3>2, DivInt
      <3>4. XmpBytes(tune) = 4 * CeilDiv(z, 4)
        BY DEF XmpBytes
      <3>. HIDE DEF z
      <3>5. CeilDiv(z, 4) \in Nat
        BY <3>3, Quotients
      <3>. QED
        BY <3>4, <3>5
    <2>3. Y \in Nat
      <3>1. CeilDiv(tune.frames, BufFrames) \in Nat
        <4>1. tune.frames \in Nat
          BY <1>1, <1>9 DEF OnItsWay, Tunes
        <4>. QED
          BY <4>1, Quotients, BufAssumption
      <3>. QED
        BY <3>1, BufAssumption, ProductInNat
    <2>. HIDE DEF X, Y
    <2>4. Least(X, Y) <= X
      BY <2>2, <2>3 DEF Least
    <2>. QED
      BY <1>4, <1>6, <1>9, <2>1, <2>2, <2>4
  <1>10. CASE tune.player = "uade"
    <2>. DEFINE over  == Least(tune.frames, Freq * UadeTimeout(SubsongTimeout))
                quiet == tune.audible + Freq * UadeTimeout(SilenceTimeout)
    <2>1. FramesOf(tune) = Least(over, quiet) /\ EndOf(tune) = tune.frames
      BY <1>10 DEF FramesOf, EndOf, UadeFrames
    <2>2. tune.frames \in Nat /\ tune.audible \in Nat
      BY <1>1, <1>10 DEF OnItsWay, Tunes
    <2>3. known \in Int
      BY TimesAssumption DEF IInv, Numbers
    <2>4. \A t \in Nat : UadeTimeout(t) \in Int
      BY <2>3 DEF UadeTimeout
    <2>5. /\ Freq * UadeTimeout(SubsongTimeout) \in Int
          /\ Freq * UadeTimeout(SilenceTimeout) \in Int
      BY <2>4, FreqAssumption, BufferAssumption, TimesAssumption
    <2>6. over \in Int /\ over <= tune.frames /\ quiet \in Int
      BY <2>2, <2>5 DEF Least
    <2>. HIDE DEF over, quiet
    <2>7. Least(over, quiet) <= tune.frames
      BY <2>2, <2>6 DEF Least
    <2>. QED
      BY <1>4, <1>6, <1>10, <2>1, <2>2, <2>7
  <1>11. CASE tune.player = "libdigibooster3"
    <2>1. /\ at = [mixed |-> dec, songend |-> FALSE]
          /\ Buffer = Db3Render(tune, at)
      BY <1>1, <1>11 DEF OnItsWay, Along, Buffer, RenderBy
    <2>2. at.mixed = dec
      BY <2>1
    <2>3. ~(dec + BufFrames > tune.frames)
      BY <1>2, <2>1, <2>2 DEF Db3Render
    <2>4. Buffer.bytes = 4 * BufFrames
      BY <2>1, <2>2, <2>3 DEF Db3Render
    <2>5. EndOf(tune) = tune.frames /\ tune.frames \in Nat
      BY <1>1, <1>11 DEF EndOf, OnItsWay, Tunes
    <2>. QED
      BY <1>3, <1>4, <1>11, <2>3, <2>4, <2>5, BufAssumption
  <1>12. CASE tune.player = "v2redux"
    <2>1. Buffer = V2Render(tune, dec)
      BY <1>1, <1>12 DEF OnItsWay, Along, Buffer, RenderBy
    <2>2. ~(dec + BufFrames >= tune.frames) /\ Buffer.bytes = 4 * BufFrames
      BY <1>2, <2>1 DEF V2Render, MixBufSize
    <2>3. EndOf(tune) = tune.frames /\ tune.frames \in Nat
      BY <1>1, <1>12 DEF EndOf, OnItsWay, Tunes
    <2>. QED
      BY <1>3, <1>4, <1>12, <2>2, <2>3, BufAssumption
  <1>13. CASE tune.player \in {"protrekkr1", "protrekkr2"}
    <2>1. Buffer = PtkRender(tune, dec)
      BY <1>1, <1>13 DEF OnItsWay, Along, Buffer, RenderBy
    <2>2. /\ ~(pos + Millis(MixBufSize) >= tune.length)
          /\ Buffer.bytes = MixBufSize
      BY <1>2, <2>1 DEF PtkRender
    <2>3. EndOf(tune) = tune.length /\ tune.length \in Nat
      BY <1>1, <1>13 DEF EndOf, OnItsWay, Tunes
    <2>4. pos = Millis(4 * dec)
      <3>1. ~song.uade
        BY <1>1, <1>13, SongFacts
      <3>. QED
        BY <3>1, IInvParts DEF PositionTracksSong
    <2>5. 4 * dec \in Nat /\ MixBufSize \in Nat
      BY <1>4, BufAssumption DEF MixBufSize
    <2>6. Millis(4 * dec + MixBufSize)
            <= Millis(4 * dec) + Millis(MixBufSize) + 1
      BY <2>5, MillisAdd
    <2>7. /\ Millis(4 * dec + MixBufSize) \in Nat
          /\ Millis(4 * dec) \in Nat /\ Millis(MixBufSize) \in Nat
      <3>1. 4 * dec + MixBufSize \in Nat
        BY <2>5
      <3>. QED
        BY <2>5, <3>1, PositionFacts
    <2>8. Millis(Reach) = Millis(4 * dec + MixBufSize)
      BY <1>3, <2>2
    <2>9. Millis(4 * dec) + Millis(MixBufSize) < tune.length
      BY <2>2, <2>3, <2>4, <2>7
    <2>. QED
      BY <1>13, <2>3, <2>6, <2>7, <2>8, <2>9
  <1>. QED
    BY <1>5, <1>7, <1>8, <1>9, <1>10, <1>11, <1>12, <1>13

------------------------------------------------------------------------------
(* What st23play and noisetrekker2 play is defined recursively; AllUpTo    *)
(* and Recursion are what is needed of induction.                          *)
LEMMA AllUpTo ==
  ASSUME NEW N \in Nat, NEW G, 0 \in G,
         \A n \in 1 .. N : n - 1 \in G => n \in G
  PROVE  \A n \in 0 .. N : n \in G
  <1>. DEFINE S == {n \in 0 .. N : n \notin G}
  <1>1. SUFFICES ASSUME S # {} PROVE FALSE
    OBVIOUS
  <1>2. PICK x \in S : \A y \in S : x <= y
    <2>1. S \in SUBSET Nat
      OBVIOUS
    <2>. QED
      BY <1>1, <2>1, LeastElement
  <1>3. x \in 1 .. N /\ x - 1 \in 0 .. N /\ ~(x <= x - 1)
    BY <1>2
  <1>4. x - 1 \in G
    BY <1>2, <1>3
  <1>. QED
    BY <1>2, <1>3, <1>4

(* A value for each number up to N that starts with zero and is made, step *)
(* by step, of the one before.                                             *)
MadeOf(f, N, S, zero, step) ==
  /\ f \in [0 .. N -> S] /\ f[0] = zero
  /\ \A k \in 1 .. N : f[k] = step[k][f[k - 1]]

LEMMA Recursion ==
  ASSUME NEW N \in Nat, NEW S, NEW zero \in S,
         NEW step \in [1 .. N -> [S -> S]]
  PROVE  \E f : MadeOf(f, N, S, zero, step)
  <1>. DEFINE Made(n, f) == MadeOf(f, n, S, zero, step)
              G == {n \in 0 .. N : \E f : Made(n, f)}
  <1>1. 0 \in G
    <2>1. Made(0, [k \in 0 .. 0 |-> zero])
      BY DEF MadeOf
    <2>. HIDE DEF Made
    <2>2. 0 \in 0 .. N
      OBVIOUS
    <2>. QED
      BY <2>1, <2>2, Zenon
  <1>2. ASSUME NEW n \in 1 .. N, n - 1 \in G PROVE n \in G
    <2>1. PICK f : Made(n - 1, f)
      BY <1>2
    <2>. DEFINE g == [k \in 0 .. n |-> IF k < n THEN f[k]
                                       ELSE step[n][f[n - 1]]]
    <2>2. f[n - 1] \in S /\ step[n] \in [S -> S]
      BY <2>1 DEF MadeOf
    <2>3. \A k \in 0 .. n - 1 : g[k] = f[k] /\ f[k] \in S
      BY <2>1 DEF MadeOf
    <2>4. g[n] = step[n][f[n - 1]] /\ g[n] \in S
      BY <2>2
    <2>5. g \in [0 .. n -> S]
      <3>1. \A k \in 0 .. n : g[k] \in S
        <4>1. \A k \in 0 .. n : k \in 0 .. n - 1 \/ k = n
          OBVIOUS
        <4>. HIDE DEF g
        <4>. QED
          BY <2>3, <2>4, <4>1
      <3>. QED
        BY <3>1
    <2>. HIDE DEF g
    <2>6. ASSUME NEW k \in 1 .. n PROVE g[k] = step[k][g[k - 1]]
      <3>1. k - 1 \in 0 .. n - 1 /\ g[k - 1] = f[k - 1]
        BY <2>3
      <3>2. CASE k = n
        BY <2>4, <3>1, <3>2
      <3>3. CASE k # n
        <4>1. k \in 1 .. n - 1
          BY <3>3
        <4>. QED
          BY <2>1, <2>3, <3>1, <4>1 DEF MadeOf
      <3>. QED
        BY <3>2, <3>3
    <2>7. g[0] = zero
      BY <2>1, <2>3 DEF MadeOf
    <2>8. Made(n, g)
      BY <2>5, <2>6, <2>7 DEF MadeOf
    <2>. QED
      BY <2>8
  <1>. HIDE DEF G
  <1>3. \A n \in 0 .. N : n \in G
    BY <1>1, <1>2, AllUpTo
  <1>. QED
    BY <1>3 DEF G

(* There is only one such function.                                        *)
LEMMA RecursionIs ==
  ASSUME NEW N \in Nat, NEW S, NEW zero \in S,
         NEW step \in [1 .. N -> [S -> S]],
         NEW f, f = [k \in 0 .. N |-> f[k]], f[0] = zero,
         \A k \in 1 .. N : f[k - 1] \in S => f[k] = step[k][f[k - 1]]
  PROVE  MadeOf(f, N, S, zero, step)
  <1>. DEFINE G == {k \in 0 .. N : f[k] \in S}
  <1>1. 0 \in G
    OBVIOUS
  <1>2. ASSUME NEW k \in 1 .. N, k - 1 \in G PROVE k \in G
    <2>1. f[k - 1] \in S /\ step[k] \in [S -> S]
      BY <1>2
    <2>2. f[k] = step[k][f[k - 1]]
      BY <2>1, Zenon
    <2>3. step[k][f[k - 1]] \in S
      BY <2>1, Zenon
    <2>4. k \in 0 .. N
      OBVIOUS
    <2>. QED
      BY <2>2, <2>3, <2>4, Zenon
  <1>3. \A k \in 0 .. N : k \in G
    <2>. HIDE DEF G
    <2>. QED
      BY <1>1, <1>2, AllUpTo
  <1>4. f \in [0 .. N -> S]
    BY <1>3
  <1>5. ASSUME NEW k \in 1 .. N PROVE f[k] = step[k][f[k - 1]]
    <2>1. k - 1 \in 0 .. N
      OBVIOUS
    <2>2. f[k - 1] \in S
      BY <1>4, <2>1, Zenon
    <2>. QED
      BY <2>2, Zenon
  <1>. QED
    BY <1>4, <1>5, Zenon DEF MadeOf

(* The lines of noisetrekker2's positions.                                 *)
LEMMA LinesAre ==
  ASSUME NEW t, t.lines \in Seq(Nat \ {0})
  PROVE  LET l == LinesUpTo(t) IN
         /\ l \in [0 .. Len(t.lines) -> Nat] /\ l[0] = 0
         /\ \A k \in 1 .. Len(t.lines) : l[k] = l[k - 1] + t.lines[k]
  <1>. DEFINE N == Len(t.lines)
              Is(g) == g = [k \in 0 .. N |->
                              IF k = 0 THEN 0 ELSE g[k - 1] + t.lines[k]]
              step == [k \in 1 .. N |-> [x \in Nat |-> x + t.lines[k]]]
              r == CHOOSE g : Is(g)
  <1>0. N \in Nat /\ \A k \in 1 .. N : t.lines[k] \in Nat
    OBVIOUS
  <1>1. LinesUpTo(t) = r
    BY DEF LinesUpTo
  <1>2. /\ step \in [1 .. N -> [Nat -> Nat]] /\ 0 \in Nat
        /\ \A k \in 1 .. N : \A x \in Nat : step[k][x] = x + t.lines[k]
    <2>. HIDE DEF N
    <2>1. ASSUME NEW k \in 1 .. N
          PROVE  [x \in Nat |-> x + t.lines[k]] \in [Nat -> Nat]
      BY <1>0
    <2>. QED
      BY <2>1
  <1>. HIDE DEF step
  <1>3. \E f : MadeOf(f, N, Nat, 0, step)
    <2>. HIDE DEF N
    <2>. QED
      BY <1>0, <1>2, Recursion
  <1>4. PICK f : MadeOf(f, N, Nat, 0, step)
    BY <1>3
  <1>5. Is(f)
    <2>1. \A k \in 0 .. N : f[k] = IF k = 0 THEN 0 ELSE f[k - 1] + t.lines[k]
      <3>1. f[0] = 0
        BY <1>4 DEF MadeOf
      <3>2. ASSUME NEW k \in 1 .. N PROVE f[k] = f[k - 1] + t.lines[k]
        <4>1. k - 1 \in 0 .. N
          BY <1>0
        <4>. QED
          BY <1>2, <1>4, <4>1 DEF MadeOf
      <3>. QED
        BY <3>1, <3>2
    <2>2. f = [k \in 0 .. N |-> f[k]]
      BY <1>4 DEF MadeOf
    <2>. QED
      BY <2>1, <2>2
  <1>6. Is(r)
    BY <1>5
  <1>. HIDE DEF r
  <1>7. /\ r = [k \in 0 .. N |-> r[k]] /\ r[0] = 0
        /\ \A k \in 1 .. N : r[k] = r[k - 1] + t.lines[k]
    <2>1. \A k \in 0 .. N :
            r[k] = IF k = 0 THEN 0 ELSE r[k - 1] + t.lines[k]
      BY <1>6
    <2>2. r = [k \in 0 .. N |-> r[k]]
      BY <1>6
    <2>. HIDE DEF N
    <2>3. /\ 0 \in 0 .. N
          /\ \A k \in 1 .. N : k \in 0 .. N /\ k # 0
      BY <1>0
    <2>. QED
      BY <2>1, <2>2, <2>3
  <1>8. MadeOf(r, N, Nat, 0, step)
    <2>. HIDE DEF N
    <2>1. \A k \in 1 .. N : r[k - 1] \in Nat => r[k] = step[k][r[k - 1]]
      BY <1>2, <1>7
    <2>. QED
      BY <1>0, <1>2, <1>7, <2>1, RecursionIs
  <1>. QED
    BY <1>1, <1>7, <1>8 DEF MadeOf

(* st23play's orders, one after the other.                                 *)
LEMMA RouteIs ==
  ASSUME NEW t, t.orders \in Seq(Order), t.orders # <<>>
  PROVE  LET o == Route(t) IN
         /\ o \in [0 .. Len(t.orders) -> 0 .. Len(t.orders) - 1] /\ o[0] = 0
         /\ \A j \in 1 .. Len(t.orders) : o[j] = NextOrder(t, o[j - 1])
  <1>. DEFINE N == Len(t.orders)
              S == 0 .. N - 1
              Is(g) == g = [j \in 0 .. N |->
                              IF j = 0 THEN 0 ELSE NextOrder(t, g[j - 1])]
              step == [j \in 1 .. N |-> [o \in S |-> NextOrder(t, o)]]
              r == CHOOSE g : Is(g)
  <1>0. N \in Nat \ {0} /\ 0 \in S
    OBVIOUS
  <1>1. Route(t) = r
    BY DEF Route
  <1>2. /\ step \in [1 .. N -> [S -> S]]
        /\ \A j \in 1 .. N : \A o \in S : step[j][o] = NextOrder(t, o)
    <2>1. ASSUME NEW o \in S PROVE NextOrder(t, o) \in S
      BY <1>0 DEF NextOrder, JumpTo
    <2>2. [o \in S |-> NextOrder(t, o)] \in [S -> S]
      <3>. HIDE DEF S
      <3>. QED
        BY <2>1
    <2>. HIDE DEF S, N
    <2>. QED
      BY <2>2
  <1>. HIDE DEF step, S
  <1>3. \E f : MadeOf(f, N, S, 0, step)
    <2>. HIDE DEF N
    <2>1. N \in Nat
      BY <1>0
    <2>. QED
      BY <1>0, <1>2, <2>1, Recursion
  <1>4. PICK f : MadeOf(f, N, S, 0, step)
    BY <1>3
  <1>5. Is(f)
    <2>1. \A j \in 0 .. N : f[j] = IF j = 0 THEN 0 ELSE NextOrder(t, f[j - 1])
      <3>1. f[0] = 0
        BY <1>4 DEF MadeOf
      <3>2. ASSUME NEW j \in 1 .. N PROVE f[j] = NextOrder(t, f[j - 1])
        <4>1. j - 1 \in 0 .. N
          BY <1>0
        <4>. QED
          BY <1>2, <1>4, <4>1 DEF MadeOf
      <3>. QED
        BY <3>1, <3>2
    <2>2. f = [j \in 0 .. N |-> f[j]]
      BY <1>4 DEF MadeOf
    <2>. QED
      BY <2>1, <2>2
  <1>6. Is(r)
    BY <1>5
  <1>. HIDE DEF r
  <1>7. /\ r = [j \in 0 .. N |-> r[j]] /\ r[0] = 0
        /\ \A j \in 1 .. N : r[j] = NextOrder(t, r[j - 1])
    <2>1. \A j \in 0 .. N :
            r[j] = IF j = 0 THEN 0 ELSE NextOrder(t, r[j - 1])
      BY <1>6
    <2>2. r = [j \in 0 .. N |-> r[j]]
      BY <1>6
    <2>. HIDE DEF N
    <2>3. /\ 0 \in 0 .. N
          /\ \A j \in 1 .. N : j \in 0 .. N /\ j # 0
      BY <1>0
    <2>. QED
      BY <2>1, <2>2, <2>3
  <1>8. MadeOf(r, N, S, 0, step)
    <2>. HIDE DEF N
    <2>1. \A j \in 1 .. N : r[j - 1] \in S => r[j] = step[j][r[j - 1]]
      BY <1>2, <1>7
    <2>2. N \in Nat
      BY <1>0
    <2>. QED
      BY <1>0, <1>2, <1>7, <2>1, <2>2, RecursionIs
  <1>. QED
    BY <1>1, <1>7, <1>8 DEF MadeOf, S

(* The order that is played as the j-th after the first, and for how long. *)
OrderOf(t, j) == t.orders[Route(t)[j] + 1]
Lasts(t, j)   == t.spt * OrderOf(t, j).ticks

LEMMA OrdersAre ==
  ASSUME NEW t, t.orders \in Seq(Order), t.orders # <<>>,
         NEW j \in 0 .. Len(t.orders)
  PROVE  OrderOf(t, j) \in Order /\ Route(t)[j] + 1 \in DOMAIN t.orders
  <1>1. Route(t)[j] \in 0 .. Len(t.orders) - 1
    BY RouteIs
  <1>2. Route(t)[j] + 1 \in 1 .. Len(t.orders)
    BY <1>1
  <1>. QED
    BY <1>2 DEF OrderOf

LEMMA FramesAre ==
  ASSUME NEW t, t.orders \in Seq(Order), t.orders # <<>>, t.spt \in Nat
  PROVE  LET l == FramesTo(t) IN
         /\ l \in [0 .. Len(t.orders) -> Nat] /\ l[0] = 0
         /\ \A j \in 1 .. Len(t.orders) : l[j] = l[j - 1] + Lasts(t, j - 1)
  <1>. DEFINE N == Len(t.orders)
              Is(g) == g = [j \in 0 .. N |->
                              IF j = 0 THEN 0
                              ELSE g[j - 1] + t.spt
                                     * t.orders[Route(t)[j - 1] + 1].ticks]
              step == [j \in 1 .. N |-> [x \in Nat |-> x + Lasts(t, j - 1)]]
              r == CHOOSE g : Is(g)
  <1>0. N \in Nat /\ \A j \in 1 .. N : Lasts(t, j - 1) \in Nat
    <2>1. ASSUME NEW j \in 1 .. N PROVE Lasts(t, j - 1) \in Nat
      <3>1. j - 1 \in 0 .. Len(t.orders)
        OBVIOUS
      <3>2. OrderOf(t, j - 1).ticks \in Nat
        BY <3>1, OrdersAre DEF Order
      <3>. QED
        BY <3>2, ProductInNat DEF Lasts
    <2>. QED
      BY <2>1
  <1>1. FramesTo(t) = r
    BY DEF FramesTo
  <1>2. /\ step \in [1 .. N -> [Nat -> Nat]] /\ 0 \in Nat
        /\ \A j \in 1 .. N : \A x \in Nat : step[j][x] = x + Lasts(t, j - 1)
    <2>. HIDE DEF N
    <2>1. ASSUME NEW j \in 1 .. N
          PROVE  [x \in Nat |-> x + Lasts(t, j - 1)] \in [Nat -> Nat]
      BY <1>0
    <2>. QED
      BY <2>1
  <1>. HIDE DEF step
  <1>3. \E f : MadeOf(f, N, Nat, 0, step)
    <2>. HIDE DEF N
    <2>. QED
      BY <1>0, <1>2, Recursion
  <1>4. PICK f : MadeOf(f, N, Nat, 0, step)
    BY <1>3
  <1>5. Is(f)
    <2>1. \A j \in 0 .. N :
            f[j] = IF j = 0 THEN 0
                   ELSE f[j - 1] + t.spt * t.orders[Route(t)[j - 1] + 1].ticks
      <3>1. f[0] = 0
        BY <1>4 DEF MadeOf
      <3>2. ASSUME NEW j \in 1 .. N PROVE f[j] = f[j - 1] + Lasts(t, j - 1)
        <4>1. j - 1 \in 0 .. N
          BY <1>0
        <4>. QED
          BY <1>2, <1>4, <4>1 DEF MadeOf
      <3>. QED
        BY <3>1, <3>2 DEF Lasts, OrderOf
    <2>2. f = [j \in 0 .. N |-> f[j]]
      BY <1>4 DEF MadeOf
    <2>. QED
      BY <2>1, <2>2
  <1>6. Is(r)
    BY <1>5
  <1>. HIDE DEF r
  <1>7. /\ r = [j \in 0 .. N |-> r[j]] /\ r[0] = 0
        /\ \A j \in 1 .. N : r[j] = r[j - 1] + Lasts(t, j - 1)
    <2>1. \A j \in 0 .. N :
            r[j] = IF j = 0 THEN 0 ELSE r[j - 1] + Lasts(t, j - 1)
      BY <1>6 DEF Lasts, OrderOf
    <2>2. r = [j \in 0 .. N |-> r[j]]
      BY <1>6
    <2>. HIDE DEF N
    <2>3. /\ 0 \in 0 .. N
          /\ \A j \in 1 .. N : j \in 0 .. N /\ j # 0
      BY <1>0
    <2>. QED
      BY <2>1, <2>2, <2>3
  <1>8. MadeOf(r, N, Nat, 0, step)
    <2>. HIDE DEF N
    <2>1. \A j \in 1 .. N : r[j - 1] \in Nat => r[j] = step[j][r[j - 1]]
      BY <1>2, <1>7
    <2>. QED
      BY <1>0, <1>2, <1>7, <2>1, RecursionIs
  <1>. QED
    BY <1>1, <1>7, <1>8 DEF MadeOf

(* st23play's contexts, and the next frame.                                *)
Contexts ==
  [vpnt : Nat, order : Nat, tick : Nat, left : Nat, spt : Nat \ {0},
   restarted : BOOLEAN, seen : SUBSET Nat]

Frame(t, r) ==
  [(IF r.left = 0 THEN St23Tick(t, r) ELSE r) EXCEPT !.left = @ - 1]

LEMMA NextPatIs ==
  ASSUME NEW t, Len(t.orders) \in Nat, NEW r \in Contexts
  PROVE  LET v == IF r.vpnt + 1 >= Len(t.orders) THEN 0 ELSE r.vpnt + 1
             q == NextPat(t, r)
         IN  /\ v \in Nat /\ q \in Contexts
             /\ q.vpnt = v /\ q.order = v /\ q.tick = 0
             /\ q.restarted = (r.restarted \/ v = 0)
             /\ q.spt = r.spt /\ q.seen = r.seen /\ q.left = r.left
  <1>. DEFINE v == IF r.vpnt + 1 >= Len(t.orders) THEN 0 ELSE r.vpnt + 1
  <1>1. v \in Nat
    BY DEF Contexts
  <1>. DEFINE b == r.restarted \/ v = 0
  <1>2. NextPat(t, r) = [r EXCEPT !.vpnt = v, !.order = v, !.tick = 0,
                                  !.restarted = b]
    BY DEF NextPat
  <1>4. b \in BOOLEAN
    BY DEF Contexts
  <1>. HIDE DEF v, b
  <1>. DEFINE q == NextPat(t, r)
  <1>. HIDE DEF q
  <1>3. q = [r EXCEPT !.vpnt = v, !.order = v, !.tick = 0, !.restarted = b]
    BY <1>2 DEF q
  <1>5. q \in Contexts
    BY <1>1, <1>3, <1>4 DEF Contexts
  <1>6. q.vpnt = v /\ q.order = v /\ q.tick = 0 /\ q.restarted = b
    BY <1>3 DEF Contexts
  <1>7. q.spt = r.spt /\ q.seen = r.seen /\ q.left = r.left
    BY <1>3 DEF Contexts
  <1>. QED
    BY <1>1, <1>5, <1>6, <1>7 DEF v, b, q

LEMMA FrameIs ==
  ASSUME NEW t, Len(t.orders) \in Nat, NEW r \in Contexts
  PROVE  LET q == IF r.tick = t.orders[r.order + 1].ticks THEN NextPat(t, r)
                                                          ELSE r
             g == Frame(t, r)
         IN  /\ g \in Contexts /\ g.spt = r.spt /\ g.seen = r.seen
             /\ r.restarted => g.restarted
             /\ r.left # 0 =>
                  /\ g.vpnt = r.vpnt /\ g.order = r.order /\ g.tick = r.tick
                  /\ g.left = r.left - 1 /\ g.restarted = r.restarted
             /\ r.left = 0 =>
                  /\ g.vpnt = IF q.tick + 1 = t.orders[q.order + 1].jump
                              THEN JumpTo ELSE q.vpnt
                  /\ g.order = q.order /\ g.tick = q.tick + 1
                  /\ g.left = r.spt - 1 /\ g.restarted = q.restarted
  <1>. DEFINE q == IF r.tick = t.orders[r.order + 1].ticks THEN NextPat(t, r)
                                                          ELSE r
              v == IF q.tick + 1 = t.orders[q.order + 1].jump
                   THEN JumpTo ELSE q.vpnt
  <1>1. CASE r.left # 0
    <2>1. Frame(t, r) = [r EXCEPT !.left = @ - 1]
      BY <1>1 DEF Frame
    <2>2. r.left - 1 \in Nat
      BY <1>1 DEF Contexts
    <2>. QED
      BY <1>1, <2>1, <2>2 DEF Contexts
  <1>2. CASE r.left = 0
    <2>1. /\ q \in Contexts /\ q.spt = r.spt /\ q.seen = r.seen
          /\ q.left = r.left /\ (r.restarted => q.restarted)
      <3>1. CASE r.tick = t.orders[r.order + 1].ticks
        BY <3>1, NextPatIs
      <3>2. CASE r.tick # t.orders[r.order + 1].ticks
        BY <3>2
      <3>. QED
        BY <3>1, <3>2
    <2>2. St23Tick(t, r)
            = [q EXCEPT !.tick = @ + 1, !.left = r.spt, !.vpnt = v]
      BY Zenon DEF St23Tick
    <2>. HIDE DEF q
    <2>3. v \in Nat
      BY <2>1 DEF Contexts, JumpTo
    <2>. HIDE DEF v
    <2>. DEFINE s == St23Tick(t, r)
    <2>4. /\ s \in Contexts /\ s.vpnt = v /\ s.tick = q.tick + 1
          /\ s.left = r.spt /\ s.order = q.order /\ s.restarted = q.restarted
          /\ s.seen = q.seen /\ s.spt = q.spt
      <3>. DEFINE k == q.tick + 1
                  l == r.spt
      <3>1. s = [q EXCEPT !.tick = k, !.left = l, !.vpnt = v]
        BY <2>1, <2>2
      <3>2. k \in Nat /\ l \in Nat
        BY <2>1 DEF Contexts
      <3>. HIDE DEF k, l, s
      <3>3. s \in Contexts /\ s.vpnt = v /\ s.tick = k /\ s.left = l
        BY <2>1, <2>3, <3>1, <3>2 DEF Contexts
      <3>4. /\ s.order = q.order /\ s.restarted = q.restarted
            /\ s.seen = q.seen /\ s.spt = q.spt
        BY <2>1, <2>3, <3>1, <3>2 DEF Contexts
      <3>. QED
        BY <3>3, <3>4 DEF k, l
    <2>5. Frame(t, r) = [s EXCEPT !.left = @ - 1]
      BY <1>2 DEF Frame
    <2>. HIDE DEF s
    <2>6. s.left - 1 \in Nat
      BY <2>4 DEF Contexts
    <2>7. /\ Frame(t, r) \in Contexts
          /\ Frame(t, r).left = r.spt - 1
          /\ Frame(t, r).vpnt = v /\ Frame(t, r).tick = q.tick + 1
          /\ Frame(t, r).order = q.order
          /\ Frame(t, r).restarted = q.restarted
          /\ Frame(t, r).seen = q.seen /\ Frame(t, r).spt = q.spt
      BY <2>4, <2>5, <2>6 DEF Contexts
    <2>. QED
      BY <1>2, <2>1, <2>7 DEF q, v
  <1>. QED
    BY <1>1, <1>2

(* A buffer is filled frame by frame.                                      *)
Filling(t, r, fill) ==
  /\ fill \in [0 .. BufFrames -> Contexts] /\ fill[0] = r
  /\ \A m \in 1 .. BufFrames : fill[m] = Frame(t, fill[m - 1])
  /\ FillAudioBuffer(t, r) = fill[BufFrames]

LEMMA FillIs ==
  ASSUME NEW t, Len(t.orders) \in Nat, NEW r \in Contexts
  PROVE  \E fill : Filling(t, r, fill)
  <1>. DEFINE N == BufFrames
              Is(g) == g = [m \in 0 .. N |->
                              IF m = 0 THEN r ELSE Frame(t, g[m - 1])]
              step == [m \in 1 .. N |-> [x \in Contexts |-> Frame(t, x)]]
              f == CHOOSE g : Is(g)
  <1>0. N \in Nat
    BY BufAssumption
  <1>1. FillAudioBuffer(t, r) = f[N]
    BY DEF FillAudioBuffer, Frame
  <1>2. /\ step \in [1 .. N -> [Contexts -> Contexts]]
        /\ \A m \in 1 .. N : \A x \in Contexts : step[m][x] = Frame(t, x)
    <2>1. ASSUME NEW x \in Contexts PROVE Frame(t, x) \in Contexts
      BY FrameIs
    <2>2. [x \in Contexts |-> Frame(t, x)] \in [Contexts -> Contexts]
      BY <2>1
    <2>. HIDE DEF N
    <2>. QED
      BY <2>2
  <1>. HIDE DEF step
  <1>3. \E g : MadeOf(g, N, Contexts, r, step)
    <2>. HIDE DEF N
    <2>. QED
      BY <1>0, <1>2, Recursion
  <1>4. PICK g : MadeOf(g, N, Contexts, r, step)
    BY <1>3
  <1>5. Is(g)
    <2>1. \A m \in 0 .. N : g[m] = IF m = 0 THEN r ELSE Frame(t, g[m - 1])
      <3>1. g[0] = r
        BY <1>4 DEF MadeOf
      <3>2. ASSUME NEW m \in 1 .. N PROVE g[m] = Frame(t, g[m - 1])
        <4>1. m - 1 \in 0 .. N
          BY <1>0
        <4>. QED
          BY <1>2, <1>4, <4>1 DEF MadeOf
      <3>. QED
        BY <3>1, <3>2
    <2>2. g = [m \in 0 .. N |-> g[m]]
      BY <1>4 DEF MadeOf
    <2>. QED
      BY <2>1, <2>2
  <1>6. Is(f)
    BY <1>5
  <1>. HIDE DEF f
  <1>7. /\ f = [m \in 0 .. N |-> f[m]] /\ f[0] = r
        /\ \A m \in 1 .. N : f[m] = Frame(t, f[m - 1])
    <2>1. \A m \in 0 .. N :
            f[m] = IF m = 0 THEN r ELSE Frame(t, f[m - 1])
      BY <1>6
    <2>2. f = [m \in 0 .. N |-> f[m]]
      BY <1>6
    <2>. HIDE DEF N
    <2>3. /\ 0 \in 0 .. N
          /\ \A m \in 1 .. N : m \in 0 .. N /\ m # 0
      BY <1>0
    <2>. QED
      BY <2>1, <2>2, <2>3
  <1>8. MadeOf(f, N, Contexts, r, step)
    <2>. HIDE DEF N
    <2>1. \A m \in 1 .. N :
            f[m - 1] \in Contexts => f[m] = step[m][f[m - 1]]
      BY <1>2, <1>7
    <2>. QED
      BY <1>0, <1>2, <1>7, <2>1, RecursionIs
  <1>. QED
    BY <1>1, <1>7, <1>8 DEF MadeOf, Filling
------------------------------------------------------------------------------
(* A tune of st23play whose n-th order after the first was played before,  *)
(* and of whose orders none can be missed.                                 *)
Plays(t, n) ==
  /\ t.orders \in Seq(Order) /\ t.orders # <<>> /\ t.spt \in Nat \ {0}
  /\ n \in 1 .. Len(t.orders) /\ Again(t, n)
  /\ \A i \in DOMAIN t.orders : /\ t.orders[i].jump <= t.orders[i].ticks
                                /\ ~Hasty(t, t.orders[i])

(* Its orders, and the frames before each.                                 *)
LEMMA PlaysFacts ==
  ASSUME NEW t, NEW n, Plays(t, n)
  PROVE  /\ Len(t.orders) \in Nat \ {0}
         /\ Route(t)[0] = 0 /\ FramesTo(t)[0] = 0
         /\ \A j \in 0 .. n : /\ Route(t)[j] \in 0 .. Len(t.orders) - 1
                              /\ FramesTo(t)[j] \in Nat
         /\ \A j \in 0 .. n - 1 :
              /\ j + 1 \in 0 .. n
              /\ Route(t)[j + 1] = NextOrder(t, Route(t)[j])
              /\ FramesTo(t)[j + 1]
                   = FramesTo(t)[j] + OrderOf(t, j).ticks * t.spt
  <1>. DEFINE N == Len(t.orders)
  <1>1. t.orders \in Seq(Order) /\ t.orders # <<>> /\ t.spt \in Nat
    BY DEF Plays
  <1>2. N \in Nat \ {0} /\ n \in 1 .. N
    BY DEF Plays
  <1>3. /\ Route(t) \in [0 .. N -> 0 .. N - 1] /\ Route(t)[0] = 0
        /\ \A j \in 1 .. N : Route(t)[j] = NextOrder(t, Route(t)[j - 1])
    BY <1>1, RouteIs
  <1>4. /\ FramesTo(t) \in [0 .. N -> Nat] /\ FramesTo(t)[0] = 0
        /\ \A j \in 1 .. N :
             FramesTo(t)[j] = FramesTo(t)[j - 1] + Lasts(t, j - 1)
    BY <1>1, FramesAre
  <1>5. \A j \in 0 .. N : OrderOf(t, j).ticks \in Nat
    BY <1>1, OrdersAre DEF Order
  <1>. HIDE DEF N
  <1>6. ASSUME NEW j \in 0 .. n
        PROVE  /\ Route(t)[j] \in 0 .. N - 1 /\ FramesTo(t)[j] \in Nat
    <2>1. j \in 0 .. N
      BY <1>2
    <2>. QED
      BY <1>3, <1>4, <2>1
  <1>7. ASSUME NEW j \in 0 .. n - 1
        PROVE  /\ j + 1 \in 0 .. n
               /\ Route(t)[j + 1] = NextOrder(t, Route(t)[j])
               /\ FramesTo(t)[j + 1]
                    = FramesTo(t)[j] + OrderOf(t, j).ticks * t.spt
    <2>1. /\ j + 1 \in 1 .. N /\ j + 1 - 1 = j /\ j + 1 \in 0 .. n
          /\ j \in 0 .. N
      BY <1>2
    <2>2. Lasts(t, j) = OrderOf(t, j).ticks * t.spt
      <3>1. \A a \in Nat, b \in Nat : a * b = b * a
        OBVIOUS
      <3>. QED
        BY <1>1, <1>5, <2>1, <3>1 DEF Lasts
    <2>3. Route(t)[j + 1] = NextOrder(t, Route(t)[j + 1 - 1])
      BY <1>3, <2>1
    <2>4. FramesTo(t)[j + 1] = FramesTo(t)[j + 1 - 1] + Lasts(t, j + 1 - 1)
      BY <1>4, <2>1
    <2>. QED
      BY <2>1, <2>2, <2>3, <2>4
  <1>. QED
    BY <1>2, <1>3, <1>4, <1>6, <1>7 DEF N

LEMMA FramesGrow ==
  ASSUME NEW t, NEW n, Plays(t, n), NEW j \in 0 .. n
  PROVE  FramesTo(t)[j] <= FramesTo(t)[n]
  <1>. DEFINE l == FramesTo(t)
              G == {k \in 0 .. n : j <= k => l[j] <= l[k]}
  <1>1. n \in Nat
    BY DEF Plays
  <1>2. ASSUME NEW k \in 0 .. n - 1
        PROVE  l[k] <= l[k + 1] /\ l[k] \in Nat /\ l[k + 1] \in Nat
    <2>1. l[k + 1] = l[k] + OrderOf(t, k).ticks * t.spt
      BY PlaysFacts
    <2>2. l[k] \in Nat /\ l[k + 1] \in Nat
      <3>1. k \in 0 .. n /\ k + 1 \in 0 .. n
        BY <1>1
      <3>. QED
        BY <3>1, PlaysFacts
    <2>3. OrderOf(t, k).ticks * t.spt \in Nat
      <3>1. t.spt \in Nat /\ t.orders \in Seq(Order) /\ t.orders # <<>>
        BY DEF Plays
      <3>2. k \in 0 .. Len(t.orders)
        BY <3>1 DEF Plays
      <3>3. OrderOf(t, k).ticks \in Nat
        BY <3>1, <3>2, OrdersAre DEF Order
      <3>. QED
        BY <3>1, <3>3, ProductInNat
    <2>. HIDE DEF l
    <2>. QED
      BY <2>1, <2>2, <2>3
  <1>3. l[j] \in Nat
    BY PlaysFacts
  <1>. HIDE DEF l
  <1>4. 0 \in G
    BY <1>1, <1>3
  <1>5. ASSUME NEW k \in 1 .. n, k - 1 \in G PROVE k \in G
    <2>1. k - 1 \in 0 .. n - 1 /\ k - 1 + 1 = k
      BY <1>1
    <2>2. l[k - 1] <= l[k] /\ l[k - 1] \in Nat /\ l[k] \in Nat
      BY <1>2, <2>1
    <2>3. CASE j <= k - 1
      BY <1>3, <1>5, <2>2, <2>3
    <2>4. CASE j = k
      BY <1>3, <2>4
    <2>. QED
      BY <1>1, <2>3, <2>4
  <1>6. \A k \in 0 .. n : k \in G
    <2>. HIDE DEF G
    <2>. QED
      BY <1>1, <1>4, <1>5, AllUpTo
  <1>7. n \in G
    BY <1>1, <1>6
  <1>. QED
    BY <1>7 DEF l

(* No order can be missed, neither before its jump nor from it on.         *)
LEMMA OrdersLast ==
  ASSUME NEW t, NEW n, Plays(t, n), NEW j \in 0 .. n
  PROVE  LET o == OrderOf(t, j) IN
         /\ o.ticks \in Nat \ {0} /\ o.jump \in 0 .. o.ticks
         /\ o.jump = 0 => BufFrames <= o.ticks * t.spt
         /\ o.jump # 0 =>
              /\ BufFrames <= (o.jump - 1) * t.spt
              /\ (o.jump - 1) * t.spt + BufFrames <= o.ticks * t.spt
  <1>. DEFINE o == OrderOf(t, j)
  <1>1. t.spt \in Nat \ {0} /\ BufFrames \in Nat \ {0}
    BY BufAssumption DEF Plays
  <1>2. o \in Order /\ Route(t)[j] + 1 \in DOMAIN t.orders
    <2>1. /\ t.orders \in Seq(Order) /\ t.orders # <<>>
          /\ j \in 0 .. Len(t.orders)
      BY DEF Plays
    <2>. QED
      BY <2>1, OrdersAre
  <1>3. o.jump <= o.ticks /\ ~Hasty(t, o)
    BY <1>2 DEF Plays, OrderOf
  <1>. HIDE DEF o
  <1>4. o.ticks \in Nat \ {0} /\ o.jump \in 0 .. o.ticks
    BY <1>2, <1>3 DEF Order
  <1>5. \A a \in Int : t.spt * a = a * t.spt /\ a * t.spt \in Int
    BY <1>1
  <1>6. CASE o.jump = 0
    <2>1. ~(t.spt * o.ticks < BufFrames)
      BY <1>3, <1>6 DEF Hasty
    <2>. QED
      BY <1>1, <1>4, <1>5, <1>6, <2>1 DEF o
  <1>7. CASE o.jump # 0
    <2>. DEFINE a == o.jump - 1
                b == o.ticks - o.jump + 1
    <2>1. a \in Nat /\ b \in Nat /\ o.ticks = a + b
      BY <1>4, <1>7
    <2>2. ~(t.spt * Least(a, b) < BufFrames)
      BY <1>3, <1>7 DEF Hasty
    <2>. HIDE DEF a, b
    <2>3. /\ Least(a, b) \in Nat /\ Least(a, b) <= a /\ Least(a, b) <= b
      BY <2>1 DEF Least
    <2>4. BufFrames <= Least(a, b) * t.spt
      BY <1>1, <1>5, <2>2, <2>3
    <2>5. Least(a, b) * t.spt <= a * t.spt /\ Least(a, b) * t.spt <= b * t.spt
      BY <1>1, <2>1, <2>3, Multiples
    <2>6. o.ticks * t.spt = a * t.spt + b * t.spt
      BY <1>1, <2>1
    <2>. QED
      BY <1>1, <1>4, <1>5, <1>7, <2>1, <2>3, <2>4, <2>5, <2>6 DEF a, o
  <1>. QED
    BY <1>4, <1>6, <1>7 DEF o

(* After f frames, st23play is in the j-th order after the first.          *)
Playing(t, j, f, r) ==
  /\ r \in Contexts /\ r.spt = t.spt /\ ~r.restarted
  /\ r.order = Route(t)[j]
  /\ r.tick \in 0 .. OrderOf(t, j).ticks
  /\ r.left < t.spt /\ (r.tick = 0 => r.left = 0)
  /\ f + r.left = FramesTo(t)[j] + r.tick * t.spt
  /\ r.vpnt = IF OrderOf(t, j).jump # 0 /\ OrderOf(t, j).jump <= r.tick
              THEN JumpTo ELSE Route(t)[j]

(* The vpnt that an order leaves, the one before the next order's.         *)
Leaves(t, j) == IF OrderOf(t, j).jump = 0 THEN Route(t)[j] ELSE JumpTo

LEMMA NextOrderIs ==
  ASSUME NEW t, NEW n, Plays(t, n), NEW j \in 0 .. n - 1
  PROVE  /\ Leaves(t, j) \in Nat
         /\ Route(t)[j + 1] = IF Leaves(t, j) + 1 >= Len(t.orders) THEN 0
                              ELSE Leaves(t, j) + 1
  <1>1. Route(t)[j + 1] = NextOrder(t, Route(t)[j])
    BY PlaysFacts
  <1>2. Route(t)[j] \in Nat
    <2>1. j \in 0 .. n
      BY DEF Plays
    <2>. QED
      BY <2>1, PlaysFacts
  <1>. QED
    BY <1>1, <1>2 DEF NextOrder, Leaves, OrderOf, JumpTo

(* With a frame it goes on in its order, or to the next one.               *)
LEMMA FrameMoves ==
  ASSUME NEW t, NEW n, Plays(t, n), NEW j \in 0 .. n - 1, NEW f \in Nat,
         NEW r, Playing(t, j, f, r)
  PROVE  \/ Playing(t, j, f + 1, Frame(t, r))
         \/ /\ f = FramesTo(t)[j + 1]
            /\ IF Route(t)[j + 1] = 0 THEN Frame(t, r).restarted
               ELSE Playing(t, j + 1, f + 1, Frame(t, r))
  <1>. DEFINE o == OrderOf(t, j)
              g == Frame(t, r)
              l == FramesTo(t)[j]
  <1>1. r \in Contexts /\ Len(t.orders) \in Nat \ {0} /\ t.spt \in Nat \ {0}
    BY PlaysFacts DEF Playing, Plays
  <1>2. /\ o.ticks \in Nat \ {0} /\ o.jump \in 0 .. o.ticks
        /\ l \in Nat /\ FramesTo(t)[j + 1] = l + o.ticks * t.spt
    <2>1. j \in 0 .. n
      BY DEF Plays
    <2>. QED
      BY <2>1, OrdersLast, PlaysFacts
  <1>3. /\ r.tick \in 0 .. o.ticks /\ r.left \in Nat /\ r.left < t.spt
        /\ (r.tick = 0 => r.left = 0) /\ f + r.left = l + r.tick * t.spt
        /\ r.spt = t.spt /\ r.vpnt \in Nat /\ r.order = Route(t)[j]
    BY DEF Playing, Contexts
  <1>11. r.tick \in 0 .. o.ticks /\ o.ticks \in Nat
    BY <1>2, <1>3
  <1>4. t.orders[r.order + 1] = o
    BY <1>3 DEF OrderOf
  <1>5. r.vpnt = IF o.jump # 0 /\ o.jump <= r.tick THEN JumpTo ELSE Route(t)[j]
    BY DEF Playing
  <1>6. g \in Contexts /\ g.spt = t.spt
    BY <1>1, <1>3, FrameIs
  <1>7. ~r.restarted
    BY DEF Playing
  <1>. HIDE DEF o, g, l
  <1>8. CASE r.left # 0
    <2>1. /\ g.vpnt = r.vpnt /\ g.order = r.order /\ g.tick = r.tick
          /\ g.left = r.left - 1 /\ g.restarted = r.restarted
      BY <1>1, <1>8, FrameIs DEF g
    <2>2. /\ g.tick \in 0 .. o.ticks /\ g.left < t.spt /\ g.tick # 0
          /\ f + 1 + g.left = l + g.tick * t.spt
      <3>. DEFINE x == r.tick * t.spt
      <3>1. g.tick \in 0 .. o.ticks /\ g.tick # 0 /\ g.tick * t.spt = x
        BY <1>3, <1>8, <1>11, <2>1
      <3>2. /\ f + r.left = l + x /\ r.left \in Nat /\ r.left < t.spt
            /\ t.spt \in Nat /\ l \in Nat
        BY <1>1, <1>2, <1>3
      <3>3. x \in Nat
        BY <1>1, <1>11, ProductInNat
      <3>. HIDE DEF x
      <3>4. g.left < t.spt /\ f + 1 + g.left = l + x
        BY <2>1, <3>2, <3>3
      <3>. QED
        BY <3>1, <3>4
    <2>3. ~g.restarted /\ g.order = Route(t)[j]
      BY <1>3, <1>7, <2>1
    <2>4. g.vpnt = IF o.jump # 0 /\ o.jump <= g.tick THEN JumpTo
                                                     ELSE Route(t)[j]
      BY <1>5, <2>1
    <2>5. Playing(t, j, f + 1, g)
      BY <1>6, <2>2, <2>3, <2>4 DEF Playing, o, l
    <2>. QED
      BY <2>5 DEF g
  <1>9. CASE r.left = 0 /\ r.tick # o.ticks
    <2>1. /\ g.vpnt = IF r.tick + 1 = o.jump THEN JumpTo ELSE r.vpnt
          /\ g.order = r.order /\ g.tick = r.tick + 1
          /\ g.left = t.spt - 1 /\ g.restarted = r.restarted
      BY <1>1, <1>3, <1>4, <1>9, FrameIs DEF g
    <2>2. (r.tick + 1) * t.spt = r.tick * t.spt + t.spt
      BY <1>1, <1>3, Multiples
    <2>3. /\ g.tick \in 0 .. o.ticks /\ g.left < t.spt /\ g.tick # 0
          /\ f + 1 + g.left = l + g.tick * t.spt
      <3>1. r.tick * t.spt \in Nat
        BY <1>1, <1>3, ProductInNat
      <3>2. g.tick * t.spt = r.tick * t.spt + t.spt
        BY <2>1, <2>2
      <3>3. f = l + r.tick * t.spt
        BY <1>3, <1>9
      <3>4. g.tick \in 0 .. o.ticks /\ g.left < t.spt /\ g.tick # 0
        <4>1. t.spt \in Nat \ {0} /\ g.left = t.spt - 1 /\ g.tick = r.tick + 1
          BY <1>1, <2>1
        <4>. QED
          BY <1>9, <1>11, <4>1
      <3>5. f + 1 + g.left = l + g.tick * t.spt
        <4>. DEFINE x == r.tick * t.spt
                    y == g.tick * t.spt
        <4>1. x \in Nat /\ y = x + t.spt /\ f = l + x
          BY <3>1, <3>2, <3>3
        <4>. HIDE DEF x, y
        <4>2. f + 1 + g.left = l + y
          BY <1>1, <1>2, <2>1, <4>1
        <4>. QED
          BY <4>2 DEF y
      <3>. QED
        BY <3>4, <3>5
    <2>4. ~g.restarted /\ g.order = Route(t)[j]
      BY <1>3, <1>7, <2>1
    <2>5. g.vpnt = IF o.jump # 0 /\ o.jump <= g.tick THEN JumpTo
                                                     ELSE Route(t)[j]
      BY <1>2, <1>3, <1>5, <2>1
    <2>6. Playing(t, j, f + 1, g)
      BY <1>6, <2>3, <2>4, <2>5 DEF Playing, o, l
    <2>. QED
      BY <2>6 DEF g
  <1>10. CASE r.left = 0 /\ r.tick = o.ticks
    <2>. DEFINE p == OrderOf(t, j + 1)
                v == Route(t)[j + 1]
                q == NextPat(t, r)
    <2>1. f = FramesTo(t)[j + 1] /\ f = l + o.ticks * t.spt
      <3>1. o.ticks * t.spt \in Nat
        BY <1>1, <1>2, ProductInNat
      <3>. QED
        BY <1>2, <1>3, <1>10, <3>1
    <2>2. r.vpnt = Leaves(t, j)
      BY <1>2, <1>5, <1>10 DEF Leaves, o
    <2>3. /\ q.vpnt = v /\ q.order = v /\ q.tick = 0
          /\ q.restarted = (r.restarted \/ v = 0)
      <3>1. v = IF r.vpnt + 1 >= Len(t.orders) THEN 0 ELSE r.vpnt + 1
        BY <2>2, NextOrderIs
      <3>. HIDE DEF v
      <3>. QED
        BY <1>1, <3>1, NextPatIs
    <2>4. /\ g.vpnt = IF q.tick + 1 = t.orders[q.order + 1].jump THEN JumpTo
                                                                ELSE q.vpnt
          /\ g.order = q.order /\ g.tick = q.tick + 1
          /\ g.left = r.spt - 1 /\ g.restarted = q.restarted
      <3>. HIDE DEF q
      <3>. QED
        BY <1>1, <1>4, <1>10, FrameIs DEF g, q
    <2>5. v = 0 => g.restarted
      BY <2>3, <2>4
    <2>6. CASE v # 0
      <3>1. /\ p.ticks \in Nat \ {0} /\ p.jump \in 0 .. p.ticks
            /\ FramesTo(t)[j + 1] \in Nat
        <4>1. j + 1 \in 0 .. n
          BY PlaysFacts
        <4>. QED
          BY <4>1, OrdersLast, PlaysFacts
      <3>2. t.orders[q.order + 1] = p
        BY <2>3 DEF OrderOf
      <3>. HIDE DEF p, v, q
      <3>6. ~g.restarted
        BY <1>7, <2>3, <2>4, <2>6, Zenon
      <3>3. ~g.restarted /\ g.order = v /\ g.tick = 1 /\ g.left = t.spt - 1
        BY <1>3, <2>3, <2>4, <3>6
      <3>4. g.vpnt = IF p.jump # 0 /\ p.jump <= g.tick THEN JumpTo ELSE v
        BY <2>3, <2>4, <3>1, <3>2, <3>3
      <3>5. /\ g.tick \in 0 .. p.ticks /\ g.left < t.spt /\ g.tick # 0
            /\ f + 1 + g.left = FramesTo(t)[j + 1] + g.tick * t.spt
        <4>1. g.tick * t.spt = t.spt
          BY <1>1, <3>3
        <4>. QED
          BY <1>1, <2>1, <3>1, <3>3, <4>1
      <3>. QED
        <4>1. Playing(t, j + 1, f + 1, g)
          BY <1>6, <3>3, <3>4, <3>5 DEF Playing, p, v
        <4>. QED
          BY <2>1, <2>6, <4>1 DEF g, v
    <2>. QED
      BY <2>1, <2>5, <2>6 DEF g
  <1>. QED
    BY <1>8, <1>9, <1>10

(* With a buffer it is still in its order, in the next one, or at the top. *)
LEMMA BufferMoves ==
  ASSUME NEW t, NEW n, Plays(t, n), NEW j \in 0 .. n - 1, NEW f \in Nat,
         NEW r, Playing(t, j, f, r),
         j + 1 = n /\ Route(t)[n] # 0 => f + BufFrames <= FramesTo(t)[n]
  PROVE  LET q == FillAudioBuffer(t, r) IN
         /\ q \in Contexts /\ q.seen = r.seen
         /\ \/ q.restarted
            \/ Playing(t, j, f + BufFrames, q)
            \/ /\ j + 1 < n /\ Route(t)[j + 1] # 0
               /\ FramesTo(t)[j + 1] < f + BufFrames
               /\ Playing(t, j + 1, f + BufFrames, q)
  <1>. DEFINE B == BufFrames
  <1>0. B \in Nat \ {0} /\ n \in Nat \ {0} /\ Len(t.orders) \in Nat
    BY BufAssumption, PlaysFacts DEF Plays
  <1>1. r \in Contexts
    BY DEF Playing
  <1>8. PICK fill : Filling(t, r, fill)
    BY <1>0, <1>1, FillIs
  <1>2. /\ fill \in [0 .. B -> Contexts] /\ fill[0] = r
        /\ \A m \in 1 .. B : fill[m] = Frame(t, fill[m - 1])
        /\ FillAudioBuffer(t, r) = fill[B]
    BY <1>8 DEF Filling
  <1>. DEFINE Next1(m) == /\ j + 1 < n /\ Route(t)[j + 1] # 0
                          /\ FramesTo(t)[j + 1] < f + m
                          /\ Playing(t, j + 1, f + m, fill[m])
              G == {m \in 0 .. B : /\ fill[m].seen = r.seen
                                   /\ \/ fill[m].restarted
                                      \/ Playing(t, j, f + m, fill[m])
                                      \/ Next1(m)}
  <1>3. 0 \in G
    BY <1>0, <1>2
  <1>4. f <= FramesTo(t)[j + 1] /\ FramesTo(t)[j + 1] \in Nat
    <2>. DEFINE o == OrderOf(t, j)
    <2>1. /\ o.ticks \in Nat /\ FramesTo(t)[j] \in Nat
          /\ FramesTo(t)[j + 1] = FramesTo(t)[j] + o.ticks * t.spt
          /\ FramesTo(t)[j + 1] \in Nat
      <3>1. j \in 0 .. n /\ j + 1 \in 0 .. n
        BY <1>0
      <3>. QED
        BY <3>1, OrdersLast, PlaysFacts
    <2>2. /\ r.tick \in 0 .. o.ticks /\ r.left \in Nat
          /\ f + r.left = FramesTo(t)[j] + r.tick * t.spt
      BY DEF Playing, Contexts
    <2>3. t.spt \in Nat \ {0}
      BY DEF Plays
    <2>. DEFINE x == r.tick * t.spt
                y == o.ticks * t.spt
    <2>4. x <= y /\ x \in Nat /\ y \in Nat
      <3>1. r.tick \in Nat /\ o.ticks \in Nat /\ r.tick <= o.ticks
        BY <2>1, <2>2
      <3>. HIDE DEF o
      <3>. QED
        BY <2>3, <3>1, Multiples
    <2>. HIDE DEF x, y, o
    <2>5. /\ f + r.left = FramesTo(t)[j] + x
          /\ FramesTo(t)[j + 1] = FramesTo(t)[j] + y
      BY <2>1, <2>2 DEF x, y
    <2>6. r.left \in Nat
      BY <2>2
    <2>7. FramesTo(t)[j] \in Nat /\ FramesTo(t)[j + 1] \in Nat
      BY <2>1
    <2>. QED
      BY <2>4, <2>5, <2>6, <2>7
  <1>5. ASSUME NEW m \in 1 .. B, m - 1 \in G PROVE m \in G
    <2>. DEFINE c == fill[m - 1]
                k == f + (m - 1)
    <2>1. /\ c \in Contexts /\ fill[m] = Frame(t, c) /\ c.seen = r.seen
          /\ c.restarted \/ Playing(t, j, k, c) \/ Next1(m - 1)
      BY <1>0, <1>2, <1>5
    <2>2. k \in Nat /\ k + 1 = f + m /\ m \in 0 .. B /\ k < f + B
      BY <1>0
    <2>3. fill[m].seen = r.seen /\ (c.restarted => fill[m].restarted)
      BY <1>0, <2>1, FrameIs
    <2>. HIDE DEF c, k
    <2>4. CASE c.restarted
      BY <2>2, <2>3, <2>4
    <2>5. CASE Playing(t, j, k, c)
      <3>1. \/ Playing(t, j, k + 1, fill[m])
            \/ /\ k = FramesTo(t)[j + 1]
               /\ IF Route(t)[j + 1] = 0 THEN fill[m].restarted
                  ELSE Playing(t, j + 1, k + 1, fill[m])
        BY <2>1, <2>2, <2>5, FrameMoves
      <3>2. CASE k = FramesTo(t)[j + 1] /\ Route(t)[j + 1] # 0
                   /\ Playing(t, j + 1, k + 1, fill[m])
        <4>1. j + 1 # n
          <5>1. ASSUME j + 1 = n PROVE FALSE
            <6>1. f + B <= FramesTo(t)[n] /\ FramesTo(t)[n] = k
              BY <3>2, <5>1
            <6>. QED
              BY <1>0, <2>2, <6>1
          <5>. QED
            BY <5>1
        <4>2. j + 1 < n
          BY <1>0, <4>1
        <4>3. FramesTo(t)[j + 1] < f + m
          BY <2>2, <3>2
        <4>4. Next1(m)
          BY <2>2, <3>2, <4>2, <4>3
        <4>. QED
          BY <2>2, <2>3, <4>4
      <3>. QED
        BY <2>2, <2>3, <3>1, <3>2
    <2>6. CASE Next1(m - 1)
      <3>1. Playing(t, j + 1, k, c) /\ j + 1 < n /\ Route(t)[j + 1] # 0
        BY <2>6 DEF c, k
      <3>2. j + 1 \in 0 .. n - 1 /\ j + 1 \in 0 .. n
        BY <1>0, <3>1
      <3>3. \/ Playing(t, j + 1, k + 1, fill[m])
            \/ k = FramesTo(t)[j + 1 + 1]
        BY <2>1, <2>2, <3>1, <3>2, FrameMoves
      <3>4. k # FramesTo(t)[j + 1 + 1]
        <4>. DEFINE p == OrderOf(t, j + 1)
                    y == p.ticks * t.spt
        <4>1. FramesTo(t)[j + 1 + 1] = FramesTo(t)[j + 1] + y
          BY <3>2, PlaysFacts
        <4>2. BufFrames <= y /\ y \in Nat
          <5>1. /\ p.ticks \in Nat \ {0} /\ p.jump \in 0 .. p.ticks
                /\ p.jump = 0 => BufFrames <= y
                /\ p.jump # 0 => /\ BufFrames <= (p.jump - 1) * t.spt
                                 /\ (p.jump - 1) * t.spt + BufFrames <= y
            BY <3>2, OrdersLast
          <5>2. t.spt \in Nat \ {0}
            BY DEF Plays
          <5>3. y \in Nat
            BY <5>1, <5>2, ProductInNat
          <5>4. p.jump # 0 => (p.jump - 1) * t.spt \in Nat
            <6>1. p.jump # 0 => p.jump - 1 \in Nat
              BY <5>1
            <6>. QED
              BY <5>2, <6>1, ProductInNat
          <5>. QED
            BY <1>0, <5>1, <5>3, <5>4
        <4>. HIDE DEF y
        <4>3. FramesTo(t)[j + 1] + BufFrames <= FramesTo(t)[j + 1 + 1]
          BY <1>0, <1>4, <4>1, <4>2
        <4>4. f + BufFrames <= FramesTo(t)[j + 1 + 1]
              /\ FramesTo(t)[j + 1 + 1] \in Nat
          BY <1>0, <1>4, <4>1, <4>2, <4>3
        <4>. QED
          BY <1>0, <2>2, <4>4
      <3>5. FramesTo(t)[j + 1] < f + m
        BY <1>0, <1>4, <2>6
      <3>6. Next1(m)
        BY <2>2, <3>1, <3>3, <3>4, <3>5
      <3>. QED
        BY <2>2, <2>3, <3>6
    <2>. QED
      BY <2>1, <2>4, <2>5, <2>6
  <1>6. B \in G
    <2>1. \A m \in 0 .. B : m \in G
      <3>. HIDE DEF G, B
      <3>1. B \in Nat
        BY <1>0
      <3>. QED
        BY <1>3, <1>5, <3>1, AllUpTo
    <2>. HIDE DEF G
    <2>. QED
      BY <1>0, <2>1
  <1>7. fill[B] \in Contexts
    BY <1>0, <1>2
  <1>. QED
    BY <1>2, <1>6, <1>7

(* What the orders played so far have left, and vpnt itself, were seen;    *)
(* vpnt is none of the former.                                             *)
Heard(r) == IF r.seen = {} THEN {r.vpnt} ELSE r.seen

OnRoute(t, n, f, r) ==
  \E j \in 0 .. n - 1 :
    /\ Playing(t, j, f, r)
    /\ r.vpnt \in Heard(r)
    /\ \A i \in 0 .. j - 1 : Leaves(t, i) \in Heard(r) \ {r.vpnt}

(* Before the orders repeat, vpnt was not what the last one leaves: that   *)
(* was seen before the order that is repeated.                             *)
LEMMA LastIsNotLeft ==
  ASSUME NEW t, NEW n, Plays(t, n), Route(t)[n] # 0, NEW v,
         \A i \in 0 .. n - 2 : Leaves(t, i) # v
  PROVE  v # Leaves(t, n - 1)
  <1>0. n \in Nat \ {0}
    BY DEF Plays
  <1>1. PICK i \in 0 .. n - 1 : Route(t)[i] = Route(t)[n]
    BY DEF Plays, Again
  <1>2. i # 0
    BY <1>1, PlaysFacts
  <1>3. /\ i - 1 \in 0 .. n - 1 /\ n - 1 \in 0 .. n - 1
        /\ i - 1 \in 0 .. n - 2 /\ i - 1 + 1 = i /\ n - 1 + 1 = n
    BY <1>0, <1>2
  <1>. DEFINE a == Leaves(t, i - 1)
              b == Leaves(t, n - 1)
              N == Len(t.orders)
  <1>4. a \in Nat /\ Route(t)[i] = IF a + 1 >= N THEN 0 ELSE a + 1
    <2>1. /\ Leaves(t, i - 1) \in Nat
          /\ Route(t)[i - 1 + 1] = IF Leaves(t, i - 1) + 1 >= Len(t.orders)
                                   THEN 0 ELSE Leaves(t, i - 1) + 1
      BY <1>3, NextOrderIs
    <2>. QED
      BY <1>3, <2>1
  <1>5. b \in Nat /\ Route(t)[n] = IF b + 1 >= N THEN 0 ELSE b + 1
    <2>1. /\ Leaves(t, n - 1) \in Nat
          /\ Route(t)[n - 1 + 1] = IF Leaves(t, n - 1) + 1 >= Len(t.orders)
                                   THEN 0 ELSE Leaves(t, n - 1) + 1
      BY <1>3, NextOrderIs
    <2>. QED
      BY <1>3, <2>1
  <1>6. a # v
    BY <1>3
  <1>. HIDE DEF a, b, N
  <1>7. a + 1 = b + 1
    BY <1>1, <1>4, <1>5
  <1>. QED
    BY <1>4, <1>5, <1>6, <1>7 DEF b

(* With a buffer that has no status it stays there, before the repeat.     *)
LEMMA BufferStays ==
  ASSUME NEW t, NEW n, Plays(t, n), NEW f \in Nat, NEW r, OnRoute(t, n, f, r),
         ~St23Render(t, r).ended
  PROVE  /\ f + BufFrames <= FramesTo(t)[n]
         /\ OnRoute(t, n, f + BufFrames, St23Render(t, r).at)
  <1>. DEFINE B == BufFrames
              q == FillAudioBuffer(t, r)
              s == Heard(r) \cup {q.vpnt}
              a == St23Render(t, r).at
              F(j) == FramesTo(t)[j]
  <1>0. /\ B \in Nat \ {0} /\ n \in Nat \ {0} /\ t.spt \in Nat \ {0}
        /\ \A j \in 0 .. n : F(j) \in Nat /\ F(j) <= F(n)
    BY BufAssumption, FramesGrow, PlaysFacts DEF Plays
  <1>1. PICK j \in 0 .. n - 1 :
          /\ Playing(t, j, f, r) /\ r.vpnt \in Heard(r)
          /\ \A i \in 0 .. j - 1 : Leaves(t, i) \in Heard(r) \ {r.vpnt}
    BY DEF OnRoute
  <1>. DEFINE o == OrderOf(t, j)
              early == o.jump # 0 /\ ~(o.jump <= r.tick)
  <1>2. /\ j \in 0 .. n /\ j + 1 \in 0 .. n /\ j \in Nat
        /\ F(j) \in Nat /\ F(j + 1) \in Nat /\ F(j + 1) <= F(n)
        /\ F(j + 1) = F(j) + o.ticks * t.spt
    <2>1. j \in 0 .. n /\ j + 1 \in 0 .. n /\ j \in Nat
      BY <1>0
    <2>. QED
      BY <1>0, <2>1, PlaysFacts
  <1>3. /\ o.ticks \in Nat \ {0} /\ o.jump \in 0 .. o.ticks
        /\ o.jump # 0 => (o.jump - 1) * t.spt + B <= o.ticks * t.spt
    BY <1>2, OrdersLast
  <1>4. /\ r \in Contexts /\ r.tick \in 0 .. o.ticks /\ r.left \in Nat
        /\ f + r.left = F(j) + r.tick * t.spt
        /\ r.vpnt = IF o.jump # 0 /\ o.jump <= r.tick THEN JumpTo
                                                      ELSE Route(t)[j]
    BY <1>1 DEF Playing, Contexts
  (* Before its jump, the order is not over with the buffer. *)
  <1>5. early => f + B <= F(j + 1)
    <2>. SUFFICES ASSUME early PROVE f + B <= F(j + 1)
      OBVIOUS
    <2>. DEFINE x == r.tick * t.spt
                y == (o.jump - 1) * t.spt
                z == o.ticks * t.spt
    <2>1. r.tick \in Nat /\ o.jump - 1 \in Nat /\ r.tick <= o.jump - 1
      <3>1. o.jump \in Nat /\ r.tick \in Nat
        BY <1>3, <1>4
      <3>. QED
        BY <3>1
    <2>2. x \in Nat /\ y \in Nat /\ x <= y
      <3>. HIDE DEF o
      <3>. QED
        BY <1>0, <2>1, Multiples
    <2>3. z \in Nat
      BY <1>0, <1>3, ProductInNat
    <2>4. y + B <= z /\ f + r.left = F(j) + x /\ F(j + 1) = F(j) + z
      BY <1>2, <1>3, <1>4
    <2>5. r.left \in Nat /\ F(j) \in Nat
      BY <1>2, <1>4
    <2>. HIDE DEF x, y, z, F, o
    <2>. QED
      BY <1>0, <2>2, <2>3, <2>4, <2>5
  <1>6. ~early => r.vpnt = Leaves(t, j)
    BY <1>4 DEF Leaves
  <1>7. j + 1 = n /\ Route(t)[n] # 0 => f + B <= F(n)
    <2>. SUFFICES ASSUME j + 1 = n, Route(t)[n] # 0, ~early PROVE FALSE
      BY <1>5
    <2>1. j - 1 = n - 2 /\ j = n - 1
      BY <1>0, <1>2
    <2>2. \A i \in 0 .. n - 2 : Leaves(t, i) # r.vpnt
      BY <1>1, <2>1
    <2>3. r.vpnt # Leaves(t, n - 1)
      BY <2>2, LastIsNotLeft
    <2>. QED
      BY <1>6, <2>1, <2>3
  <1>8. /\ q \in Contexts /\ q.seen = r.seen
        /\ \/ q.restarted
           \/ Playing(t, j, f + B, q)
           \/ /\ j + 1 < n /\ Route(t)[j + 1] # 0 /\ F(j + 1) < f + B
              /\ Playing(t, j + 1, f + B, q)
    BY <1>1, <1>7, BufferMoves
  <1>9. /\ a = [q EXCEPT !.seen = s]
        /\ ~q.restarted
        /\ q.vpnt = r.vpnt \/ q.vpnt \notin Heard(r)
    BY DEF St23Render, Heard
  <1>. HIDE DEF q
  <1>10. s \in SUBSET Nat /\ s # {}
    BY <1>4, <1>8 DEF Contexts, Heard
  <1>. HIDE DEF s
  <1>11. /\ a \in Contexts /\ a.seen = s /\ a.vpnt = q.vpnt
         /\ a.order = q.order /\ a.tick = q.tick /\ a.left = q.left
         /\ a.spt = q.spt /\ a.restarted = q.restarted
    BY <1>8, <1>9, <1>10 DEF Contexts
  <1>. HIDE DEF a
  <1>12. Heard(a) = s /\ a.vpnt \in s
    BY <1>10, <1>11 DEF Heard, s
  <1>13. ASSUME NEW k, Playing(t, k, f + B, q) PROVE Playing(t, k, f + B, a)
    BY <1>11, <1>13 DEF Playing
  <1>14. CASE Playing(t, j, f + B, q)
    <2>1. \A i \in 0 .. j - 1 : Leaves(t, i) \in Heard(a) \ {a.vpnt}
      BY <1>1, <1>9, <1>11, <1>12 DEF s
    <2>2. OnRoute(t, n, f + B, a)
      BY <1>11, <1>12, <1>13, <1>14, <2>1 DEF OnRoute
    <2>3. f + B <= F(j + 1)
      <3>1. /\ q.tick \in 0 .. o.ticks /\ q.left \in Nat
            /\ f + B + q.left = F(j) + q.tick * t.spt
        BY <1>14 DEF Playing, Contexts
      <3>. DEFINE x == q.tick * t.spt
                  z == o.ticks * t.spt
      <3>2. x \in Nat /\ z \in Nat /\ x <= z
        <4>1. q.tick \in Nat /\ o.ticks \in Nat /\ q.tick <= o.ticks
          BY <1>3, <3>1
        <4>. HIDE DEF o
        <4>. QED
          BY <1>0, <4>1, Multiples
      <3>3. f + B + q.left = F(j) + x /\ F(j + 1) = F(j) + z
        BY <1>2, <3>1
      <3>4. q.left \in Nat /\ F(j) \in Nat
        BY <1>2, <3>1
      <3>. HIDE DEF x, z, F, o
      <3>. QED
        BY <1>0, <3>2, <3>3, <3>4
    <2>4. f + B <= F(n)
      <3>1. F(j + 1) \in Nat /\ F(j + 1) <= F(n) /\ F(n) \in Nat
        BY <1>0, <1>2
      <3>. HIDE DEF F
      <3>. QED
        BY <1>0, <2>3, <3>1
    <2>. QED
      BY <2>2, <2>4 DEF a
  <1>15. CASE /\ j + 1 < n /\ Route(t)[j + 1] # 0 /\ F(j + 1) < f + B
              /\ Playing(t, j + 1, f + B, q)
    <2>. DEFINE p == OrderOf(t, j + 1)
    <2>1. /\ j + 1 \in 0 .. n - 1 /\ j + 1 + 1 \in 0 .. n
          /\ j + 1 - 1 = j /\ j \in 0 .. n - 1
      BY <1>0, <1>2, <1>15
    <2>2. r.vpnt = Leaves(t, j)
      <3>1. ~early
        <4>. HIDE DEF F, early
        <4>. QED
          BY <1>0, <1>2, <1>5, <1>15
      <3>. QED
        BY <1>6, <3>1
    <2>3. Route(t)[j + 1] = r.vpnt + 1 /\ r.vpnt \in Nat
      BY <1>15, <2>1, <2>2, NextOrderIs
    <2>4. /\ p.ticks \in Nat \ {0} /\ p.jump \in 0 .. p.ticks
          /\ p.jump = 0 => B <= p.ticks * t.spt
          /\ p.jump # 0 =>
               /\ B <= (p.jump - 1) * t.spt
               /\ (p.jump - 1) * t.spt + B <= p.ticks * t.spt
      BY <1>2, OrdersLast
    <2>5. /\ q.tick \in 0 .. p.ticks /\ q.left \in Nat /\ q.left < t.spt
          /\ f + B + q.left = F(j + 1) + q.tick * t.spt
          /\ q.vpnt = IF p.jump # 0 /\ p.jump <= q.tick THEN JumpTo
                                                        ELSE Route(t)[j + 1]
      BY <1>15 DEF Playing, Contexts
    <2>6. f <= F(j + 1)
      <3>. DEFINE x == r.tick * t.spt
                  z == o.ticks * t.spt
      <3>1. x \in Nat /\ z \in Nat /\ x <= z
        <4>1. r.tick \in Nat /\ o.ticks \in Nat /\ r.tick <= o.ticks
          BY <1>3, <1>4
        <4>. HIDE DEF o
        <4>. QED
          BY <1>0, <4>1, Multiples
      <3>2. f + r.left = F(j) + x /\ F(j + 1) = F(j) + z
        BY <1>2, <1>4
      <3>3. r.left \in Nat /\ F(j) \in Nat
        BY <1>2, <1>4
      <3>. HIDE DEF x, z, F, o
      <3>. QED
        BY <3>1, <3>2, <3>3
    <2>7. p.jump # 0 => ~(p.jump <= q.tick)
      <3>. SUFFICES ASSUME p.jump # 0, p.jump <= q.tick PROVE FALSE
        OBVIOUS
      <3>. DEFINE x == q.tick * t.spt
                  y == (p.jump - 1) * t.spt
                  z == p.jump * t.spt
      <3>1. q.tick \in Nat /\ p.jump \in Nat /\ p.jump - 1 \in Nat
        BY <2>4, <2>5
      <3>2. x \in Nat /\ y \in Nat /\ z \in Nat /\ z <= x
        <4>. HIDE DEF p
        <4>. QED
          BY <1>0, <3>1, Multiples
      <3>3. z = y + t.spt
        <4>1. (p.jump - 1 + 1) * t.spt = y + t.spt /\ p.jump - 1 + 1 = p.jump
          <5>. HIDE DEF p
          <5>. QED
            BY <1>0, <3>1, Multiples
        <4>. QED
          BY <4>1
      <3>4. B <= y /\ f + B + q.left = F(j + 1) + x /\ q.left < t.spt
        BY <2>4, <2>5
      <3>5. q.left \in Nat /\ F(j + 1) \in Nat
        BY <1>2, <2>5
      <3>. HIDE DEF x, y, z, F, p
      <3>. QED
        BY <1>0, <2>6, <3>2, <3>3, <3>4, <3>5
    <2>8. q.vpnt = r.vpnt + 1 /\ q.vpnt \notin Heard(r)
      <3>1. q.vpnt = r.vpnt + 1
        <4>. HIDE DEF p
        <4>. QED
          BY <2>3, <2>5, <2>7
      <3>. QED
        BY <1>9, <2>3, <3>1
    <2>9. ASSUME NEW i \in 0 .. j + 1 - 1
          PROVE  Leaves(t, i) \in Heard(a) \ {a.vpnt}
      <3>1. i \in 0 .. j - 1 \/ i = j
        BY <1>2
      <3>2. Leaves(t, i) \in Heard(r)
        BY <1>1, <2>2, <3>1
      <3>. QED
        BY <1>11, <1>12, <2>8, <3>2 DEF s
    <2>10. OnRoute(t, n, f + B, a)
      BY <1>11, <1>12, <1>13, <1>15, <2>1, <2>9 DEF OnRoute
    <2>11. f + B <= F(j + 1 + 1)
      <3>. DEFINE x == q.tick * t.spt
                  z == p.ticks * t.spt
      <3>1. x \in Nat /\ z \in Nat /\ x <= z
        <4>1. q.tick \in Nat /\ p.ticks \in Nat /\ q.tick <= p.ticks
          BY <2>4, <2>5
        <4>. HIDE DEF p
        <4>. QED
          BY <1>0, <4>1, Multiples
      <3>2. f + B + q.left = F(j + 1) + x /\ F(j + 1 + 1) = F(j + 1) + z
        BY <2>1, <2>5, PlaysFacts
      <3>3. q.left \in Nat /\ F(j + 1) \in Nat
        BY <1>2, <2>5
      <3>. HIDE DEF x, z, F, p
      <3>. QED
        BY <1>0, <3>1, <3>2, <3>3
    <2>12. f + B <= F(n)
      <3>1. F(j + 1 + 1) \in Nat /\ F(j + 1 + 1) <= F(n) /\ F(n) \in Nat
        BY <1>0, <2>1
      <3>. HIDE DEF F
      <3>. QED
        BY <1>0, <2>11, <3>1
    <2>. QED
      BY <2>10, <2>12 DEF a
  <1>. QED
    BY <1>8, <1>9, <1>14, <1>15

LEMMA RouteStarts ==
  ASSUME NEW t, NEW n, Plays(t, n)
  PROVE  OnRoute(t, n, 0, St23Load(t.spt))
  <1>. DEFINE r == St23Load(t.spt)
  <1>1. t.spt \in Nat \ {0} /\ n \in Nat \ {0}
    BY DEF Plays
  <1>2. 0 \in 0 .. n - 1 /\ 0 \in 0 .. n
    BY <1>1
  <1>3. /\ r \in Contexts /\ r.vpnt = 0 /\ r.order = 0 /\ r.tick = 0
        /\ r.left = 0 /\ r.spt = t.spt /\ r.restarted = FALSE /\ r.seen = {}
    BY <1>1 DEF St23Load, Contexts
  <1>. HIDE DEF r
  <1>4. /\ OrderOf(t, 0).ticks \in Nat \ {0}
        /\ OrderOf(t, 0).jump \in 0 .. OrderOf(t, 0).ticks
    BY <1>2, OrdersLast
  <1>5. Route(t)[0] = 0 /\ FramesTo(t)[0] = 0
    BY PlaysFacts
  <1>6. r.vpnt = IF OrderOf(t, 0).jump # 0 /\ OrderOf(t, 0).jump <= r.tick
                 THEN JumpTo ELSE Route(t)[0]
    BY <1>3, <1>4, <1>5
  <1>7. 0 + r.left = FramesTo(t)[0] + r.tick * t.spt /\ r.left < t.spt
    BY <1>1, <1>3, <1>5
  <1>8. Playing(t, 0, 0, r)
    BY <1>3, <1>4, <1>5, <1>6, <1>7 DEF Playing
  <1>9. r.vpnt \in Heard(r)
    BY <1>3 DEF Heard
  <1>. QED
    BY <1>2, <1>8, <1>9 DEF OnRoute, r

(* Until a buffer has a status, none reaches beyond the repeat.            *)
LEMMA RouteIsFollowed ==
  ASSUME NEW t, NEW n, t.player = "st23play", Plays(t, n)
  PROVE  \A k \in 0 .. Horizon :
           k < LastBuffer(t) => OnRoute(t, n, k * BufFrames, PlayedTo(t, k))
  <1>. DEFINE On(k) == OnRoute(t, n, k * BufFrames, PlayedTo(t, k))
              G == {k \in 0 .. Horizon : k < LastBuffer(t) => On(k)}
  <1>0. /\ Horizon \in Nat \ {0} /\ BufFrames \in Nat \ {0}
        /\ LastBuffer(t) \in Nat
    BY HorizonAssumption, BufAssumption, LastBufferIs
  <1>1. 0 \in G
    <2>1. PlayedTo(t, 0) = St23Load(t.spt) /\ 0 * BufFrames = 0
      BY <1>0 DEF PlayedTo, ContextOf
    <2>2. On(0)
      BY <2>1, RouteStarts
    <2>. HIDE DEF On
    <2>. QED
      BY <1>0, <2>2
  <1>2. ASSUME NEW k \in 1 .. Horizon, k - 1 \in G PROVE k \in G
    <2>1. SUFFICES ASSUME k < LastBuffer(t) PROVE On(k)
      BY <1>0
    <2>. DEFINE r == PlayedTo(t, k - 1)
                f == (k - 1) * BufFrames
    <2>2. k - 1 < LastBuffer(t) /\ k - 1 \in Nat /\ k \in Nat \ {0}
      BY <1>0, <2>1
    <2>3. OnRoute(t, n, f, r)
      BY <1>2, <2>2
    <2>4. f \in Nat /\ f + BufFrames = k * BufFrames
      <3>1. (k - 1 + 1) * BufFrames = f + BufFrames /\ f \in Nat
        BY <1>0, <2>2, Multiples
      <3>2. k - 1 + 1 = k
        BY <2>2
      <3>. QED
        BY <3>1, <3>2
    <2>5. Buffers(t)[k] = St23Render(t, r)
      BY BuffersFollow DEF Played
    <2>6. ~Buffers(t)[k].ended
      BY <2>1, LastBufferIs
    <2>7. PlayedTo(t, k) = Buffers(t)[k].at
      BY <2>2 DEF PlayedTo
    <2>. HIDE DEF r, f
    <2>8. OnRoute(t, n, f + BufFrames, St23Render(t, r).at)
      BY <2>3, <2>4, <2>5, <2>6, BufferStays
    <2>. QED
      BY <2>4, <2>5, <2>7, <2>8
  <1>. HIDE DEF G
  <1>3. \A k \in 0 .. Horizon : k \in G
    BY <1>0, <1>1, <1>2, AllUpTo
  <1>. QED
    BY <1>3 DEF G
------------------------------------------------------------------------------
(* noisetrekker2: what the lines of all positions but the last make.       *)
LEMMA LinesGrow ==
  ASSUME NEW t, t.lines \in Seq(Nat \ {0}), t.lines # <<>>,
         NEW k \in 0 .. Len(t.lines) - 1
  PROVE  /\ LinesUpTo(t)[k] \in Nat
         /\ LinesUpTo(t)[k] + t.lines[Len(t.lines)] <= AllLines(t)
  <1>. DEFINE N == Len(t.lines)
              l == LinesUpTo(t)
              G == {i \in 0 .. N - 1 : k <= i => l[k] <= l[i]}
  <1>1. N \in Nat \ {0} /\ \A i \in 1 .. N : t.lines[i] \in Nat
    OBVIOUS
  <1>2. /\ l \in [0 .. N -> Nat]
        /\ \A i \in 1 .. N : l[i] = l[i - 1] + t.lines[i]
    BY LinesAre
  <1>3. k \in 0 .. N - 1
    OBVIOUS
  <1>4. AllLines(t) = l[N]
    BY DEF AllLines
  <1>. HIDE DEF N, l
  <1>5. \A i \in 0 .. N : l[i] \in Nat
    BY <1>2
  <1>6. 0 \in G
    BY <1>1, <1>3, <1>5
  <1>7. ASSUME NEW i \in 1 .. N - 1, i - 1 \in G PROVE i \in G
    <2>1. /\ l[i] = l[i - 1] + t.lines[i] /\ t.lines[i] \in Nat
          /\ l[i] \in Nat /\ l[i - 1] \in Nat /\ l[k] \in Nat
      <3>1. i \in 1 .. N /\ i \in 0 .. N /\ i - 1 \in 0 .. N /\ k \in 0 .. N
        BY <1>1, <1>3
      <3>. QED
        BY <1>1, <1>2, <1>5, <3>1
    <2>2. CASE k <= i - 1
      <3>1. l[k] <= l[i - 1] /\ i \in 0 .. N - 1
        BY <1>1, <1>7, <2>2
      <3>. QED
        BY <2>1, <3>1
    <2>3. CASE k = i
      BY <1>1, <2>1, <2>3
    <2>. QED
      BY <1>1, <1>3, <2>2, <2>3
  <1>8. N - 1 \in G
    <2>1. N - 1 \in Nat
      BY <1>1
    <2>2. \A i \in 0 .. N - 1 : i \in G
      <3>. HIDE DEF G
      <3>. QED
        BY <1>6, <1>7, <2>1, AllUpTo
    <2>. HIDE DEF G
    <2>. QED
      BY <2>1, <2>2
  <1>9. l[k] <= l[N - 1]
    BY <1>3, <1>8
  <1>10. /\ l[N] = l[N - 1] + t.lines[N] /\ t.lines[N] \in Nat
         /\ l[N - 1] \in Nat /\ l[N] \in Nat /\ l[k] \in Nat
    <2>1. N \in 1 .. N /\ N \in 0 .. N /\ N - 1 \in 0 .. N /\ k \in 0 .. N
      BY <1>1, <1>3
    <2>. QED
      BY <1>1, <1>2, <1>5, <2>1
  <1>11. l[k] + t.lines[N] <= l[N]
    BY <1>9, <1>10
  <1>. QED
    BY <1>4, <1>10, <1>11 DEF l, N

(* With the last frame of the song, it is in its last line, and then at    *)
(* the top.                                                                *)
LEMMA LastLine ==
  ASSUME NEW t, t.lines \in Seq(Nat \ {0}), t.samples \in Nat \ {0},
         LinesAgree(t), t.lines[Len(t.lines)] # 1
  PROVE  /\ t.frames \in Nat \ {0}
         /\ Line(t, t.frames) = 0 /\ PedLine(t, t.frames - 1) # 0
  <1>. DEFINE N == Len(t.lines)
              S == t.samples
              A == AllLines(t)
              last == t.lines[N]
  <1>1. N \in Nat \ {0} /\ S \in Nat \ {0} /\ t.lines # <<>>
    BY DEF LinesAgree
  <1>2. last \in Nat /\ last >= 2
    <2>1. last \in Nat \ {0} /\ last # 1
      BY <1>1
    <2>. HIDE DEF last
    <2>. QED
      BY <2>1
  <1>3. A \in Nat /\ A >= 2
    <2>1. N \in 0 .. N
      BY <1>1
    <2>2. A \in Nat
      BY <2>1, LinesAre DEF AllLines
    <2>3. /\ LinesUpTo(t)[N - 1] \in Nat /\ LinesUpTo(t)[N - 1] + last <= A
      <3>1. N - 1 \in 0 .. N - 1
        BY <1>1
      <3>. QED
        BY <1>1, <3>1, LinesGrow
    <2>. HIDE DEF A, last
    <2>. QED
      BY <1>2, <2>2, <2>3
  <1>4. t.frames = A * S
    <2>1. \A a \in Nat, b \in Nat : a * b = b * a
      OBVIOUS
    <2>. QED
      BY <1>1, <1>3, <2>1 DEF LinesAgree
  <1>5. t.frames \in Nat \ {0}
    <2>. DEFINE c == A - 1
    <2>1. c \in Nat /\ A = c + 1
      BY <1>3
    <2>. HIDE DEF A, S, c
    <2>2. (c + 1) * S = c * S + S /\ c * S \in Nat
      BY <1>1, <2>1, Multiples
    <2>3. t.frames = c * S + S
      BY <1>4, <2>1, <2>2
    <2>. QED
      BY <1>1, <2>2, <2>3
  <1>6. t.frames \div S = A /\ (t.frames - 1) \div S = A - 1
    <2>. DEFINE g == t.frames
                h == g - 1
                x == g \div S
                y == h \div S
    <2>1. g \in Nat /\ h \in Nat /\ g = h + 1 /\ g = A * S
      BY <1>4, <1>5
    <2>. HIDE DEF g, h, S, A
    <2>2. /\ x \in Nat /\ x * S <= g /\ g < x * S + S
          /\ y \in Nat /\ y * S <= h /\ h < y * S + S
      BY <1>1, <2>1, Quotients
    <2>. HIDE DEF x, y
    <2>3. /\ (x + 1) * S = x * S + S /\ (y + 1) * S = y * S + S
          /\ x * S \in Nat /\ y * S \in Nat /\ A * S \in Nat
      BY <1>1, <1>3, <2>2, Multiples
    <2>4. x * S <= A * S /\ A * S < (x + 1) * S
      BY <2>1, <2>2, <2>3
    <2>5. y * S < A * S /\ A * S <= (y + 1) * S
      BY <1>1, <2>1, <2>2, <2>3
    <2>6. x <= A /\ A < x + 1
      BY <1>1, <1>3, <2>2, <2>4, Multiples
    <2>7. y < A /\ A <= y + 1
      BY <1>1, <1>3, <2>2, <2>5, Multiples
    <2>. QED
      BY <1>3, <2>2, <2>6, <2>7 DEF x, y, h, g, S
  <1>7. Line(t, t.frames) = 0 /\ Line(t, t.frames - 1) = A - 1
    <2>1. Line(t, t.frames) = A % A /\ Line(t, t.frames - 1) = (A - 1) % A
      BY <1>6 DEF Line
    <2>. HIDE DEF A
    <2>2. A % A = 0 /\ (A - 1) % A = A - 1
      BY <1>3
    <2>. QED
      BY <2>1, <2>2
  <1>8. PedLine(t, t.frames - 1) # 0
    <2>. DEFINE l == LinesUpTo(t)
                In(k) == A - 1 \in l[k] .. l[k + 1] - 1
                p == CHOOSE k \in 0 .. N - 1 : In(k)
    <2>1. PedLine(t, t.frames - 1) = A - 1 - l[p]
      BY <1>7 DEF PedLine
    <2>2. N - 1 \in 0 .. N - 1 /\ N - 1 + 1 = N
      BY <1>1
    <2>3. In(N - 1)
      <3>1. l[N] = A
        BY DEF AllLines
      <3>2. l[N - 1] \in Nat /\ l[N - 1] + last <= A
        BY <1>1, <2>2, LinesGrow
      <3>. HIDE DEF l, A, last, N
      <3>. QED
        BY <1>2, <1>3, <2>2, <3>1, <3>2
    <2>4. p \in 0 .. N - 1
      <3>. HIDE DEF In, N
      <3>. QED
        BY <2>2, <2>3
    <2>. HIDE DEF p
    <2>5. l[p] \in Nat /\ l[p] + last <= A
      BY <1>1, <2>4, LinesGrow
    <2>. HIDE DEF l, A, last
    <2>. QED
      BY <1>2, <1>3, <2>1, <2>5
  <1>. QED
    BY <1>5, <1>7, <1>8

(* What is assumed of a tune that noisetrekker2 is watched on.             *)
Sounds(t) ==
  /\ t.lines \in Seq(Nat \ {0}) /\ t.samples \in Nat \ {0} /\ LinesAgree(t)
  /\ t.lines[Len(t.lines)] # 1
  /\ (t.frames - 1) % (BufFrames - 1) # 0

(* A buffer that gets to the top has met the last line, or it began there. *)
LEMMA LinesStay ==
  ASSUME NEW t, Sounds(t), NEW k \in Nat, NEW n, n = k * (BufFrames - 1),
         n < t.frames, ~NtkRender(t, n).ended
  PROVE  /\ NtkRender(t, n).at = (k + 1) * (BufFrames - 1)
         /\ (k + 1) * (BufFrames - 1) < t.frames
  <1>. DEFINE C == BufFrames - 1
              backs == {m \in n + 1 .. n + BufFrames - 1 : BackAtTop(t, n, m)}
  <1>1. /\ t.frames \in Nat \ {0}
        /\ Line(t, t.frames) = 0 /\ PedLine(t, t.frames - 1) # 0
    BY LastLine DEF Sounds
  <1>2. C \in Nat /\ BufFrames = C + 1
    BY BufAssumption
  <1>3. n = k * C
    OBVIOUS
  <1>4. NtkRender(t, n).at = n + BufFrames - 1 /\ backs = {}
    BY DEF NtkRender
  <1>. DEFINE g == t.frames - 1
  <1>5. g \in Nat /\ t.frames = g + 1 /\ g % C # 0
    BY <1>1 DEF Sounds
  <1>6. n \in Nat
    BY <1>2, <1>3, ProductInNat
  <1>. HIDE DEF C, g
  <1>7. n + C = (k + 1) * C
    <2>1. CASE C = 0
      BY <1>3, <2>1
    <2>2. CASE C # 0
      BY <1>2, <1>3, <2>2, Multiples
    <2>. QED
      BY <2>1, <2>2
  <1>8. C # 0 => g # n
    <2>. SUFFICES ASSUME C # 0, g = n PROVE FALSE
      OBVIOUS
    <2>. DEFINE x == g \div C
    <2>1. /\ x \in Nat /\ x * C <= g /\ g < x * C + C
          /\ (g % C = 0 <=> g = x * C)
      BY <1>2, <1>5, Quotients
    <2>. HIDE DEF x
    <2>2. (x + 1) * C = x * C + C
      BY <1>2, <2>1, Multiples
    <2>3. x * C <= k * C /\ k * C < (x + 1) * C
      BY <1>3, <2>1, <2>2
    <2>4. x <= k /\ k < x + 1
      BY <1>2, <2>1, <2>3, Multiples
    <2>5. x = k
      BY <2>1, <2>4
    <2>. QED
      BY <1>3, <1>5, <2>1, <2>5
  <1>9. ASSUME t.frames <= n + C PROVE FALSE
    <2>1. C # 0 /\ g # n
      BY <1>1, <1>2, <1>6, <1>8, <1>9
    <2>2. t.frames \in n + 1 .. n + BufFrames - 1
      BY <1>1, <1>2, <1>6, <1>9
    <2>3. t.frames - 1 \in n + 1 .. t.frames
      BY <1>1, <1>5, <1>6, <2>1, <2>2
    <2>4. BackAtTop(t, n, t.frames)
      BY <1>1, <2>3 DEF BackAtTop
    <2>. QED
      BY <1>4, <2>2, <2>4
  <1>10. n + BufFrames - 1 = n + C /\ n + C < t.frames
    BY <1>1, <1>2, <1>6, <1>9
  <1>. QED
    BY <1>4, <1>7, <1>10 DEF C

LEMMA LinesAreFollowed ==
  ASSUME NEW t, t.player = "noisetrekker2", Sounds(t)
  PROVE  \A k \in 0 .. Horizon :
           k < LastBuffer(t) => /\ PlayedTo(t, k) = k * (BufFrames - 1)
                                /\ PlayedTo(t, k) < t.frames
  <1>. DEFINE On(k) == /\ PlayedTo(t, k) = k * (BufFrames - 1)
                       /\ PlayedTo(t, k) < t.frames
              G == {k \in 0 .. Horizon : k < LastBuffer(t) => On(k)}
  <1>0. /\ Horizon \in Nat \ {0} /\ BufFrames \in Nat \ {0}
        /\ LastBuffer(t) \in Nat /\ t.frames \in Nat \ {0}
    BY HorizonAssumption, BufAssumption, LastBufferIs, LastLine DEF Sounds
  <1>1. 0 \in G
    <2>1. PlayedTo(t, 0) = 0 /\ 0 * (BufFrames - 1) = 0
      BY <1>0 DEF PlayedTo, ContextOf
    <2>2. On(0)
      BY <1>0, <2>1
    <2>. HIDE DEF On
    <2>. QED
      BY <1>0, <2>2
  <1>2. ASSUME NEW k \in 1 .. Horizon, k - 1 \in G PROVE k \in G
    <2>1. SUFFICES ASSUME k < LastBuffer(t) PROVE On(k)
      BY <1>0
    <2>. DEFINE n == PlayedTo(t, k - 1)
    <2>2. /\ k - 1 < LastBuffer(t) /\ k - 1 \in Nat /\ k \in Nat \ {0}
          /\ k - 1 + 1 = k
      BY <1>0, <2>1
    <2>3. n = (k - 1) * (BufFrames - 1) /\ n < t.frames
      BY <1>2, <2>2
    <2>4. Buffers(t)[k] = NtkRender(t, n)
      BY BuffersFollow DEF Played
    <2>5. ~Buffers(t)[k].ended
      BY <2>1, LastBufferIs
    <2>6. PlayedTo(t, k) = Buffers(t)[k].at
      BY <2>2 DEF PlayedTo
    <2>. HIDE DEF n
    <2>7. /\ NtkRender(t, n).at = (k - 1 + 1) * (BufFrames - 1)
          /\ (k - 1 + 1) * (BufFrames - 1) < t.frames
      BY <2>2, <2>3, <2>4, <2>5, LinesStay
    <2>. QED
      BY <2>2, <2>4, <2>6, <2>7
  <1>. HIDE DEF G
  <1>3. \A k \in 0 .. Horizon : k \in G
    BY <1>0, <1>1, <1>2, AllUpTo
  <1>. QED
    BY <1>3 DEF G
------------------------------------------------------------------------------
(* What is played was given: it is of a file.                              *)
GivenInv ==
  \E f \in Files : \E i \in DOMAIN f.tunes :
    tune = f.tunes[i] /\ tune.player = f.player

LEMMA InitGiven == DInit => GivenInv
  <1>. SUFFICES ASSUME DInit PROVE GivenInv
    OBVIOUS
  <1>1. PICK f \in Files, s \in 0 .. 255 :
          MayPlay(f, s) /\ \E d \in Start(f, s) : tune = d.tune
    BY Zenon DEF DInit
  <1>2. s \in Nat
    OBVIOUS
  <1>. QED
    BY <1>1, <1>2, TunesArePlayed DEF GivenInv

LEMMA GivenStep == GivenInv /\ [DNext]_allVars => GivenInv'
  BY DEF GivenInv, DNext, Decode, allVars

LEMMA GivenAgrees ==
  ASSUME GivenInv
  PROVE  /\ tune.player = "st23play" => OrdersAgree(tune)
         /\ tune.player = "noisetrekker2" => LinesAgree(tune)
  BY FramesAssumption DEF GivenInv

(* The same of st23play and noisetrekker2.                                 *)
LEMMA TrackersAreWatched ==
  ASSUME WholeTicks, IInv, DecoderInv, GivenInv, ~Watched
  PROVE  NothingPastEnd
  <1>. SUFFICES ASSUME Rendering, BufferStatus = "NONE", ~Unwatched
                PROVE  Reach <= 4 * EndOf(tune)
    BY DEF NothingPastEnd, Watched
  <1>1. tune.player \in {"st23play", "noisetrekker2"}
    BY DEF Watched
  <1>2. OnItsWay
    BY RenderingGoesOn DEF Followed, Unwatched
  <1>3. 4 * dec <= MixBufSize * (Horizon - 1)
    <2>1. ~song.uade
      BY <1>1, <1>2, SongFacts
    <2>2. total = 4 * dec
      BY <2>1, IInvParts DEF PositionTracksSong
    <2>. QED
      BY <2>1, <2>2, RenderingIsEarly
  <1>4. PICK k \in 0 .. Horizon :
          /\ k + 1 \in 1 .. Horizon /\ k + 1 <= LastBuffer(tune)
          /\ dec = k * BufFrames /\ at = PlayedTo(tune, k)
          /\ Buffer = Buffers(tune)[k + 1]
    BY <1>1, <1>2, <1>3, TrackersBuffer
  <1>5. k < LastBuffer(tune) /\ k \in Nat
    BY <1>4, LastBufferIs, HorizonAssumption
  <1>6. ~Buffer.ended
    BY NoStatus
  <1>7. tune \in Tunes /\ EndOf(tune) = tune.frames
    BY <1>1, <1>2 DEF OnItsWay, EndOf
  <1>8. CASE tune.player = "st23play"
    <2>1. /\ tune.orders \in Seq(Order) /\ tune.spt \in Nat \ {0}
          /\ OrdersAgree(tune)
      BY <1>7, <1>8, GivenAgrees DEF Tunes
    <2>2. \A i \in DOMAIN tune.orders : ~Hasty(tune, tune.orders[i])
      BY <1>8 DEF Unwatched
    <2>3. PICK n \in 1 .. Len(tune.orders) :
            tune.frames = FramesTo(tune)[n] /\ Again(tune, n)
      BY <2>1 DEF OrdersAgree
    <2>4. Plays(tune, n)
      BY <2>1, <2>2, <2>3 DEF OrdersAgree, Plays
    <2>5. OnRoute(tune, n, dec, at)
      BY <1>4, <1>5, <1>8, <2>4, RouteIsFollowed
    <2>6. Buffer = St23Render(tune, at)
      BY <1>8 DEF Buffer, RenderBy
    <2>7. dec \in Nat
      BY <1>4, <1>5, BufAssumption, ProductInNat
    <2>8. dec + BufFrames <= tune.frames
      BY <1>6, <2>3, <2>4, <2>5, <2>6, <2>7, BufferStays
    <2>9. Reach = 4 * dec + 4 * BufFrames
      BY <1>8, <2>6 DEF Reach, St23Render, MixBufSize
    <2>10. tune.frames \in Nat
      BY <1>7, <1>8 DEF Tunes
    <2>. QED
      BY <1>7, <2>7, <2>8, <2>9, <2>10, BufAssumption
  <1>9. CASE tune.player = "noisetrekker2"
    <2>1. Sounds(tune)
      <3>1. tune.lines \in Seq(Nat \ {0}) /\ tune.samples \in Nat \ {0}
        BY <1>7, <1>9 DEF Tunes
      <3>. QED
        BY <1>9, <3>1, GivenAgrees DEF Sounds, Unwatched
    <2>2. at = k * (BufFrames - 1) /\ at < tune.frames
      BY <1>4, <1>5, <1>9, <2>1, LinesAreFollowed
    <2>3. Buffer = NtkRender(tune, at)
      BY <1>9 DEF Buffer, RenderBy
    <2>4. /\ Buffer.at = (k + 1) * (BufFrames - 1)
          /\ (k + 1) * (BufFrames - 1) < tune.frames
      BY <1>5, <1>6, <2>1, <2>2, <2>3, LinesStay
    <2>5. Reach = 4 * Buffer.at /\ Buffer.at < tune.frames
      BY <1>9, <2>4 DEF Reach
    <2>6. Buffer.at \in Int /\ tune.frames \in Int
      <3>1. BufFrames - 1 \in Nat /\ k + 1 \in Nat
        BY <1>5, BufAssumption
      <3>2. (k + 1) * (BufFrames - 1) \in Nat
        BY <3>1, ProductInNat
      <3>. QED
        BY <1>7, <1>9, <2>4, <3>2 DEF Tunes
    <2>. QED
      BY <1>7, <2>5, <2>6
  <1>. QED
    BY <1>1, <1>8, <1>9

(* No player lets a song's repeat pass for the song, where its test for    *)
(* the end can see it: a precalc, which plays a song until it has a        *)
(* status, does not measure it twice.                                      *)
THEOREM RepeatsAreNotPlayed ==
  ASSUME WholeTicks
  PROVE  DSpec => []NothingPastEnd
  <1>1. IInv /\ DecoderInv /\ GivenInv => NothingPastEnd
    BY EndIsWatched, TrackersAreWatched
  <1>. QED
    BY <1>1, InitDecoder, DecoderStep, InitGiven, GivenStep, DInvariance, PTL
    DEF DSpec
==============================================================================
