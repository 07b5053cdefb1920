----------------------- MODULE DeadbeefPlaylist_proofs -----------------------
(***************************************************************************)
(* The streams of the DeaDBeeF plugin hand out songs without gaps and to   *)
(* their end, for songs, rates, buffers and blocks of every size; the      *)
(* items of its playlist tell the truth, and what is played of them are    *)
(* such streams, for files, playlists and players of every number.         *)
(***************************************************************************)
EXTENDS DeadbeefPlaylist, NaturalsInduction, WellFoundedInduction, TLAPS

(* A stream: uade_init, uade_read, uade_seek_sample.                       *)

(* What the tail holds comes next.                                         *)
TailInv == tail.len > 0 /\ ~Adrift => tail.from = heard

(* uade_read drops the tail if readpos is 0: then there is none.           *)
LeftInv == pc \notin {"read", "return"} /\ readpos = 0 => tail.len = 0

(* The tail is filled by the buffer that fills the block, and a read only  *)
(* returns early at the end of the song, where its decoder cuts it, or at  *)
(* its limit.                                                              *)
CutShort == stale /\ dec \in song.cuts

ReadInv ==
  /\ pc \in {"read", "return"} =>
       size \in ReadSizes /\ (tail.len > 0 => got > size)
  /\ pc = "return" =>
       got < size /\ (dec = song.frames \/ CutShort
                       \/ total >= MaxBytes(known))

(* Where the decoder stands: behind what has been handed out and the tail, *)
(* or at the end of the song, up to a buffer further on unless a seek has  *)
(* failed; or as far on where its decoder cuts it, after a short read.     *)
NextInv ==
  pc # "forward" /\ ~Adrift =>
    \/ heard + tail.len = dec
    \/ /\ dec = song.frames
       /\ ~lost => tail.len = 0 /\ heard <= dec /\ dec - heard <= BufFrames
    \/ /\ CutShort /\ (pc = "return" \/ (pc \in {"idle", "seek"} /\ eof))
       /\ tail.len = 0 /\ heard <= dec /\ dec - heard <= BufFrames

Core ==
  /\ TailInv
  /\ LeftInv
  /\ ReadInv
  /\ NextInv
  /\ NoGap
  /\ EofIsTheEnd

IInv == TypeOK /\ Core
------------------------------------------------------------------------------
(* The integer division of two naturals is one.                            *)
LEMMA QuotientInNat ==
  ASSUME NEW a \in Nat, NEW b \in Nat \ {0}
  PROVE  a \div b \in Nat
  OBVIOUS

(* So is a product.                                                        *)
LEMMA ProductInNat ==
  ASSUME NEW a \in Nat, NEW b \in Nat
  PROVE  a * b \in Nat
  OBVIOUS

(* A position in ms and one in bytes.                                      *)
LEMMA PositionFacts ==
  /\ BytesPerSec \in Nat \ {0}
  /\ \A b \in Nat : Millis(b) \in Nat
  /\ \A ms \in Nat : BytesAt(ms) \in Nat /\ BytesAt(ms) \div 4 \in Nat
  <1>1. BytesPerSec \in Nat \ {0}
    BY FreqAssumption DEF BytesPerSec
  <1>2. ASSUME NEW b \in Nat PROVE Millis(b) \in Nat
    BY <1>1, QuotientInNat DEF Millis
  <1>3. ASSUME NEW ms \in Nat
        PROVE  BytesAt(ms) \in Nat /\ BytesAt(ms) \div 4 \in Nat
    <2>1. ms * BytesPerSec \in Nat
      BY <1>1, ProductInNat
    <2>. QED
      BY <2>1 DEF BytesAt
  <1>. QED
    BY <1>1, <1>2, <1>3

(* A buffer ends at the end of the song at the latest, and a status comes  *)
(* only there, or where the decoder cuts the song.                         *)
LEMMA BufferFacts ==
  ASSUME TypeOKState
  PROVE  /\ song.frames \in Nat /\ song.ending # "NONE"
         /\ Frames \in 0 .. BufFrames
         /\ dec + Frames \in 0 .. song.frames
         /\ Status # "NONE" => \/ dec + Frames = song.frames
                               \/ stale /\ dec + Frames \in song.cuts
         /\ StepFrames \in 0 .. BufFrames
         /\ StepFrames = Frames \/ (StepFrames = 0 /\ Status # "NONE")
         /\ dec = song.frames => Frames = 0
  <1>1. song.frames \in Nat /\ song.ending # "NONE"
    BY SongsAssumption DEF TypeOKState, Song, Ends
  <1>0. song.chunk \in 1 .. BufFrames
    BY SongsAssumption DEF TypeOKState, Song
  <1>2. /\ Frames \in 0 .. BufFrames
        /\ dec + Frames \in 0 .. song.frames
        /\ dec = song.frames => Frames = 0
    BY <1>1, <1>0, BufAssumption DEF TypeOKState, Frames, Least
  <1>3. Status # "NONE" => \/ dec + Frames = song.frames
                           \/ stale /\ dec + Frames \in song.cuts
    BY Zenon DEF Status
  <1>. QED
    BY <1>1, <1>2, <1>3, BufAssumption DEF StepFrames

(* Rendering and seeking keep the types of the player's state.             *)
LEMMA RenderFacts ==
  ASSUME TypeOKState, Render
  PROVE  TypeOKState'
  <1>1. total + 4 * Frames \in Nat
    BY BufferFacts DEF TypeOKState
  <1>. QED
    BY <1>1, PositionFacts, BufferFacts DEF TypeOKState, Render

LEMMA UadeSeekFacts ==
  ASSUME TypeOKState, NEW ms \in Nat, UadeSeek(ms)
  PROVE  TypeOKState'
  BY PositionFacts, BufferFacts DEF TypeOKState, UadeSeek, Least

LEMMA RestartFacts ==
  ASSUME TypeOKState, Restart
  PROVE  TypeOKState'
  BY BufferFacts DEF TypeOKState, Restart

(* A song is played from its start.                                        *)
LEMMA PlaySongFacts ==
  ASSUME NEW s \in Songs, PlaySong(s)
  PROVE  TypeOKState'
  <1>1. s.frames \in Nat
    BY SongsAssumption DEF Song
  <1>2. song' = s /\ dec' = 0 /\ total' = 0 /\ pos' = 0
    BY DEF PlaySong
  <1>3. stale' \in BOOLEAN
    BY Zenon DEF PlaySong
  <1>. QED
    BY <1>1, <1>2, <1>3 DEF TypeOKState
------------------------------------------------------------------------------
(* The types, those of numbers apart from those of flags.                  *)
Numbers ==
  /\ TypeOKState
  /\ known \in KnownTimeouts
  /\ tail \in [from : Nat, len : 0 .. BufFrames]
  /\ readpos \in Nat
  /\ size \in ReadSizes \cup {0} /\ got \in Nat
  /\ target \in SeekTargets \cup {0}
  /\ heard \in Nat
  /\ seeks \in 0 .. MaxSeeks

Flags ==
  /\ life \in {"none", "open", "failed", "ready", "freed"}
  /\ player \in {"unset", "playing", "NONE"}
  /\ pc \in {"idle", "read", "return", "seek", "forward"}
  /\ gap \in BOOLEAN /\ eof \in BOOLEAN /\ lost \in BOOLEAN

LEMMA TypesAre == TypeOK <=> Numbers /\ Flags
  BY Zenon DEF TypeOK, Numbers, Flags

(* A new stream has been given nothing.                                    *)
LEMMA InitIInv == Init => IInv
  <1>. SUFFICES ASSUME Init PROVE IInv
    OBVIOUS
  <1>1. Numbers
    <2>1. song \in Song
      BY SongsAssumption DEF Init, InitState
    <2>2. song.frames \in Nat
      BY <2>1 DEF Song
    <2>3. TypeOKState
      <3>1. song \in Songs /\ dec = 0 /\ total = 0 /\ pos = 0
        BY DEF Init, InitState
      <3>2. stale \in BOOLEAN
        BY Zenon DEF Init, InitState
      <3>. QED
        BY <2>2, <3>1, <3>2 DEF TypeOKState
    <2>. QED
      BY <2>3, StreamAssumption, BufAssumption DEF Init, Numbers, NoTail
  <1>2. Flags
    BY DEF Init, Flags
  <1>3. Core
    BY DEF Init, InitState, Core, TailInv, LeftInv, ReadInv, NextInv, NoGap,
           EofIsTheEnd, NoTail
  <1>. QED
    BY <1>1, <1>2, <1>3, TypesAre DEF IInv

(* A seek changes the types of nothing but the player's state.             *)
LEMMA SeekNumbers ==
  ASSUME Numbers, TypeOKState', SeekSucceeds \/ SeekFails
  PROVE  Numbers'
  <1>. USE DEF infoVars, bufVars, callVars, hostVars
  <1>1. CASE SeekSucceeds
    <2>1. target * Freq \in Nat
      BY ProductInNat, FreqAssumption, StreamAssumption DEF Numbers
    <2>2. dec' \in Nat
      BY SongsAssumption DEF TypeOKState, Song
    <2>. QED
      BY <1>1, <2>1, <2>2, BufAssumption DEF SeekSucceeds, Numbers, NoTail
  <1>2. CASE SeekFails
    BY <1>2 DEF SeekFails, Numbers
  <1>. QED
    BY <1>1, <1>2

(* Every step keeps the types of the numbers.                              *)
LEMMA NumbersStep == Numbers /\ [Next]_vars => Numbers'
  <1>. SUFFICES ASSUME Numbers, [Next]_vars PROVE Numbers'
    OBVIOUS
  <1>. USE DEF infoVars, bufVars, callVars, hostVars, stateVars
  <1>1. TypeOKState /\ song.frames \in Nat
    BY BufferFacts DEF Numbers
  <1>2. ASSUME UNCHANGED stateVars PROVE TypeOKState'
    BY <1>1, <1>2 DEF TypeOKState
  <1>3. CASE Open \/ InitFails \/ Free \/ ReadNothing
    BY <1>2, <1>3 DEF Open, InitFails, Free, ReadNothing, Numbers
  <1>12. ASSUME NEW s \in Songs, NEW timeout \in KnownTimeouts,
                InitOk(s, timeout)
         PROVE  Numbers'
    <2>1. TypeOKState'
      BY <1>12, PlaySongFacts DEF InitOk
    <2>2. NoTail \in [from : Nat, len : 0 .. BufFrames]
      BY BufAssumption DEF NoTail
    <2>. QED
      BY <1>12, <2>1, <2>2, StreamAssumption DEF InitOk, Numbers
  <1>4. ASSUME NEW n \in ReadSizes, ReadBegin(n) PROVE Numbers'
    <2>. DEFINE left == IF readpos = 0 THEN NoTail ELSE tail
    <2>1. /\ left.from \in Nat /\ left.len \in 0 .. BufFrames
          /\ NoTail \in [from : Nat, len : 0 .. BufFrames]
      BY BufAssumption DEF Numbers, NoTail
    <2>. QED
      BY <1>2, <1>4, <2>1 DEF ReadBegin, Copy, Numbers
  <1>5. CASE ReadStep
    <2>. DEFINE fit == Least(StepFrames, size - got)
    <2>1. CASE /\ Render /\ Copy(dec, fit)
               /\ got' = got + StepFrames /\ got < size
               /\ tail' = IF StepFrames > fit
                          THEN [from |-> dec + fit, len |-> StepFrames - fit]
                          ELSE tail
      <3>1. StepFrames \in 0 .. BufFrames /\ dec \in Nat
        BY <1>1, BufferFacts DEF TypeOKState
      <3>2. size \in Nat /\ got \in Nat
        BY StreamAssumption DEF Numbers
      <3>3. fit \in 0 .. BufFrames /\ fit <= StepFrames
        BY <2>1, <3>1, <3>2, BufAssumption DEF Least
      <3>4. TypeOKState'
        BY <1>1, <2>1, RenderFacts
      <3>. HIDE DEF fit
      <3>. QED
        BY <1>5, <2>1, <3>1, <3>2, <3>3, <3>4, BufAssumption
        DEF ReadStep, Copy, Numbers
    <2>2. CASE UNCHANGED <<stateVars, tail, heard, gap, got>>
      BY <1>2, <1>5, <2>2 DEF ReadStep, Numbers
    <2>. QED
      BY <1>5, <2>1, <2>2 DEF ReadStep
  <1>6. CASE ReadReturn
    <2>1. 1000 * Least(got, size) \in Nat
      BY StreamAssumption DEF Numbers, Least
    <2>. QED
      BY <1>2, <1>6, <2>1 DEF ReadReturn, Numbers
  <1>7. ASSUME NEW ms \in SeekTargets, SeekBegin(ms) PROVE Numbers'
    BY <1>2, <1>7, StreamAssumption DEF SeekBegin, Numbers
  <1>8. CASE SeekUade
    <2>1. target \in Nat
      BY StreamAssumption DEF Numbers
    <2>. QED
      BY <1>1, <1>2, <1>8, <2>1, UadeSeekFacts, SeekNumbers DEF SeekUade
  <1>9. CASE SeekBack
    <2>1. TypeOKState'
      BY <1>1, <1>2, <1>9, RestartFacts DEF SeekBack
    <2>. QED
      BY <1>9, <2>1, SeekNumbers DEF SeekBack, Numbers
  <1>10. CASE SeekForward
    <2>1. TypeOKState'
      BY <1>1, <1>2, <1>10, RenderFacts DEF SeekForward
    <2>. QED
      BY <1>10, <2>1, SeekNumbers DEF SeekForward, Numbers
  <1>11. CASE UNCHANGED vars
    BY <1>2, <1>11 DEF vars, Numbers
  <1>. QED
    BY <1>3, <1>4, <1>5, <1>6, <1>7, <1>8, <1>9, <1>10, <1>11, <1>12
    DEF Next, Call

(* ... and of the flags.                                                   *)
LEMMA FlagsStep == Flags /\ [Next]_vars => Flags'
  <1>. SUFFICES ASSUME Flags, [Next]_vars PROVE Flags'
    OBVIOUS
  <1>. USE DEF Flags, infoVars, bufVars, callVars, hostVars
  <1>1. CASE Open \/ InitFails \/ Free
    BY <1>1 DEF Open, InitFails, Free
  <1>9. ASSUME NEW s \in Songs, NEW timeout \in KnownTimeouts,
               InitOk(s, timeout)
        PROVE  Flags'
    BY <1>9 DEF InitOk
  <1>2. CASE ReadNothing
    BY <1>2 DEF ReadNothing
  <1>8. ASSUME NEW n \in ReadSizes, ReadBegin(n) PROVE Flags'
    BY <1>8, Zenon DEF ReadBegin, Copy
  <1>3. CASE ReadStep
    BY <1>3, Zenon DEF ReadStep, Copy
  <1>4. CASE ReadReturn
    <2>1. eof' \in BOOLEAN
      <3>. DEFINE short == got < size
      <3>1. short \in BOOLEAN
        OBVIOUS
      <3>2. eof' = short
        BY <1>4, Zenon DEF ReadReturn
      <3>. HIDE DEF short
      <3>. QED
        BY <3>1, <3>2
    <2>2. /\ life' = life /\ player' = player /\ pc' = "idle"
          /\ gap' = gap /\ lost' = lost
      BY <1>4, Zenon DEF ReadReturn
    <2>. QED
      BY <2>1, <2>2
  <1>5. ASSUME NEW ms \in SeekTargets, SeekBegin(ms) PROVE Flags'
    BY <1>5 DEF SeekBegin
  <1>6. CASE SeekUade \/ SeekBack \/ SeekForward
    BY <1>6 DEF SeekUade, SeekBack, SeekForward, SeekFails, SeekSucceeds
  <1>7. CASE UNCHANGED vars
    BY <1>7 DEF vars
  <1>. HIDE DEF Flags
  <1>. QED
    BY <1>1, <1>2, <1>3, <1>4, <1>5, <1>6, <1>7, <1>8, <1>9 DEF Next, Call
------------------------------------------------------------------------------
(* The numbers of a stream are what arithmetic needs them to be.           *)
LEMMA NumberFacts ==
  ASSUME IInv
  PROVE  /\ TypeOKState /\ BufFrames \in Nat /\ BufFrames > 0
         /\ dec \in Nat /\ song.frames \in Nat /\ dec <= song.frames
         /\ heard \in Nat /\ got \in Nat /\ size \in Nat /\ readpos \in Nat
         /\ tail.len \in Nat /\ tail.from \in Nat
         /\ gap = FALSE /\ eof \in BOOLEAN /\ lost \in BOOLEAN
         /\ stale \in BOOLEAN
  <1>1. Numbers /\ Flags
    BY TypesAre DEF IInv
  <1>2. TypeOKState /\ song.frames \in Nat
    BY <1>1, BufferFacts DEF Numbers
  <1>3. dec \in Nat /\ dec <= song.frames /\ stale \in BOOLEAN
    BY <1>2 DEF TypeOKState
  <1>4. heard \in Nat /\ got \in Nat /\ size \in Nat /\ readpos \in Nat
    BY <1>1, StreamAssumption DEF Numbers
  <1>5. tail.len \in Nat /\ tail.from \in Nat
    BY <1>1, BufAssumption DEF Numbers
  <1>6. gap = FALSE /\ eof \in BOOLEAN /\ lost \in BOOLEAN
    BY <1>1 DEF Flags, IInv, Core, NoGap
  <1>. QED
    BY <1>2, <1>3, <1>4, <1>5, <1>6, BufAssumption

(* The parts of the invariant.                                             *)
LEMMA IInvParts ==
  IInv => TailInv /\ LeftInv /\ ReadInv /\ NextInv /\ NoGap /\ EofIsTheEnd
  BY Zenon DEF IInv, Core

(* A read begins with what the last one left over, all of it.              *)
LEMMA ReadBeginCore ==
  ASSUME IInv, NEW n \in ReadSizes, ReadBegin(n)
  PROVE  Core'
  <1>. DEFINE left == IF readpos = 0 THEN NoTail ELSE tail
  <1>. USE DEF bufVars, hostVars, stateVars
  <1>0. TailInv /\ LeftInv /\ NextInv
    BY IInvParts
  <1>1. left.len = tail.len /\ (tail.len > 0 /\ ~Adrift => left.from = heard)
    BY <1>0 DEF ReadBegin, NoTail, TailInv, LeftInv
  <1>2. /\ heard' = IF left.len > 0 THEN left.from + left.len ELSE heard
        /\ gap' = (gap \/ (left.len > 0 /\ left.from # heard /\ ~Adrift))
        /\ tail' = NoTail /\ pc = "idle" /\ pc' = "read" /\ size' = n
        /\ dec' = dec /\ song' = song /\ lost' = lost /\ stale' = stale
        /\ ~eof
    BY Zenon DEF ReadBegin, Copy
  <1>. HIDE DEF left
  <1>3. ~Adrift => heard' = heard + tail.len
    BY <1>1, <1>2, NumberFacts
  <1>4. gap' = FALSE
    BY <1>1, <1>2, NumberFacts
  <1>5. tail'.len = 0
    BY <1>2 DEF NoTail
  <1>6. TailInv' /\ LeftInv' /\ NoGap' /\ EofIsTheEnd'
    BY <1>2, <1>4, <1>5 DEF TailInv, LeftInv, NoGap, EofIsTheEnd
  <1>7. ReadInv'
    BY <1>2, <1>5 DEF ReadInv
  <1>8. NextInv'
    BY <1>0, <1>2, <1>3, <1>5, NumberFacts DEF NextInv, Adrift
  <1>. QED
    BY <1>6, <1>7, <1>8, Zenon DEF Core

(* A buffer goes on where the last one ended, to the host or to the tail;  *)
(* the one that comes with the end of the song is dropped.                 *)
LEMMA ReadStepCore ==
  ASSUME IInv, ReadStep
  PROVE  Core'
  <1>. DEFINE fit == Least(StepFrames, size - got)
  <1>1. pc = "read" /\ got < size /\ size' = size /\ song' = song
        /\ lost' = lost /\ stale' = stale /\ Adrift' = Adrift
    BY DEF ReadStep, Render, hostVars, stateVars, Adrift
  <1>2. tail.len = 0 /\ size \in ReadSizes
    BY <1>1, IInvParts, NumberFacts DEF ReadInv
  <1>3. CASE /\ Render /\ Copy(dec, fit)
             /\ tail' = IF StepFrames > fit
                        THEN [from |-> dec + fit, len |-> StepFrames - fit]
                        ELSE tail
             /\ got' = got + StepFrames
             /\ pc' = IF Status = "NONE" THEN "read" ELSE "return"
    <2>1. /\ Frames \in 0 .. BufFrames /\ dec + Frames \in 0 .. song.frames
          /\ Status # "NONE" => \/ dec + Frames = song.frames
                                \/ stale /\ dec + Frames \in song.cuts
          /\ StepFrames \in 0 .. BufFrames
          /\ Status = "NONE" => StepFrames = Frames
          /\ Status # "NONE" => StepFrames = 0
          /\ dec = song.frames => Frames = 0
      BY NumberFacts, BufferFacts DEF StepFrames
    <2>2. fit \in 0 .. StepFrames /\ (fit = StepFrames \/ fit = size - got)
          /\ (fit = 0 => StepFrames = 0)
      BY <1>1, <2>1, NumberFacts DEF Least
    <2>3. /\ heard' = IF fit > 0 THEN dec + fit ELSE heard
          /\ gap' = (gap \/ (fit > 0 /\ dec # heard /\ ~Adrift))
          /\ tail' = IF StepFrames > fit
                     THEN [from |-> dec + fit, len |-> StepFrames - fit]
                     ELSE tail
          /\ got' = got + StepFrames
          /\ pc' = IF Status = "NONE" THEN "read" ELSE "return"
          /\ dec' = dec + Frames
      BY <1>3, Zenon DEF Copy, Render
    <2>. HIDE DEF fit
    <2>4. \/ Adrift
          \/ heard = dec
          \/ dec = song.frames /\ (~lost => heard <= dec
                                            /\ dec - heard <= BufFrames)
      BY <1>1, <1>2, IInvParts, NumberFacts DEF NextInv
    <2>5. fit > 0 /\ ~Adrift => heard = dec
      BY <2>1, <2>2, <2>4, NumberFacts
    <2>6. gap' = FALSE
      BY <2>3, <2>5, NumberFacts
    <2>7. CASE StepFrames > fit
      <3>1. tail'.len = StepFrames - fit /\ tail'.from = dec + fit
        BY <2>3, <2>7
      <3>2. fit > 0 /\ fit = size - got /\ Status = "NONE"
        BY <1>1, <2>1, <2>2, <2>7, NumberFacts
      <3>3. heard' + tail'.len = dec' /\ heard' = tail'.from
        BY <2>1, <2>2, <2>3, <3>1, <3>2, NumberFacts
      <3>4. got' > size
        BY <2>1, <2>2, <2>3, <2>7, <3>2, NumberFacts
      <3>. QED
        BY <1>1, <1>2, <2>3, <2>6, <3>2, <3>3, <3>4
        DEF Core, TailInv, LeftInv, ReadInv, NextInv, NoGap, EofIsTheEnd
    <2>8. CASE ~(StepFrames > fit)
      <3>1. tail' = tail /\ fit = StepFrames
        BY <2>1, <2>2, <2>3, <2>8
      <3>2. CASE Status = "NONE"
        <4>1. Adrift \/ heard' = dec' \/ (dec' = song.frames
                  /\ (~lost => heard' <= dec' /\ dec' - heard' <= BufFrames))
          BY <2>1, <2>3, <2>4, <2>5, <3>1, <3>2, NumberFacts
        <4>2. tail'.len = 0 /\ pc' = "read"
          BY <1>2, <2>3, <3>1, <3>2
        <4>3. heard' + tail'.len = heard'
          BY <2>2, <2>3, <4>2, NumberFacts
        <4>. QED
          BY <1>1, <1>2, <2>6, <4>1, <4>2, <4>3
          DEF Core, TailInv, LeftInv, ReadInv, NextInv, NoGap, EofIsTheEnd
      <3>3. CASE Status # "NONE"
        <4>1. /\ StepFrames = 0 /\ heard' = heard /\ got' = got
              /\ dec' = song.frames \/ CutShort'
          BY <1>1, <2>1, <2>3, <3>1, <3>3, NumberFacts DEF CutShort
        <4>2. tail'.len = 0 /\ pc' = "return"
          BY <1>2, <2>3, <3>1, <3>3
        <4>3. ~lost => heard' <= dec' /\ dec' - heard' <= BufFrames
          BY <2>1, <2>3, <2>4, <4>1, NumberFacts DEF Adrift
        <4>4. Adrift \/ heard' + tail'.len = dec' \/ dec' = song.frames
              \/ (CutShort' /\ heard' <= dec' /\ dec' - heard' <= BufFrames)
          BY <1>2, <2>1, <2>3, <2>4, <3>1, <4>1, NumberFacts
        <4>. QED
          BY <1>1, <1>2, <2>6, <4>1, <4>2, <4>3, <4>4
          DEF Core, TailInv, LeftInv, ReadInv, NextInv, NoGap, EofIsTheEnd
      <3>. QED
        BY <3>2, <3>3
    <2>. QED
      BY <2>7, <2>8
  <1>4. CASE /\ total >= MaxBytes(known) /\ pc' = "return"
             /\ UNCHANGED <<stateVars, tail, heard, gap, got>>
    <2>1. known' = known
      BY DEF ReadStep, infoVars
    <2>2. MaxBytes(known)' = MaxBytes(known)
      BY <2>1 DEF MaxBytes, BytesAt, BytesPerSec
    <2>. QED
      BY <1>1, <1>2, <1>4, <2>2 DEF stateVars, IInv, Core, TailInv, LeftInv,
        ReadInv, NextInv, NoGap, EofIsTheEnd, CutShort
  <1>. QED
    BY <1>3, <1>4 DEF ReadStep

(* A read that fills its block returns it, another one is the last.        *)
LEMMA ReadReturnCore ==
  ASSUME IInv, ReadReturn
  PROVE  Core'
  <1>1. /\ readpos' = readpos + 1000 * Least(got, size)
        /\ eof' = (got < size) /\ pc' = "idle"
        /\ pc = "return" \/ (pc = "read" /\ got >= size)
    BY DEF ReadReturn
  <1>2. /\ song' = song /\ dec' = dec /\ total' = total /\ known' = known
        /\ tail' = tail /\ heard' = heard /\ gap' = gap /\ lost' = lost
        /\ stale' = stale /\ Adrift' = Adrift /\ CutShort' = CutShort
    BY DEF ReadReturn, stateVars, infoVars, Adrift, CutShort
  <1>3. tail.len > 0 => got > size
    BY <1>1, IInvParts DEF ReadInv
  <1>4. size > 0
    BY <1>1, IInvParts, NumberFacts, StreamAssumption DEF ReadInv
  <1>5. readpos' = 0 => tail.len = 0
    <2>. SUFFICES ASSUME tail.len > 0 PROVE readpos' # 0
      BY NumberFacts
    <2>1. Least(got, size) = size /\ size \in Nat
      BY <1>3, NumberFacts DEF Least
    <2>2. readpos' = readpos + 1000 * size /\ readpos \in Nat
      BY <1>1, <2>1, NumberFacts
    <2>. QED
      BY <1>4, <2>1, <2>2
  <1>6. ASSUME eof', ~lost
        PROVE  /\ tail.len = 0
               /\ \/ /\ dec = song.frames \/ CutShort
                     /\ dec - heard <= BufFrames
                  \/ heard = dec /\ total >= MaxBytes(known)
    <2>1. got < size
      BY <1>1, <1>6
    <2>2. tail.len = 0 /\ pc = "return"
      BY <1>1, <1>3, <2>1, NumberFacts
    <2>3. dec = song.frames \/ CutShort \/ total >= MaxBytes(known)
      BY <2>2, IInvParts DEF ReadInv
    <2>4. \/ heard = dec
          \/ (dec = song.frames \/ CutShort) /\ dec - heard <= BufFrames
      BY <1>6, <2>2, IInvParts, NumberFacts DEF NextInv, Adrift
    <2>. QED
      BY <2>2, <2>3, <2>4, NumberFacts
  <1>7. TailInv' /\ LeftInv' /\ ReadInv' /\ NoGap'
    BY <1>1, <1>2, <1>5, IInvParts DEF TailInv, LeftInv, ReadInv, NoGap
  <1>8. NextInv'
    <2>1. pc = "return" => eof'
      BY <1>1, IInvParts DEF ReadInv
    <2>. QED
      BY <1>1, <1>2, <2>1, IInvParts DEF NextInv
  <1>9. EofIsTheEnd'
    <2>1. MaxBytes(known)' = MaxBytes(known)
      BY <1>2 DEF MaxBytes, BytesAt, BytesPerSec
    <2>. QED
      BY <1>2, <1>6, <2>1 DEF EofIsTheEnd, CutShort
  <1>. QED
    BY <1>7, <1>8, <1>9 DEF Core

(* A seek that lands begins anew from where the decoder stands.            *)
LEMMA SeekSucceedsCore ==
  ASSUME IInv, SeekSucceeds, dec' \in Nat
  PROVE  Core'
  <1>1. /\ tail' = NoTail /\ heard' = dec' /\ pc' = "idle" /\ gap' = gap
        /\ eof' = FALSE
    BY DEF SeekSucceeds
  <1>2. tail'.len = 0
    BY <1>1 DEF NoTail
  <1>3. heard' + tail'.len = dec'
    <2>1. heard' = dec' /\ heard' \in Nat
      BY <1>1
    <2>2. \A n \in Nat : n + 0 = n
      OBVIOUS
    <2>. QED
      BY <1>2, <2>1, <2>2, Zenon
  <1>4. gap' = FALSE
    BY <1>1, NumberFacts
  <1>5. TailInv' /\ LeftInv' /\ ReadInv'
    BY <1>1, <1>2 DEF TailInv, LeftInv, ReadInv
  <1>6. NextInv' /\ NoGap' /\ EofIsTheEnd'
    BY <1>1, <1>3, <1>4 DEF NextInv, NoGap, EofIsTheEnd
  <1>. QED
    BY <1>5, <1>6 DEF Core

(* A seek that fails has moved nothing, or has met the end of the song, or *)
(* has been cut short.                                                     *)
LEMMA SeekFailsCore ==
  ASSUME IInv, SeekFails, pc \in {"seek", "forward"},
         \/ UNCHANGED stateVars /\ pc # "forward"
         \/ dec' = song'.frames /\ stale' = stale
         \/ stale'
  PROVE  Core'
  BY NumberFacts DEF SeekFails, Core, IInv, TailInv, LeftInv, ReadInv,
    NextInv, NoGap, EofIsTheEnd, bufVars, stateVars, Adrift, CutShort

(* Steps that touch nothing of what has been read.                         *)
LEMMA QuietCore ==
  ASSUME IInv, UNCHANGED <<stateVars, bufVars, known, lost>>,
         pc \notin {"read", "return"}, pc' \in {"idle", "seek", "forward"},
         pc' # "forward" => pc # "forward", eof => eof',
         pc' = "idle" => pc = "idle" /\ (eof' = eof \/ known = 0)
  PROVE  Core'
  <1>1. MaxBytes(known)' = MaxBytes(known)
    BY DEF MaxBytes, BytesAt, BytesPerSec
  <1>. QED
    BY <1>1 DEF IInv, Core, TailInv, LeftInv, ReadInv, NextInv, NoGap,
      EofIsTheEnd, stateVars, bufVars, Adrift, CutShort

(* Every step keeps the strengthened part of the invariant.                *)
LEMMA CoreStep ==
  ASSUME IInv, [Next]_vars, TypeOK'
  PROVE  Core'
  <1>. USE DEF infoVars, bufVars, callVars, hostVars
  <1>1. dec' \in Nat
    <2>1. TypeOKState' /\ song' \in Songs
      BY DEF TypeOK, TypeOKState
    <2>. QED
      BY <2>1, SongsAssumption DEF TypeOKState, Song
  <1>11. ASSUME NEW s \in Songs, NEW timeout \in KnownTimeouts,
                InitOk(s, timeout)
         PROVE  Core'
    <2>1. gap' = FALSE /\ dec' = 0 /\ tail' = NoTail /\ heard' = 0
          /\ eof' = FALSE /\ pc' = "idle"
      BY <1>11, NumberFacts DEF InitOk, PlaySong
    <2>. QED
      BY <2>1 DEF Core, TailInv, LeftInv, ReadInv, NextInv, NoGap,
        EofIsTheEnd, NoTail
  <1>2. CASE Open \/ InitFails \/ Free \/ ReadNothing
    <2>1. ASSUME pc = "idle" PROVE Core'
      BY <1>2, <2>1, QuietCore
      DEF Open, InitFails, Free, ReadNothing
    <2>2. ASSUME pc # "idle", UNCHANGED <<stateVars, known, bufVars, callVars,
                                          hostVars, pc>>
          PROVE  Core'
      <3>1. MaxBytes(known)' = MaxBytes(known)
        BY <2>2 DEF MaxBytes, BytesAt, BytesPerSec
      <3>. QED
        BY <2>2, <3>1 DEF IInv, Core, TailInv, LeftInv, ReadInv, NextInv,
          NoGap, EofIsTheEnd, stateVars, Adrift, CutShort
    <2>. QED
      BY <1>2, <2>1, <2>2 DEF Open, InitFails, Free, ReadNothing
  <1>3. ASSUME NEW n \in ReadSizes, ReadBegin(n) PROVE Core'
    BY <1>3, ReadBeginCore
  <1>4. CASE ReadStep
    BY <1>4, ReadStepCore
  <1>5. CASE ReadReturn
    BY <1>5, ReadReturnCore
  <1>6. ASSUME NEW ms \in SeekTargets, SeekBegin(ms) PROVE Core'
    BY <1>6, QuietCore DEF SeekBegin
  <1>7. CASE SeekUade
    BY <1>1, <1>7, SeekSucceedsCore, SeekFailsCore DEF SeekUade
  <1>8. CASE SeekBack
    <2>1. CASE UNCHANGED <<stateVars, infoVars, bufVars, callVars, hostVars>>
               /\ pc' = "forward"
      BY <1>8, <2>1, QuietCore DEF SeekBack
    <2>2. CASE Restart /\ pc' = "forward"
               /\ UNCHANGED <<infoVars, bufVars, callVars, hostVars>>
      BY <1>8, <2>2, NumberFacts DEF SeekBack, Restart, IInv, Core, TailInv,
        LeftInv, ReadInv, NextInv, NoGap, EofIsTheEnd, Adrift
    <2>3. CASE SeekFails /\ UNCHANGED stateVars
      BY <1>8, <2>3, SeekFailsCore DEF SeekBack
    <2>. QED
      BY <1>8, <2>1, <2>2, <2>3 DEF SeekBack
  <1>9. CASE SeekForward
    <2>1. CASE SeekSucceeds
      BY <1>1, <2>1, SeekSucceedsCore
    <2>2. CASE pc' = pc /\ UNCHANGED <<infoVars, bufVars, callVars, hostVars>>
      BY <1>9, <2>2 DEF SeekForward, Render, stateVars, IInv, Core, TailInv,
        LeftInv, ReadInv, NextInv, NoGap, EofIsTheEnd, Adrift
    <2>3. CASE SeekFails /\ Render /\ Status # "NONE"
      <3>1. dec' = dec + Frames /\ song' = song /\ stale' = stale
        BY <2>3 DEF Render
      <3>2. dec' = song'.frames \/ stale'
        BY <2>3, <3>1, NumberFacts, BufferFacts
      <3>. QED
        BY <1>9, <2>3, <3>1, <3>2, SeekFailsCore DEF SeekForward
    <2>. QED
      BY <1>9, <2>1, <2>2, <2>3 DEF SeekForward
  <1>10. CASE UNCHANGED vars
    <2>1. MaxBytes(known)' = MaxBytes(known)
      BY <1>10 DEF MaxBytes, BytesAt, BytesPerSec, vars
    <2>. QED
      BY <1>10, <2>1 DEF vars, stateVars, IInv, Core, TailInv, LeftInv,
        ReadInv, NextInv, NoGap, EofIsTheEnd, Adrift, CutShort
  <1>. QED
    BY <1>2, <1>3, <1>4, <1>5, <1>6, <1>7, <1>8, <1>9, <1>10, <1>11
    DEF Next, Call

(* The invariant is inductive.                                             *)
LEMMA IInvStep == IInv /\ [Next]_vars => IInv'
  <1>. SUFFICES ASSUME IInv, [Next]_vars PROVE IInv'
    OBVIOUS
  <1>1. Numbers /\ Flags
    BY TypesAre DEF IInv
  <1>2. Numbers' /\ Flags'
    BY <1>1, NumbersStep, FlagsStep
  <1>3. TypeOK'
    BY <1>2, Zenon DEF TypeOK, Numbers, Flags
  <1>. QED
    BY <1>3, CoreStep DEF IInv
------------------------------------------------------------------------------
(* A stream always satisfies the invariant.                                *)
LEMMA Invariance == Spec => []IInv
  BY InitIInv, IInvStep, PTL DEF Spec

(* The state of a stream, and of the player under it, has its types.       *)
THEOREM TypeCorrect == Spec => []TypeOK
  <1>1. IInv => TypeOK
    BY DEF IInv
  <1>. QED
    BY <1>1, Invariance, PTL

(* However long the song, the buffers and the blocks are and wherever the  *)
(* host seeks, uade_read skips no frame, repeats none and hands out none   *)
(* from before a seek, until a seek fails on a decoder that has kept an    *)
(* end over a restart.                                                     *)
THEOREM StreamHasNoGap == Spec => []NoGap
  <1>1. IInv => NoGap
    BY DEF IInv, Core
  <1>. QED
    BY <1>1, Invariance, PTL

(* A short read of uade_read means the end of the song or its known        *)
(* length, and leaves nothing of it behind, unless a seek has failed or    *)
(* has restarted a song whose decoder keeps the end it met before: that    *)
(* song is short where that decoder cuts it, and nowhere else.             *)
THEOREM EofIsAtTheEnd == Spec => []EofIsTheEnd
  <1>1. IInv => EofIsTheEnd
    BY DEF IInv, Core
  <1>. QED
    BY <1>1, Invariance, PTL
------------------------------------------------------------------------------
(* Where a read is: readpos and what it has handed out since.              *)
Handed == IF pc \in {"read", "return"} THEN readpos + 1000 * Least(got, size)
                                       ELSE readpos

(* What is heard is off what is shown by what a seek lands beside its      *)
(* target; reads leave it as it is.                                        *)
AheadInv ==
  /\ ~Adrift /\ (song.uade => dec < song.frames) =>
       -1000 < 1000 * heard - Handed
         /\ 1000 * heard - Handed < 1000 * BufFrames
  /\ seeks = 0 => 1000 * heard = Handed

(* The player counts its decoder's bytes until uade seeks.                 *)
CountInv == ~song.uade \/ seeks = 0 => total = 4 * dec /\ pos = Millis(total)

(* A song that is sought in came from less than a buffer before.           *)
ForwardInv ==
  /\ pc \in {"seek", "forward"} => seeks > 0 /\ target \in SeekTargets
  /\ pc = "forward" => ~song.uade /\ Millis(total - 4 * BufFrames) < target

(* A song that nobody seeks in is over its limit by less than a buffer.    *)
LimitInv ==
  seeks = 0 => dec = 0 \/ total < MaxBytes(known) + 4 * BufFrames

(* A song that nobody seeks in is never restarted.                         *)
FreshInv == stale => seeks > 0

PosInv == CountInv /\ ForwardInv /\ AheadInv /\ LimitInv /\ FreshInv

(* Division keeps the order, and a buffer makes a ms at least.             *)
LEMMA DivMono ==
  ASSUME NEW a \in Int, NEW b \in Int, NEW d \in Nat \ {0}, a <= b
  PROVE  a \div d <= b \div d
  OBVIOUS

LEMMA DivLess ==
  ASSUME NEW a \in Int, NEW x \in Int, NEW d \in Nat \ {0}, d <= x
  PROVE  (a - x) \div d < a \div d
  OBVIOUS

LEMMA DivInt ==
  ASSUME NEW a \in Int, NEW d \in Nat \ {0}
  PROVE  a \div d \in Int /\ d * (a \div d) <= a /\ a < d * (a \div d) + d
  OBVIOUS

LEMMA TimesOneMore ==
  ASSUME NEW a \in Int, NEW b \in Int
  PROVE  a * (b + 1) = a * b + a
  OBVIOUS

LEMMA TimeGoesOn ==
  ASSUME NEW a \in Int, NEW b \in Int
  PROVE  /\ Millis(a) \in Int
         /\ a <= b => Millis(a) <= Millis(b)
         /\ Millis(b - 4 * BufFrames) < Millis(b)
  <1>1. a * 1000 \in Int /\ (a <= b => a * 1000 <= b * 1000)
    OBVIOUS
  <1>2. Millis(a) \in Int /\ (a <= b => Millis(a) <= Millis(b))
    BY <1>1, DivMono, DivInt, PositionFacts DEF Millis
  <1>3. /\ 4 * BufFrames * 1000 \in Int
        /\ BytesPerSec <= 4 * BufFrames * 1000
        /\ (b - 4 * BufFrames) * 1000 = b * 1000 - 4 * BufFrames * 1000
    BY FreqAssumption, BufAssumption, BufLasts DEF BytesPerSec
  <1>4. Millis(b - 4 * BufFrames) < Millis(b)
    <2>. DEFINE x == 4 * BufFrames * 1000
                y == b * 1000
    <2>1. x \in Int /\ y \in Int /\ BytesPerSec <= x
      BY <1>3
    <2>. HIDE DEF x, y
    <2>2. (y - x) \div BytesPerSec < y \div BytesPerSec
      BY <2>1, DivLess, PositionFacts
    <2>. QED
      BY <1>3, <2>2 DEF Millis, x, y
  <1>. QED
    BY <1>2, <1>4

(* Where uade's decoder is after a seek, in frames and in readpos' unit.   *)
LEMMA UadeLands ==
  \A ms \in Nat :
    /\ BytesAt(ms) \div 4 \in Nat
    /\ -1000 < 1000 * (BytesAt(ms) \div 4) - ms * Freq
    /\ 1000 * (BytesAt(ms) \div 4) - ms * Freq <= 0
  <1>. TAKE ms \in Nat
  <1>. DEFINE x == ms * Freq
              b == BytesAt(ms)
              n == b \div 4
  <1>1. x \in Nat /\ b = (4 * x) \div 1000
    <2>1. ms * BytesPerSec = 4 * (ms * Freq) /\ ms * Freq \in Nat
      BY FreqAssumption DEF BytesPerSec
    <2>. QED
      BY <2>1 DEF BytesAt
  <1>. HIDE DEF x, b
  <1>2. b \in Nat /\ 1000 * b <= 4 * x /\ 4 * x < 1000 * b + 1000
    BY <1>1
  <1>3. n \in Nat /\ 4 * n <= b /\ b < 4 * n + 4
    BY <1>2
  <1>. HIDE DEF n
  <1>4. -1000 < 1000 * n - x /\ 1000 * n - x <= 0
    BY <1>1, <1>2, <1>3
  <1>. QED
    BY <1>3, <1>4 DEF x, n, b

(* Where another decoder is after one.                                     *)
LEMMA OthersLand ==
  \A n \in Nat, ms \in Nat :
    Millis(4 * n) >= ms /\ Millis(4 * n - 4 * BufFrames) < ms =>
      0 <= 1000 * n - ms * Freq /\ 1000 * n - ms * Freq < 1000 * BufFrames
  <1>. SUFFICES ASSUME NEW n \in Nat, NEW ms \in Nat, Millis(4 * n) >= ms,
                       Millis(4 * n - 4 * BufFrames) < ms
                PROVE  /\ 0 <= 1000 * n - ms * Freq
                       /\ 1000 * n - ms * Freq < 1000 * BufFrames
    OBVIOUS
  <1>. DEFINE d == BytesPerSec
              p == (4 * n) * 1000
              q == (4 * n - 4 * BufFrames) * 1000
  <1>1. /\ d \in Nat \ {0} /\ d = 4 * Freq /\ Freq \in Nat
        /\ p \in Int /\ q \in Int /\ q = p - 4000 * BufFrames
        /\ p = 4000 * n /\ BufFrames \in Nat
    BY FreqAssumption, BufAssumption, PositionFacts DEF BytesPerSec
  <1>2. p \div d >= ms /\ q \div d < ms
    BY DEF Millis
  <1>. HIDE DEF d, p, q
  <1>3. p \div d \in Int /\ d * (p \div d) <= p
    BY <1>1, DivInt
  <1>4. q \div d \in Int /\ q < d * (q \div d) + d
    <2>1. q \in Int /\ d \in Nat \ {0}
      BY <1>1
    <2>. QED
      BY <2>1, DivInt
  <1>5. d * ms <= d * (p \div d)
    BY <1>1, <1>2, <1>3
  <1>6. d * (q \div d) + d <= d * ms
    <2>. DEFINE k == q \div d
    <2>1. k \in Int /\ k < ms /\ d \in Nat
      BY <1>1, <1>2, <1>4
    <2>. HIDE DEF k
    <2>2. d * (k + 1) <= d * ms /\ d * (k + 1) = d * k + d
      BY <2>1, TimesOneMore
    <2>. QED
      BY <2>2 DEF k
  <1>. DEFINE x == ms * Freq
  <1>7. x \in Nat /\ d * ms = 4 * x
    BY <1>1
  <1>8. d * (p \div d) \in Int /\ d * (q \div d) \in Int
    BY <1>1, <1>3, <1>4
  <1>. HIDE DEF x
  <1>9. 4 * x <= p /\ q < 4 * x
    BY <1>1, <1>3, <1>4, <1>5, <1>6, <1>7, <1>8
  <1>. QED
    BY <1>1, <1>7, <1>9 DEF x

(* The limit is a number of bytes.                                         *)
LEMMA LimitIsNat == \A k \in Int : MaxBytes(k) \in Nat
  <1>. SUFFICES ASSUME NEW k \in Int PROVE MaxBytes(k) \in Nat
    OBVIOUS
  <1>1. PrecalcTimeout * BytesPerSec \in Nat
    BY LimitAssumption, PositionFacts, ProductInNat
  <1>2. k > 0 => BytesAt(k) \in Nat
    BY PositionFacts
  <1>. QED
    BY <1>1, <1>2 DEF MaxBytes

(* What else of a stream arithmetic is done with.                          *)
LEMMA MoreNumbers ==
  ASSUME IInv
  PROVE  /\ total \in Nat /\ seeks \in Nat /\ target \in Nat
         /\ known \in Int /\ MaxBytes(known) \in Nat
         /\ tail.len <= BufFrames
  <1>1. Numbers
    BY TypesAre DEF IInv
  <1>2. total \in Nat /\ seeks \in Nat /\ target \in Nat /\ known \in Int
    BY <1>1, StreamAssumption DEF Numbers, TypeOKState
  <1>3. tail.len <= BufFrames
    BY <1>1, BufAssumption DEF Numbers
  <1>. QED
    BY <1>2, <1>3, LimitIsNat

LEMMA InitPosInv == Init => PosInv
  <1>1. Millis(0) = 0
    BY PositionFacts DEF Millis
  <1>. QED
    BY <1>1, BufAssumption DEF Init, InitState, PosInv, CountInv, ForwardInv,
      AheadInv, LimitInv, FreshInv, Handed

(* Steps that neither read nor move the decoder.                           *)
LEMMA QuietPos ==
  ASSUME PosInv, UNCHANGED <<stateVars, known, heard>>,
         Handed' = Handed, seeks' = seeks, target' = target, lost => lost',
         pc' \notin {"seek", "forward"} \/ pc' = pc
  PROVE  PosInv'
  <1>1. MaxBytes(known)' = MaxBytes(known)
    BY DEF MaxBytes, BytesAt, BytesPerSec
  <1>2. Millis(total)' = Millis(total)
        /\ Millis(total - 4 * BufFrames)' = Millis(total - 4 * BufFrames)
    BY DEF Millis, BytesPerSec, stateVars
  <1>3. /\ song' = song /\ dec' = dec /\ total' = total /\ pos' = pos
        /\ heard' = heard /\ stale' = stale /\ (Adrift => Adrift')
    BY DEF stateVars, Adrift
  <1>. HIDE DEF Handed
  <1>4. CountInv'
    BY <1>2, <1>3 DEF PosInv, CountInv
  <1>5. ForwardInv'
    BY <1>2, <1>3 DEF PosInv, ForwardInv
  <1>6. AheadInv'
    BY <1>3 DEF PosInv, AheadInv
  <1>7. LimitInv' /\ FreshInv'
    BY <1>1, <1>3 DEF PosInv, LimitInv, FreshInv
  <1>. QED
    BY <1>4, <1>5, <1>6, <1>7 DEF PosInv

(* A buffer more is counted as it is rendered.                             *)
LEMMA RenderCounts ==
  ASSUME IInv, Render, CountInv
  PROVE  /\ song' = song /\ dec' = dec + Frames /\ total' = total + 4 * Frames
         /\ Frames \in 0 .. BufFrames /\ stale' = stale
         /\ ~song.uade \/ seeks = 0 =>
              total' = 4 * dec' /\ pos' = Millis(total')
  <1>1. /\ song' = song /\ dec' = dec + Frames /\ total' = total + 4 * Frames
        /\ pos' = Millis(total + 4 * Frames) /\ stale' = stale
    BY DEF Render
  <1>2. Frames \in 0 .. BufFrames
    BY NumberFacts, BufferFacts
  <1>3. pos' = Millis(total')
    BY <1>1
  <1>4. total = 4 * dec => total' = 4 * dec'
    BY <1>1, <1>2, NumberFacts
  <1>. QED
    BY <1>1, <1>2, <1>3, <1>4 DEF CountInv

(* A read takes the tail with it, ...                                      *)
LEMMA ReadBeginPos ==
  ASSUME IInv, PosInv, NEW n \in ReadSizes, ReadBegin(n)
  PROVE  PosInv'
  <1>. DEFINE left == IF readpos = 0 THEN NoTail ELSE tail
  <1>. USE DEF bufVars, hostVars, stateVars, infoVars
  <1>1. left.len = tail.len /\ (tail.len > 0 /\ ~Adrift => left.from = heard)
    BY IInvParts DEF ReadBegin, NoTail, TailInv, LeftInv
  <1>10. left.from \in Nat
    BY NumberFacts DEF NoTail
  <1>2. /\ heard' = IF left.len > 0 THEN left.from + left.len ELSE heard
        /\ got' = left.len /\ size' = n /\ readpos' = readpos
        /\ pc = "idle" /\ pc' = "read"
        /\ dec' = dec /\ song' = song /\ total' = total /\ pos' = pos
        /\ known' = known /\ seeks' = seeks /\ target' = target
        /\ stale' = stale /\ lost' = lost
    BY Zenon DEF ReadBegin, Copy
  <1>. HIDE DEF left
  <1>0. (seeks = 0 => ~Adrift) /\ Adrift' = Adrift
    BY <1>2, MoreNumbers DEF PosInv, FreshInv, Adrift
  <1>3. heard' \in Nat /\ (~Adrift => heard' = heard + tail.len)
    BY <1>1, <1>2, <1>10, NumberFacts
  <1>4. tail.len <= n /\ n \in Nat
    BY MoreNumbers, NumberFacts, StreamAssumption
  <1>5. Handed' = Handed + 1000 * tail.len /\ Handed \in Int
    BY <1>1, <1>2, <1>4, NumberFacts DEF Handed, Least
  <1>. HIDE DEF Handed
  <1>6. ~Adrift => 1000 * heard' - Handed' = 1000 * heard - Handed
    BY <1>3, <1>5, NumberFacts
  <1>7. AheadInv'
    <2>1. 1000 * heard' \in Int /\ Handed' \in Int /\ 1000 * heard \in Int
      BY <1>3, <1>5, NumberFacts
    <2>. QED
      BY <1>0, <1>2, <1>5, <1>6, <2>1 DEF PosInv, AheadInv
  <1>8. CountInv' /\ LimitInv' /\ FreshInv'
    <2>1. MaxBytes(known)' = MaxBytes(known) /\ Millis(total)' = Millis(total)
      BY <1>2 DEF MaxBytes, BytesAt, BytesPerSec, Millis
    <2>. QED
      BY <1>2, <2>1 DEF PosInv, CountInv, LimitInv, FreshInv
  <1>9. ForwardInv'
    BY <1>2 DEF ForwardInv
  <1>. QED
    BY <1>7, <1>8, <1>9 DEF PosInv

(* ... and then what is rendered, up to the block and to the limit.        *)
LEMMA ReadStepPos ==
  ASSUME IInv, PosInv, ReadStep
  PROVE  PosInv'
  <1>. DEFINE fit == Least(StepFrames, size - got)
  <1>1. /\ pc = "read" /\ got < size /\ size' = size /\ readpos' = readpos
        /\ seeks' = seeks /\ target' = target /\ known' = known
        /\ pc' \in {"read", "return"} /\ lost' = lost /\ stale' = stale
    BY DEF ReadStep, Render, stateVars, hostVars, infoVars
  <1>0. (seeks = 0 => ~Adrift) /\ Adrift' = Adrift
    BY <1>1, MoreNumbers DEF PosInv, FreshInv, Adrift
  <1>2. CASE /\ total < MaxBytes(known) /\ Render /\ Copy(dec, fit)
             /\ got' = got + StepFrames
    <2>1. /\ StepFrames \in Nat
          /\ dec = song.frames => Frames = 0
          /\ StepFrames = Frames \/ StepFrames = 0
      BY NumberFacts, BufferFacts DEF StepFrames
    <2>2. /\ fit \in 0 .. StepFrames
          /\ Least(got + StepFrames, size) = got + fit
          /\ Least(got, size) = got
      BY <1>1, <2>1, NumberFacts DEF Least
    <2>3. heard' = IF fit > 0 THEN dec + fit ELSE heard
      BY <1>2, Zenon DEF Copy
    <2>. HIDE DEF fit
    <2>4. /\ tail.len = 0
          /\ Adrift \/ heard + tail.len = dec \/ dec = song.frames
      BY <1>1, IInvParts, NumberFacts DEF ReadInv, NextInv
    <2>5. heard' \in Nat /\ (~Adrift => heard' = heard + fit)
      BY <2>1, <2>2, <2>3, <2>4, NumberFacts
    <2>6. Handed' = Handed + 1000 * fit /\ Handed \in Int
      BY <1>1, <1>2, <2>2, NumberFacts DEF Handed
    <2>7. /\ ~Adrift => 1000 * heard' - Handed' = 1000 * heard - Handed
          /\ 1000 * heard' \in Int /\ Handed' \in Int /\ 1000 * heard \in Int
      BY <2>2, <2>5, <2>6, NumberFacts
    <2>8. /\ song' = song /\ dec' = dec + Frames /\ total' = total + 4 * Frames
          /\ Frames \in 0 .. BufFrames
          /\ ~song.uade \/ seeks = 0 =>
               total' = 4 * dec' /\ pos' = Millis(total')
      BY <1>2, RenderCounts DEF PosInv
    <2>. HIDE DEF Handed
    <2>9. AheadInv'
      <3>1. dec' < song.frames => dec < song.frames
        BY <2>8, NumberFacts
      <3>. QED
        BY <1>0, <1>1, <2>6, <2>7, <2>8, <3>1 DEF PosInv, AheadInv
    <2>10. CountInv'
      BY <1>1, <2>8 DEF CountInv
    <2>11. ForwardInv' /\ FreshInv'
      BY <1>1 DEF PosInv, ForwardInv, FreshInv
    <2>12. LimitInv'
      <3>1. MaxBytes(known)' = MaxBytes(known)
        BY <1>1 DEF MaxBytes, BytesAt, BytesPerSec
      <3>2. total' < MaxBytes(known) + 4 * BufFrames
        BY <1>2, <2>8, MoreNumbers, NumberFacts
      <3>. QED
        BY <3>1, <3>2 DEF LimitInv
    <2>. QED
      BY <2>9, <2>10, <2>11, <2>12 DEF PosInv
  <1>3. CASE UNCHANGED <<stateVars, heard, got>>
    <2>1. Handed' = Handed
      BY <1>1, <1>3 DEF Handed
    <2>. QED
      BY <1>1, <1>3, <2>1, QuietPos DEF stateVars
  <1>. QED
    BY <1>2, <1>3 DEF ReadStep, stateVars

(* uade's seek lands where it computes; at the end of the song, if further.*)
LEMMA SeekUadePos ==
  ASSUME IInv, PosInv, SeekUade
  PROVE  PosInv'
  <1>0. /\ pc = "seek" /\ song.uade /\ seeks > 0 /\ target \in Nat
        /\ pc' = "idle" /\ seeks' = seeks /\ song' = song
    BY MoreNumbers
    DEF SeekUade, SeekSucceeds, SeekFails, PosInv, ForwardInv, UadeSeek,
        stateVars
  <1>1. CASE UadeSeek(target) /\ SeekSucceeds
    <2>. DEFINE n == BytesAt(target) \div 4
                x == target * Freq
    <2>0. x \in Nat
      BY <1>0, ProductInNat, FreqAssumption
    <2>1. n \in Nat /\ -1000 < 1000 * n - x /\ 1000 * n - x <= 0
      BY <1>0, UadeLands
    <2>2. dec' = Least(n, song.frames) /\ heard' = dec' /\ readpos' = x
      BY <1>1 DEF UadeSeek, SeekSucceeds
    <2>. HIDE DEF n, x
    <2>3. dec' < song.frames => heard' = n
      BY <2>1, <2>2, NumberFacts DEF Least
    <2>4. AheadInv'
      BY <1>0, <2>0, <2>1, <2>2, <2>3, NumberFacts DEF AheadInv, Handed
    <2>. QED
      BY <1>0, <2>4, MoreNumbers
      DEF PosInv, CountInv, ForwardInv, LimitInv, FreshInv
  <1>2. CASE UNCHANGED stateVars /\ SeekFails
    <2>1. Handed' = Handed
      BY <1>0, <1>2 DEF Handed, SeekFails, bufVars
    <2>. QED
      BY <1>0, <1>2, <2>1, QuietPos
      DEF SeekFails, infoVars, bufVars, callVars, stateVars
  <1>. QED
    BY <1>1, <1>2 DEF SeekUade

(* A seek that goes forward comes from before its target.                  *)
LEMMA SeekBackPos ==
  ASSUME IInv, PosInv, SeekBack
  PROVE  PosInv'
  <1>. USE DEF infoVars, bufVars, callVars, hostVars
  <1>0. /\ pc = "seek" /\ ~song.uade /\ seeks > 0 /\ target \in SeekTargets
        /\ target \in Nat /\ seeks' = seeks /\ song' = song
        /\ target' = target /\ heard' = heard /\ readpos' = readpos
        /\ pc' \in {"idle", "forward"}
    BY MoreNumbers
    DEF SeekBack, SeekFails, PosInv, ForwardInv, Restart, stateVars
  <1>1. Handed' = Handed
    BY <1>0 DEF Handed
  <1>2. CASE /\ target >= pos /\ pc' = "forward" /\ UNCHANGED stateVars
             /\ lost' = lost
    <2>1. total \in Int /\ pos = Millis(total)
      BY <1>0, MoreNumbers DEF PosInv, CountInv
    <2>2. /\ Millis(total) \in Int /\ Millis(total - 4 * BufFrames) \in Int
          /\ Millis(total - 4 * BufFrames) < Millis(total)
      <3>1. total - 4 * BufFrames \in Int
        BY <2>1, BufAssumption
      <3>. QED
        BY <2>1, <3>1, TimeGoesOn
    <2>3. Millis(total - 4 * BufFrames) < target
      BY <1>0, <1>2, <2>1, <2>2
    <2>. HIDE DEF Handed
    <2>. QED
      BY <1>0, <1>1, <1>2, <2>3
      DEF PosInv, CountInv, ForwardInv, AheadInv, LimitInv, FreshInv, Adrift,
        stateVars
  <1>3. CASE Restart /\ pc' = "forward" /\ lost' = lost
    <2>1. Millis(0) = 0
      BY PositionFacts DEF Millis
    <2>2. Millis(0 - 4 * BufFrames) \in Int
      BY BufAssumption, TimeGoesOn
    <2>3. Millis(0 - 4 * BufFrames) < target
      BY <1>0, <2>1, <2>2, TimeGoesOn
    <2>4. /\ dec' = 0 /\ total' = 0 /\ pos' = 0
          /\ Adrift => Adrift'
      BY <1>3 DEF Restart, Adrift
    <2>. HIDE DEF Handed
    <2>5. CountInv' /\ ForwardInv'
      BY <1>0, <1>3, <2>1, <2>3, <2>4 DEF CountInv, ForwardInv
    <2>6. AheadInv' /\ LimitInv' /\ FreshInv'
      BY <1>0, <1>1, <2>4, MoreNumbers
      DEF PosInv, AheadInv, LimitInv, FreshInv
    <2>. QED
      BY <2>5, <2>6 DEF PosInv
  <1>4. CASE SeekFails /\ UNCHANGED stateVars
    BY <1>0, <1>1, <1>4, QuietPos DEF SeekFails
  <1>. QED
    BY <1>2, <1>3, <1>4 DEF SeekBack

(* It ends at the first buffer that is not before it.                      *)
LEMMA SeekForwardPos ==
  ASSUME IInv, PosInv, SeekForward
  PROVE  PosInv'
  <1>. USE DEF infoVars, bufVars, callVars, hostVars
  <1>0. /\ pc = "forward" /\ ~song.uade /\ seeks > 0 /\ target \in SeekTargets
        /\ target \in Nat /\ seeks' = seeks /\ song' = song
        /\ target' = target /\ pc' \in {"idle", "forward"}
        /\ total = 4 * dec /\ pos = Millis(total)
        /\ Millis(total - 4 * BufFrames) < target
    BY MoreNumbers
    DEF SeekForward, SeekSucceeds, SeekFails, PosInv, ForwardInv, CountInv,
        Render, stateVars
  <1>1. CASE pos >= target /\ UNCHANGED stateVars /\ SeekSucceeds
    <2>. DEFINE x == target * Freq
    <2>1. 0 <= 1000 * dec - x /\ 1000 * dec - x < 1000 * BufFrames
      BY <1>0, <1>1, NumberFacts, OthersLand
    <2>2. heard' = dec /\ readpos' = x /\ pc' = "idle" /\ dec' = dec
          /\ total' = total /\ pos' = pos
      BY <1>1 DEF SeekSucceeds, stateVars
    <2>3. x \in Nat
      BY <1>0, ProductInNat, FreqAssumption
    <2>. HIDE DEF x
    <2>4. AheadInv'
      BY <1>0, <2>1, <2>2, <2>3, NumberFacts DEF AheadInv, Handed
    <2>. QED
      BY <1>0, <2>2, <2>4, MoreNumbers
      DEF PosInv, CountInv, ForwardInv, LimitInv, FreshInv
  <1>2. CASE /\ pos < target /\ Render /\ UNCHANGED <<readpos, heard>>
             /\ lost => lost'
    <2>1. Handed' = Handed
      BY <1>0, <1>2 DEF Handed
    <2>2. /\ song' = song /\ total' = total + 4 * Frames
          /\ Frames \in 0 .. BufFrames /\ dec' = dec + Frames
          /\ total' = 4 * dec' /\ pos' = Millis(total')
          /\ Adrift => Adrift'
      BY <1>0, <1>2, RenderCounts DEF PosInv, Adrift
    <2>3. Millis(total' - 4 * BufFrames) < target
      <3>1. /\ total \in Int /\ total' - 4 * BufFrames \in Int
            /\ total' - 4 * BufFrames <= total
        BY <2>2, MoreNumbers, BufAssumption
      <3>2. /\ Millis(total' - 4 * BufFrames) \in Int /\ Millis(total) \in Int
            /\ Millis(total' - 4 * BufFrames) <= Millis(total)
        BY <3>1, TimeGoesOn
      <3>. QED
        BY <1>0, <1>2, <3>2
    <2>. HIDE DEF Handed
    <2>4. CountInv' /\ ForwardInv'
      BY <1>0, <2>2, <2>3 DEF CountInv, ForwardInv
    <2>5. AheadInv' /\ LimitInv' /\ FreshInv'
      <3>1. dec' < song.frames => dec < song.frames
        BY <2>2, NumberFacts
      <3>. QED
        BY <1>0, <2>1, <2>2, <1>2, <3>1, MoreNumbers
        DEF PosInv, AheadInv, LimitInv, FreshInv
    <2>. QED
      BY <2>4, <2>5 DEF PosInv
  <1>. QED
    BY <1>1, <1>2 DEF SeekForward, SeekFails

(* Every step keeps what is heard where it is shown.                       *)
LEMMA PosInvStep == IInv /\ PosInv /\ [Next]_vars => PosInv'
  <1>. SUFFICES ASSUME IInv, PosInv, [Next]_vars PROVE PosInv'
    OBVIOUS
  <1>. USE DEF infoVars, bufVars, callVars, hostVars
  <1>1. CASE Open \/ InitFails \/ Free \/ ReadNothing \/ UNCHANGED vars
    <2>1. /\ UNCHANGED <<stateVars, known, heard>>
          /\ seeks' = seeks /\ target' = target /\ pc' = pc
          /\ readpos' = readpos /\ got' = got /\ size' = size
          /\ lost' = lost
      BY <1>1 DEF Open, InitFails, Free, ReadNothing, vars
    <2>2. Handed' = Handed
      BY <2>1 DEF Handed
    <2>. QED
      BY <2>1, <2>2, QuietPos
  <1>2. ASSUME NEW s \in Songs, NEW timeout \in KnownTimeouts,
               InitOk(s, timeout)
        PROVE  PosInv'
    <2>1. Millis(0) = 0
      BY PositionFacts DEF Millis
    <2>. QED
      BY <1>2, <2>1, BufAssumption DEF InitOk, PlaySong, PosInv, CountInv,
        ForwardInv, AheadInv, LimitInv, FreshInv, Handed
  <1>3. ASSUME NEW n \in ReadSizes, ReadBegin(n) PROVE PosInv'
    BY <1>3, ReadBeginPos
  <1>4. CASE ReadStep
    BY <1>4, ReadStepPos
  <1>5. CASE ReadReturn
    <2>1. Handed' = Handed
      BY <1>5 DEF ReadReturn, Handed
    <2>. QED
      BY <1>5, <2>1, QuietPos DEF ReadReturn
  <1>6. ASSUME NEW ms \in SeekTargets, SeekBegin(ms) PROVE PosInv'
    <2>1. Handed' = Handed
      BY <1>6 DEF SeekBegin, Handed
    <2>2. seeks' = seeks + 1 /\ seeks' > 0 /\ seeks' # 0
      BY <1>6, MoreNumbers DEF SeekBegin
    <2>3. /\ pc' = "seek" /\ target' = ms /\ heard' = heard
          /\ UNCHANGED stateVars /\ Adrift' = Adrift
      BY <1>6 DEF SeekBegin, Adrift, stateVars
    <2>4. Millis(total)' = Millis(total)
      BY <2>3 DEF Millis, BytesPerSec, stateVars
    <2>. HIDE DEF Handed
    <2>. QED
      BY <2>1, <2>2, <2>3, <2>4 DEF PosInv, CountInv, ForwardInv, AheadInv,
        LimitInv, FreshInv, stateVars
  <1>7. CASE SeekUade
    BY <1>7, SeekUadePos
  <1>8. CASE SeekBack
    BY <1>8, SeekBackPos
  <1>9. CASE SeekForward
    BY <1>9, SeekForwardPos
  <1>. QED
    BY <1>1, <1>2, <1>3, <1>4, <1>5, <1>6, <1>7, <1>8, <1>9 DEF Next, Call

LEMMA PosInvariance == Spec => []PosInv
  BY InitPosInv, PosInvStep, Invariance, PTL DEF Spec

(* What the host shows is what is heard, ahead by less than a frame, late  *)
(* by less than a buffer, for songs and seeks of every number and length,  *)
(* but for a seek that has failed on a decoder that has kept an end.       *)
THEOREM ReadposAlwaysTracks == Spec => []ReadposTracksHeard
  <1>1. PosInv => ReadposTracksHeard
    BY DEF PosInv, AheadInv, ReadposTracksHeard, Handed
  <1>. QED
    BY <1>1, PosInvariance, PTL
------------------------------------------------------------------------------
(* The playlist: uade_insert and the items it makes.                       *)

(* The first of some players is one of them.                               *)
LEMMA FirstIsOne ==
  ASSUME NEW S \in SUBSET Players, S # {}
  PROVE  FirstOf(S) \in S
  <1>. DEFINE at == {i \in DOMAIN PLAYERS : PLAYERS[i] \in S}
  <1>1. DOMAIN PLAYERS = 1 .. Len(PLAYERS) /\ Len(PLAYERS) \in Nat
    BY PlayersAreASequence
  <1>2. at \in SUBSET Nat /\ at # {}
    BY <1>1 DEF Players
  <1>. HIDE DEF at
  <1>3. PICK x \in at : \A y \in at : ~ (<<y, x>> \in OpToRel(<, Nat))
    BY <1>2, WFMin, NatLessThanWellFounded
  <1>4. \A j \in 1 .. x - 1 : PLAYERS[j] \notin S
    <2>. SUFFICES ASSUME NEW j \in 1 .. x - 1, PLAYERS[j] \in S PROVE FALSE
      OBVIOUS
    <2>1. x \in 1 .. Len(PLAYERS)
      BY <1>1 DEF at
    <2>2. j \in at /\ j \in Nat /\ x \in Nat /\ j < x
      BY <1>1, <2>1 DEF at
    <2>3. <<j, x>> \in OpToRel(<, Nat)
      BY <2>2 DEF OpToRel
    <2>. QED
      BY <1>3, <2>2, <2>3
  <1>5. \E i \in DOMAIN PLAYERS :
          PLAYERS[i] \in S /\ \A j \in 1 .. i - 1 : PLAYERS[j] \notin S
    BY <1>4 DEF at
  <1>. QED
    BY <1>5 DEF FirstOf

(* The player that is found for a file is one that can parse it.           *)
LEMMA FoundParses ==
  ASSUME NEW f \in ModuleFile, FirstThatParses(f) # "NONE"
  PROVE  FirstThatParses(f) \in Players /\ parse(f, FirstThatParses(f))
  <1>. DEFINE able == {p \in check(f) : parse(f, p)}
  <1>1. able \in SUBSET Players
    BY UadeIsBuilt DEF check, ModuleFile
  <1>2. able # {} /\ FirstThatParses(f) = FirstOf(able)
    BY DEF FirstThatParses
  <1>3. FirstOf(able) \in able
    BY <1>1, <1>2, FirstIsOne
  <1>. QED
    BY <1>1, <1>2, <1>3
------------------------------------------------------------------------------
(* An item as the plugin leaves it.                                        *)
ItemInv(it) ==
  /\ it.sub \in DOMAIN it.module.subs
  /\ it.songend = "none" => it.measured = 0 /\ it.duration = Unset
  /\ it.songend # "none" => it.measured <= 1
                        /\ it.duration = SubsongOf(it).length
  /\ it.player # "NONE" => parse(it.module.file, it.player)

Todo == [next : Nat, module : Modules, skip_broken : BOOLEAN,
         min_length : MinLengths]

TodoInv ==
  todo # NoTodo =>
    /\ todo \in Todo
    /\ todo.next \in DOMAIN todo.module.subs
    /\ FirstThatParses(todo.module.file) # "NONE"

ListInv ==
  /\ playlist \in Seq(PlaylistItem)
  /\ \A i \in DOMAIN playlist : ItemInv(playlist[i])
  /\ TodoInv

(* What is known of the subsongs of a file.                                *)
LEMMA SubsFacts ==
  ASSUME NEW m \in Modules, NEW k \in DOMAIN m.subs
  PROVE  /\ m.file \in ModuleFile /\ k \in Nat
         /\ m.subs[k].song \in Songs /\ m.subs[k].length \in Nat
         /\ KnownTimeout(m.subs[k].length) \subseteq KnownTimeouts
  <1>1. m \in Module
    BY ModulesAssumption
  <1>2. m.file \in ModuleFile /\ m.subs \in Seq(Subsong)
    BY <1>1 DEF Module
  <1>3. m.subs[k] \in Subsong /\ k \in Nat
    BY <1>2
  <1>. QED
    BY <1>2, <1>3, ModulesAssumption DEF Subsong

(* An item the host has kept is in order.                                  *)
LEMMA SavedItems ==
  ASSUME PInit
  PROVE  ListInv
  <1>1. playlist \in Seq(PlaylistItem)
    BY SavedAssumption DEF PInit
  <1>2. ASSUME NEW i \in DOMAIN playlist PROVE ItemInv(playlist[i])
    <2>1. PICK m \in Modules :
            \E s \in DOMAIN m.subs : playlist[i] = Item(m, s, "NONE")
      BY SavedAssumption DEF PInit
    <2>2. PICK s \in DOMAIN m.subs : playlist[i] = Item(m, s, "NONE")
      BY <2>1
    <2>. QED
      BY <2>2 DEF ItemInv, Item
  <1>. QED
    BY <1>1, <1>2 DEF ListInv, TodoInv, PInit

(* A songend changes no more of an item than it says, a count no more.     *)
LEMMA SongEndOnly ==
  ASSUME NEW it \in PlaylistItem, NEW ss, ss.length \in Nat,
         NEW mark \in {"yes", "dup"}
  PROVE  WithSongEnd(it, ss, mark) =
           [module |-> it.module, sub |-> it.sub, player |-> it.player,
            duration |-> ss.length, songend |-> mark,
            measured |-> it.measured]
  <1>. DEFINE marked == [it EXCEPT !.songend = mark]
  <1>1. marked = [module |-> it.module, sub |-> it.sub, player |-> it.player,
                  duration |-> it.duration, songend |-> mark,
                  measured |-> it.measured]
    BY DEF PlaylistItem
  <1>2. marked \in PlaylistItem
    BY <1>1 DEF PlaylistItem
  <1>. HIDE DEF marked
  <1>3. [marked EXCEPT !.duration = ss.length] =
          [module |-> marked.module, sub |-> marked.sub,
           player |-> marked.player, duration |-> ss.length,
           songend |-> marked.songend, measured |-> marked.measured]
    BY <1>2 DEF PlaylistItem
  <1>4. WithSongEnd(it, ss, mark) = [marked EXCEPT !.duration = ss.length]
    BY DEF WithSongEnd, marked
  <1>. QED
    BY <1>1, <1>3, <1>4

LEMMA CountOnly ==
  ASSUME NEW it \in PlaylistItem, NEW n \in Nat
  PROVE  [it EXCEPT !.measured = n] =
           [module |-> it.module, sub |-> it.sub, player |-> it.player,
            duration |-> it.duration, songend |-> it.songend, measured |-> n]
  BY DEF PlaylistItem

(* A new item is in order.                                                 *)
LEMMA NewItemsAreGood ==
  ASSUME TodoInv, todo # NoTodo,
         NEW it \in NewItems(todo.module.subs[todo.next])
  PROVE  it \in PlaylistItem /\ ItemInv(it)
  <1>. DEFINE m  == todo.module
              ss == m.subs[todo.next]
              p  == FirstThatParses(m.file)
              plain == Item(m, todo.next, p)
  <1>1. m \in Modules /\ todo.next \in DOMAIN m.subs /\ p # "NONE"
    BY DEF TodoInv, Todo
  <1>2. m.file \in ModuleFile /\ todo.next \in Nat /\ ss.length \in Nat
    BY <1>1, SubsFacts
  <1>3. p \in Players /\ parse(m.file, p)
    BY <1>1, <1>2, FoundParses
  <1>. HIDE DEF m, p, ss
  <1>4. plain \in PlaylistItem /\ ItemInv(plain)
    BY <1>1, <1>2, <1>3 DEF Item, PlaylistItem, ItemInv, Unset
  <1>5. ASSUME NEW mark \in {"yes", "dup"}, NEW n \in {0, 1},
               it = [module |-> m, sub |-> todo.next, player |-> p,
                     duration |-> ss.length, songend |-> mark, measured |-> n]
        PROVE  it \in PlaylistItem /\ ItemInv(it)
    <2>1. SubsongOf(it) = ss
      BY <1>5 DEF SubsongOf, ss
    <2>. QED
      BY <1>1, <1>2, <1>3, <1>5, <2>1 DEF PlaylistItem, ItemInv
  <1>6. ASSUME NEW mark \in {"yes", "dup"}
        PROVE  WithSongEnd(plain, ss, mark) =
                 [module |-> m, sub |-> todo.next, player |-> p,
                  duration |-> ss.length, songend |-> mark, measured |-> 0]
    <2>1. /\ plain.module = m /\ plain.sub = todo.next /\ plain.player = p
          /\ plain.measured = 0
      BY DEF Item
    <2>. HIDE DEF plain
    <2>. QED
      BY <1>2, <1>4, <2>1, SongEndOnly
  <1>7. \/ it = plain
        \/ it = [WithSongEnd(plain, ss, "yes") EXCEPT !.measured = 1]
        \/ \E mark \in {"yes", "dup"} : it = WithSongEnd(plain, ss, mark)
    BY DEF NewItems, m, ss, p
  <1>8. ASSUME NEW mark \in {"yes", "dup"}, it = WithSongEnd(plain, ss, mark)
        PROVE  it \in PlaylistItem /\ ItemInv(it)
    BY <1>5, <1>6, <1>8
  <1>9. CASE it = [WithSongEnd(plain, ss, "yes") EXCEPT !.measured = 1]
    <2>1. it = [module |-> m, sub |-> todo.next, player |-> p,
                duration |-> ss.length, songend |-> "yes", measured |-> 1]
      <3>. DEFINE with == WithSongEnd(plain, ss, "yes")
      <3>1. with = [module |-> m, sub |-> todo.next, player |-> p,
                    duration |-> ss.length, songend |-> "yes", measured |-> 0]
        BY <1>6
      <3>2. with \in PlaylistItem
        BY <1>1, <1>2, <1>3, <3>1 DEF PlaylistItem
      <3>. HIDE DEF with
      <3>3. it = [module |-> with.module, sub |-> with.sub,
                  player |-> with.player, duration |-> with.duration,
                  songend |-> with.songend, measured |-> 1]
        BY <1>9, <3>2, CountOnly DEF with
      <3>. QED
        BY <3>1, <3>3
    <2>. QED
      BY <1>5, <2>1
  <1>. QED
    BY <1>4, <1>7, <1>8, <1>9

(* A precalculation leaves a playlist in order.                            *)
LEMMA MeasuredIsGood ==
  ASSUME ListInv, NEW i \in DOMAIN playlist, MeasureItem(i)
  PROVE  /\ playlist' \in Seq(PlaylistItem)
         /\ \A j \in DOMAIN playlist' : ItemInv(playlist'[j])
  <1>. DEFINE it == playlist[i]
              new == Measured(it)
  <1>1. CASE UNCHANGED playlist
    BY <1>1 DEF ListInv
  <1>2. CASE Lacking(it) /\ playlist' = [playlist EXCEPT ![i] = new]
    <2>1. it \in PlaylistItem /\ ItemInv(it) /\ it.songend = "none"
      BY <1>2 DEF ListInv, Lacking
    <2>2. /\ it.module \in Modules /\ it.sub \in DOMAIN it.module.subs
          /\ it.measured = 0
      BY <2>1 DEF PlaylistItem, ItemInv
    <2>3. SubsongOf(it).length \in Nat
      BY <2>2, SubsFacts DEF SubsongOf
    <2>. HIDE DEF it
    <2>4. new = [module |-> it.module, sub |-> it.sub, player |-> it.player,
                 duration |-> SubsongOf(it).length, songend |-> "yes",
                 measured |-> 1]
      <3>1. WithSongEnd(it, SubsongOf(it), "yes")
              = [module |-> it.module, sub |-> it.sub, player |-> it.player,
                 duration |-> SubsongOf(it).length, songend |-> "yes",
                 measured |-> 0]
        BY <2>1, <2>2, <2>3, SongEndOnly
      <3>. DEFINE with == WithSongEnd(it, SubsongOf(it), "yes")
      <3>2. with \in PlaylistItem /\ with.measured + 1 = 1
        BY <2>1, <2>3, <3>1 DEF PlaylistItem
      <3>. HIDE DEF with
      <3>3. new = [module |-> with.module, sub |-> with.sub,
                   player |-> with.player, duration |-> with.duration,
                   songend |-> with.songend, measured |-> 1]
        BY <3>2, CountOnly DEF Measured, with
      <3>. QED
        BY <3>1, <3>3 DEF with
    <2>5. SubsongOf(new) = SubsongOf(it)
      BY <2>4 DEF SubsongOf
    <2>6. new \in PlaylistItem
      BY <2>1, <2>3, <2>4 DEF PlaylistItem
    <2>7. ItemInv(new)
      BY <2>1, <2>4, <2>5 DEF ItemInv
    <2>. HIDE DEF new
    <2>. QED
      BY <1>2, <2>6, <2>7 DEF ListInv
  <1>. QED
    BY <1>1, <1>2 DEF MeasureItem

(* The playlist stays in order.                                            *)
LEMMA ListStep == ListInv /\ [PNext]_allVars => ListInv'
  <1>. SUFFICES ASSUME ListInv, [PNext]_allVars PROVE ListInv'
    OBVIOUS
  <1>1. ASSUME NEW m \in Modules, InsertBegin(m) PROVE ListInv'
    <2>1. m.subs \in Seq(Subsong) /\ m.subs # <<>>
      BY ModulesAssumption DEF Module
    <2>2. 1 \in DOMAIN m.subs
      BY <2>1
    <2>3. TodoInv'
      BY <1>1, <2>2 DEF InsertBegin, TodoInv, Todo
    <2>. QED
      BY <1>1, <2>3 DEF InsertBegin, ListInv
  <1>2. CASE InsertSubsong
    <2>. DEFINE ss == todo.module.subs[todo.next]
    <2>1. todo # NoTodo /\ todo \in Todo /\ TodoInv
      BY <1>2 DEF InsertSubsong, ListInv, TodoInv
    <2>2. TodoInv'
      <3>1. todo.module.subs \in Seq(Subsong) /\ todo.next \in Nat
        BY <2>1, ModulesAssumption DEF Todo, Module
      <3>2. CASE todo.next < Len(todo.module.subs)
        <4>1. todo' = [todo EXCEPT !.next = todo.next + 1]
          BY <1>2, <3>2 DEF InsertSubsong
        <4>2. /\ todo'.next = todo.next + 1 /\ todo'.module = todo.module
              /\ todo' \in Todo
          BY <2>1, <3>1, <4>1 DEF Todo
        <4>3. todo.next + 1 \in DOMAIN todo.module.subs
          BY <3>1, <3>2
        <4>. QED
          BY <2>1, <4>2, <4>3 DEF TodoInv
      <3>3. CASE ~(todo.next < Len(todo.module.subs))
        BY <1>2, <3>3 DEF InsertSubsong, TodoInv
      <3>. QED
        BY <3>2, <3>3
    <2>3. CASE UNCHANGED playlist
      BY <2>2, <2>3 DEF ListInv
    <2>4. ASSUME NEW it \in NewItems(ss), playlist' = Append(playlist, it)
          PROVE  ListInv'
      <3>1. it \in PlaylistItem /\ ItemInv(it)
        BY <2>1, NewItemsAreGood
      <3>2. playlist \in Seq(PlaylistItem)
        BY DEF ListInv
      <3>3. playlist' \in Seq(PlaylistItem)
        BY <2>4, <3>1, <3>2
      <3>4. ASSUME NEW j \in DOMAIN playlist' PROVE ItemInv(playlist'[j])
        <4>1. CASE j \in DOMAIN playlist
          BY <2>4, <3>2, <4>1 DEF ListInv
        <4>2. CASE j \notin DOMAIN playlist
          <5>1. playlist'[j] = it
            BY <2>4, <3>2, <4>2
          <5>. QED
            BY <3>1, <5>1
        <4>. QED
          BY <4>1, <4>2
      <3>. QED
        BY <2>2, <3>3, <3>4 DEF ListInv
    <2>. QED
      BY <1>2, <2>3, <2>4 DEF InsertSubsong
  <1>3. ASSUME NEW i \in DOMAIN playlist, InitItem(i) PROVE ListInv'
    BY <1>3, MeasuredIsGood DEF InitItem, ListInv, TodoInv
  <1>4. ASSUME NEW i \in DOMAIN playlist, InitItemFails(i) PROVE ListInv'
    <2>1. CASE UNCHANGED playlist
      BY <1>4, <2>1 DEF InitItemFails, ListInv, TodoInv
    <2>2. CASE MeasureItem(i)
      BY <1>4, <2>2, MeasuredIsGood DEF InitItemFails, ListInv, TodoInv
    <2>. QED
      BY <1>4, <2>1, <2>2 DEF InitItemFails
  <1>5. CASE UNCHANGED listVars
    BY <1>5 DEF listVars, ListInv, TodoInv
  <1>. QED
    BY <1>1, <1>2, <1>3, <1>4, <1>5 DEF PNext, allVars

LEMMA ListInvariance == PSpec => []ListInv
  BY SavedItems, ListStep, PTL DEF PSpec

(* Whatever is inserted, measured and played in whichever order, an item   *)
(* of the playlist tells what its file is, and is measured once at most.   *)
THEOREM ItemsAlwaysTellTheFile == PSpec => []ItemsTellTheFile
  <1>1. ListInv => ItemsTellTheFile
    <2>. SUFFICES ASSUME ListInv, NEW i \in DOMAIN playlist
                  PROVE  LET it == playlist[i] IN
                         /\ it.measured <= 1
                         /\ it.songend # "none" =>
                              it.duration = SubsongOf(it).length
                         /\ it.songend = "none" => it.duration = Unset
                         /\ it.player # "NONE" =>
                              parse(it.module.file, it.player)
      BY DEF ItemsTellTheFile
    <2>1. ItemInv(playlist[i])
      BY DEF ListInv
    <2>. QED
      BY <2>1 DEF ItemInv
  <1>. QED
    BY <1>1, ListInvariance, PTL
------------------------------------------------------------------------------
(* Starting on an item starts a stream of a song and with a timeout that   *)
(* streams have.                                                           *)
LEMMA ItemStarts ==
  ASSUME ListInv, NEW i \in DOMAIN playlist, InitItem(i)
  PROVE  Next
  <1>. DEFINE it == playlist[i]
              s  == SubsongOf(it).song
  <1>1. it \in PlaylistItem /\ ItemInv(it)
    BY DEF ListInv
  <1>2. it.module \in Modules /\ it.sub \in DOMAIN it.module.subs
    BY <1>1 DEF PlaylistItem, ItemInv
  <1>3. /\ s \in Songs
        /\ KnownTimeout(SubsongOf(it).length) \subseteq KnownTimeouts
    BY <1>2, SubsFacts DEF SubsongOf
  <1>4. it.duration = Unset \/ it.duration = SubsongOf(it).length
    BY <1>1 DEF ItemInv
  <1>5. KnownTimeout(Unset) = {Unset}
    BY DEF KnownTimeout, Unset
  <1>6. KnownTimeout(it.duration) \subseteq KnownTimeouts
    BY <1>3, <1>4, <1>5, ModulesAssumption
  <1>7. PICK timeout \in KnownTimeout(it.duration) : InitOk(s, timeout)
    BY DEF InitItem
  <1>. QED
    BY <1>3, <1>6, <1>7, Zenon DEF Next

(* What the plugin plays from its playlist are streams: all that is proved *)
(* of a stream holds of it, for each that the host opens.                  *)
THEOREM PlaylistPlaysStreams == PSpec => Spec
  <1>1. PInit => Init
    BY DEF PInit
  <1>2. ListInv /\ [PNext]_allVars => [Next]_vars
    <2>. SUFFICES ASSUME ListInv, [PNext]_allVars PROVE [Next]_vars
      OBVIOUS
    <2>1. CASE \E m \in Modules : InsertBegin(m)
      BY <2>1 DEF InsertBegin
    <2>2. CASE InsertSubsong
      BY <2>2 DEF InsertSubsong
    <2>3. ASSUME NEW i \in DOMAIN playlist, InitItem(i) PROVE Next
      BY <2>3, ItemStarts
    <2>4. ASSUME NEW i \in DOMAIN playlist, InitItemFails(i) PROVE Next
      BY <2>4, Zenon DEF InitItemFails, Next
    <2>5. CASE Stream
      BY <2>5, Zenon DEF Stream, Next
    <2>6. CASE UNCHANGED allVars
      BY <2>6 DEF allVars
    <2>. QED
      BY <2>1, <2>2, <2>3, <2>4, <2>5, <2>6, Zenon DEF PNext
  <1>. QED
    BY <1>1, <1>2, ListInvariance, PTL DEF PSpec, Spec

(* So no stream that the plugin plays from its playlist skips or repeats a *)
(* frame, with the exception of StreamHasNoGap.                            *)
THEOREM PlaylistHasNoGap == PSpec => []NoGap
  BY PlaylistPlaysStreams, StreamHasNoGap, PTL

(* ... or ends before the end, but for one whose decoder a seek has        *)
(* restarted with an end it had kept (as EofIsAtTheEnd has it).            *)
THEOREM PlaylistEndsAtTheEnd == PSpec => []EofIsTheEnd
  BY PlaylistPlaysStreams, EofIsAtTheEnd, PTL
------------------------------------------------------------------------------
(* How long a song of the playlist is played.                              *)

(* A stream is started with the duration its item had.                     *)
AskedInv ==
  asked \in Int /\ (life = "ready" => known \in KnownTimeout(asked))

LEMMA AskedInit == PInit => AskedInv
  BY DEF PInit, Init, AskedInv, Unset

LEMMA AskedStep == ListInv /\ AskedInv /\ [PNext]_allVars => AskedInv'
  <1>. SUFFICES ASSUME ListInv, AskedInv, [PNext]_allVars PROVE AskedInv'
    OBVIOUS
  <1>. USE DEF infoVars, bufVars, callVars, hostVars
  <1>1. ASSUME asked' = asked, known' = known,
               life' = "ready" => life = "ready"
        PROVE  AskedInv'
    BY <1>1 DEF AskedInv, KnownTimeout
  <1>2. CASE \/ \E m \in Modules : InsertBegin(m)
             \/ InsertSubsong \/ UNCHANGED allVars
    BY <1>1, <1>2 DEF InsertBegin, InsertSubsong, allVars, listVars, vars
  <1>3. ASSUME NEW i \in DOMAIN playlist, InitItem(i) PROVE AskedInv'
    <2>1. playlist[i] \in PlaylistItem
      BY DEF ListInv
    <2>2. asked' = playlist[i].duration /\ asked' \in Int
      BY <1>3, <2>1 DEF InitItem, PlaylistItem
    <2>3. PICK timeout \in KnownTimeout(playlist[i].duration) :
            InitOk(SubsongOf(playlist[i]).song, timeout)
      BY <1>3 DEF InitItem
    <2>4. known' \in KnownTimeout(asked')
      BY <2>2, <2>3 DEF InitOk
    <2>5. KnownTimeout(asked)' = KnownTimeout(asked')
      BY DEF KnownTimeout
    <2>. QED
      BY <2>2, <2>4, <2>5 DEF AskedInv
  <1>4. ASSUME NEW i \in DOMAIN playlist, InitItemFails(i) PROVE AskedInv'
    BY <1>1, <1>4 DEF InitItemFails, InitFails
  <1>5. CASE Stream /\ UNCHANGED listVars
    <2>1. asked' = asked
      BY <1>5 DEF listVars
    <2>2. known' = known /\ (life' = "ready" => life = "ready")
      <3>1. CASE Open \/ Free \/ ReadNothing
        BY <3>1 DEF Open, Free, ReadNothing
      <3>2. CASE (\E n \in ReadSizes : ReadBegin(n))
                 \/ \E ms \in SeekTargets : SeekBegin(ms)
        BY <3>2 DEF ReadBegin, SeekBegin
      <3>3. CASE ReadStep \/ ReadReturn
        BY <3>3 DEF ReadStep, ReadReturn
      <3>4. CASE SeekUade \/ SeekBack \/ SeekForward
        BY <3>4 DEF SeekUade, SeekBack, SeekForward, SeekSucceeds, SeekFails
      <3>. QED
        BY <1>5, <3>1, <3>2, <3>3, <3>4 DEF Stream, Call
    <2>. QED
      BY <1>1, <2>1, <2>2
  <1>. QED
    BY <1>2, <1>3, <1>4, <1>5 DEF PNext

LEMMA AskedInvariance == PSpec => []AskedInv
  BY AskedInit, AskedStep, ListInvariance, PTL DEF PSpec

(* The limit is the length that is shown, to the ms, or the longest that a *)
(* song is played.                                                         *)
LEMMA LimitIsShown ==
  ASSUME NEW a \in Int, NEW k \in KnownTimeout(a), k # 0
  PROVE  LET shown == IF a > 0 THEN a ELSE 1000 * PrecalcTimeout IN
         /\ shown \in Nat /\ MaxBytes(k) \in Nat
         /\ 1000 * MaxBytes(k) <= 4 * (shown * Freq)
         /\ 4 * (shown * Freq) < 1000 * MaxBytes(k) + 4 * Freq + 1000
  <1>1. k \in Int /\ MaxBytes(k) \in Nat
    BY LimitIsNat DEF KnownTimeout
  <1>2. CASE a > 0
    <2>1. k \in Nat /\ (k = a \/ k = a - 1) /\ k > 0
      BY <1>2 DEF KnownTimeout
    <2>. DEFINE x == k * Freq
    <2>2. x \in Nat /\ (a * Freq = x \/ a * Freq = x + Freq)
      <3>1. (k + 1) * Freq = k * Freq + Freq
        BY <2>1, FreqAssumption
      <3>2. a = k \/ a = k + 1
        BY <2>1
      <3>. QED
        BY <2>1, <3>1, <3>2, ProductInNat, FreqAssumption
    <2>3. MaxBytes(k) = (4 * x) \div 1000
      <3>1. k * BytesPerSec = 4 * (k * Freq)
        BY <2>1, FreqAssumption DEF BytesPerSec
      <3>. QED
        BY <2>1, <3>1 DEF MaxBytes, BytesAt
    <2>. HIDE DEF x
    <2>4. 1000 * MaxBytes(k) <= 4 * x /\ 4 * x < 1000 * MaxBytes(k) + 1000
      BY <2>2, <2>3
    <2>. QED
      BY <1>1, <1>2, <2>2, <2>4, FreqAssumption
  <1>3. CASE ~(a > 0)
    <2>1. ~(k > 0)
      BY <1>3 DEF KnownTimeout
    <2>2. MaxBytes(k) = PrecalcTimeout * (4 * Freq)
      BY <2>1 DEF MaxBytes, BytesPerSec
    <2>3. 1000 * (PrecalcTimeout * (4 * Freq))
            = 4 * ((1000 * PrecalcTimeout) * Freq)
      BY FreqAssumption, LimitAssumption
    <2>4. 1000 * PrecalcTimeout \in Nat
      BY LimitAssumption
    <2>. QED
      BY <1>1, <1>3, <2>2, <2>3, <2>4, FreqAssumption
  <1>. QED
    BY <1>2, <1>3

(* Whatever length an item of the playlist has, its song is played to that *)
(* length or to its end, and none for longer than the limit.               *)
THEOREM AllArePlayedToTheirLength == PSpec => []PlayedToItsLength
  <1>1. IInv /\ PosInv /\ AskedInv => PlayedToItsLength
    <2>. DEFINE shown == IF asked > 0 THEN asked ELSE 1000 * PrecalcTimeout
                y == shown * Freq
    <2>. SUFFICES ASSUME IInv, PosInv, AskedInv, life = "ready", pc = "idle",
                         seeks = 0, eof, ~lost, known # 0
                  PROVE  /\ readpos < y + 1000 * BufFrames
                         /\ \/ readpos + 1000 * BufFrames >= 1000 * song.frames
                            \/ readpos + 1 * Freq + 1000 > y
      BY DEF PlayedToItsLength
    <2>1. asked \in Int /\ known \in KnownTimeout(asked)
      BY DEF AskedInv
    <2>2. /\ shown \in Nat /\ MaxBytes(known) \in Nat
          /\ 1000 * MaxBytes(known) <= 4 * y
          /\ 4 * y < 1000 * MaxBytes(known) + 4 * Freq + 1000
      BY <2>1, LimitIsShown
    <2>3. y \in Nat
      BY <2>2, ProductInNat, FreqAssumption
    <2>. HIDE DEF y, shown
    <2>0. ~stale
      BY MoreNumbers DEF PosInv, FreshInv
    <2>4. 1000 * heard = readpos
      BY NumberFacts DEF PosInv, AheadInv, Handed
    <2>5. total = 4 * dec
      BY DEF PosInv, CountInv
    <2>6. heard <= dec
      BY <2>0, IInvParts, NumberFacts DEF NextInv, Adrift
    <2>7. dec = 0 \/ 4 * dec < MaxBytes(known) + 4 * BufFrames
      BY <2>5 DEF PosInv, LimitInv
    <2>8. readpos < y + 1000 * BufFrames
      BY <2>2, <2>3, <2>4, <2>6, <2>7, NumberFacts
    <2>9. \/ dec = song.frames /\ dec - heard <= BufFrames
          \/ heard = dec /\ 4 * dec >= MaxBytes(known)
      BY <2>0, <2>5, IInvParts DEF EofIsTheEnd
    <2>10. CASE dec = song.frames /\ dec - heard <= BufFrames
      BY <2>4, <2>8, <2>10, NumberFacts
    <2>11. CASE heard = dec /\ 4 * dec >= MaxBytes(known)
      <3>1. 4 * readpos >= 1000 * MaxBytes(known)
        BY <2>2, <2>4, <2>11, NumberFacts
      <3>2. readpos + 1 * Freq + 1000 > y
        BY <2>2, <2>3, <3>1, NumberFacts, FreqAssumption
      <3>. QED
        BY <2>8, <3>2
    <2>. QED
      BY <2>9, <2>10, <2>11
  <1>2. PSpec => []IInv /\ []PosInv
    BY PlaylistPlaysStreams, Invariance, PosInvariance, PTL
  <1>. QED
    BY <1>1, <1>2, AskedInvariance, PTL

(* ... and the time shown for it is that of what is heard, with the        *)
(* exception of ReadposAlwaysTracks.                                       *)
THEOREM PlaylistShowsTheTime == PSpec => []ReadposTracksHeard
  BY PlaylistPlaysStreams, ReadposAlwaysTracks, PTL
==============================================================================
