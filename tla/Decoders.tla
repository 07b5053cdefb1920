------------------------------ MODULE Decoders -------------------------------
(***************************************************************************)
(* The decoders behind player::PlayerState: parse, play, render and        *)
(* restart of uade, hivelytracker, libdigibooster3, libopenmpt, libxmp,    *)
(* protrekkr1, protrekkr2, v2redux, st23play and noisetrekker2.            *)
(*                                                                         *)
(* The libraries they call are external: a tune says when its library      *)
(* ends, repeats or jumps, and how.  What a player makes of that, buffer   *)
(* by buffer, is modelled; the audio, settings and names are left out.     *)
(***************************************************************************)
EXTENDS PlaybackLoop, Sequences

CONSTANTS
  Files,            \* what may be played
  TickRate,         \* buffers a second, 50
  SubsongTimeout    \* uade_config.subsong_timeout, in s

ASSUME BufferAssumption ==
  /\ {TickRate, SubsongTimeout} \subseteq Nat \ {0}
  /\ BufFrames = (Freq \div TickRate)
                   + (IF Freq % TickRate # 0 THEN 1 ELSE 0)

(* What a tune says of the library that plays it, by its player.  (jump:   *)
(* with which tick of an order; 0 is none.)                                *)
Order == [ticks : Nat \ {0}, jump : Nat]

Tunes ==
  [player : {"uade"}, frames : Nat, audible : Nat, happy : BOOLEAN,
   drained : BOOLEAN]
  \cup [player : {"hivelytracker"}, ticks : Nat \ {0}]
  \cup [player : {"libdigibooster3"}, frames : Nat \ {0}, stops : BOOLEAN]
  \cup [player : {"libopenmpt"}, frames : Nat]
  \cup [player : {"libxmp"}, duration : Nat, frames : Nat]
  \cup [player : {"protrekkr1", "protrekkr2"}, length : Nat]
  \cup [player : {"v2redux"}, frames : Nat]
  \cup [player : {"st23play"}, spt : Nat \ {0}, frames : Nat,
        orders : Seq(Order)]
  \cup [player : {"noisetrekker2"}, samples : Nat \ {0}, frames : Nat,
        lines : Seq(Nat \ {0})]

ASSUME FilesAssumption ==
  \A f \in Files :
    /\ f.tunes \in Seq(Tunes) /\ f.tunes # <<>>
    /\ \A i \in DOMAIN f.tunes : f.tunes[i].player = f.player

VARIABLES
  tune,    \* the subsong of a file that plays
  at       \* state.context: where its decoder is

MixBufSize     == 4 * BufFrames
CeilDiv(a, b)  == (a + b - 1) \div b
------------------------------------------------------------------------------
(* A file that loads has a player and its subsongs, first to last.  parse  *)
(* announces a range of subsongs; play yields a decoder at its start.      *)

IfLoads(f, made) == IF f.loads THEN made ELSE {}
Announced(lo, hi) == {[min |-> lo, max |-> hi]}
Last(f) == Len(f.tunes) - 1
Decoder(t, start) == {[tune |-> t, at |-> start]}

(* The assertions that play begins with.                                   *)
OneSong == {"protrekkr1", "protrekkr2", "v2redux", "st23play",
            "noisetrekker2"}

MayPlay(f, s) ==
  CASE f.player = "uade" -> s \in 0 .. 255
    [] f.player \in OneSong -> s = 1
    [] f.player \in {"hivelytracker", "libdigibooster3"} -> s \in 0 .. Last(f)
    [] OTHER -> s >= 0
------------------------------------------------------------------------------
(* uade.  A tune may fall silent, after so many frames, and may not end.   *)

(* Mutant of UadeTimeout: the known length is not rounded up.              *)
UadeTimeoutDown(default) == IF known > 0 THEN known \div 1000 ELSE default

(* create_uade_state: uade's own timeouts, in s *)
UadeTimeout(default) == IF known > 0 THEN (known \div 1000) + 1 ELSE default

UadeFrames(t) ==
  LET over  == Least(t.frames, Freq * UadeTimeout(SubsongTimeout))
      quiet == t.audible + Freq * UadeTimeout(SilenceTimeout)
  IN  Least(over, quiet)

(* What libuade says of the subsongs, kept within 0 and 255. *)
UadeParse(f) ==
  IfLoads(f, Announced(IF f.first < 0 THEN 0 ELSE f.first,
                       Least(255, f.first + Last(f))))

UadePlay(f, s) ==
  IfLoads(f, UNION {Decoder(f.tunes[i + 1], 0) :
                      i \in {s - f.first} \cap (0 .. Last(f))})

(* the notification of the song's end, by what libuade gives as the reason *)
UadeStatus(t) ==
  IF UadeFrames(t) = t.frames THEN IF t.happy THEN "PLAYER" ELSE "ERROR"
  ELSE IF UadeFrames(t) = Freq * UadeTimeout(SubsongTimeout) THEN "TIMEOUT"
  ELSE "DETECT_SILENCE"

(* The notification comes with the last frames, or after them. *)
UadeRender(t, n) ==
  LET m == Least(BufFrames, UadeFrames(t) - n) IN
  [at |-> n + m, bytes |-> 4 * m,
   ended |-> n + m = UadeFrames(t) /\ (t.drained => m = 0)]
------------------------------------------------------------------------------
(* hivelytracker: as many ticks as fit *)
FrameLen == (4 * Freq) \div TickRate

HivelyParse(f) == IfLoads(f, Announced(0, Last(f)))

HivelyPlay(f, s) == IfLoads(f, Decoder(f.tunes[s + 1], 0))

HivelyRestart == 0   \* hvl_InitSubsong

HivelyRender(t, n) ==
  LET m == Least(n + (MixBufSize \div FrameLen), t.ticks) IN
  [at |-> m, bytes |-> (m - n) * FrameLen, ended |-> m = t.ticks]

Db3Parse(f) == IfLoads(f, Announced(0, Last(f)))

Db3Context == [mixed |-> 0, songend |-> FALSE]

Db3Play(f, s) == IfLoads(f, Decoder(f.tunes[s + 1], Db3Context))

(* Mutant of Db3Render: the callback is not asked for. *)
Db3RenderDeaf(t, r) ==
  LET past == r.mixed + BufFrames > t.frames
      n == IF past /\ t.stops THEN t.frames - r.mixed ELSE BufFrames
  IN  [at |-> [r EXCEPT !.mixed = @ + n], bytes |-> 4 * n,
       ended |-> n < BufFrames]

(* libdigibooster3: past the end it calls back, and the song starts over,  *)
(* or, if an effect has stopped it, yields no more frames.                 *)
Db3Render(t, r) ==
  LET past == r.mixed + BufFrames > t.frames
      n == IF past /\ t.stops THEN t.frames - r.mixed ELSE BufFrames
  IN  [at    |-> [mixed |-> r.mixed + n, songend |-> r.songend \/ past],
       bytes |-> 4 * n,
       ended |-> r.songend \/ past \/ n < BufFrames]

(* The replayer starts over, but what the callback has said stays.         *)
Db3Restart(r) == [Db3Context EXCEPT !.songend = r.songend]

OpenmptParse(f) == IfLoads(f, Announced(0, Last(f)))

(* Playlists of older versions ask for subsongs that there are not. *)
OpenmptPlay(f, s) == IfLoads(f, Decoder(f.tunes[Least(s, Last(f)) + 1], 0))

(* libopenmpt: an empty buffer is the end *)
OpenmptRender(t, n) ==
  LET m == Least(BufFrames, t.frames - n) IN
  [at |-> n + m, bytes |-> 4 * m, ended |-> m = 0]

OpenmptRestart == 0   \* set_position_seconds

XmpParse(f) == IfLoads(f, Announced(0, Last(f)))

XmpPlay(f, s) ==
  IF s > Last(f) THEN {} ELSE IfLoads(f, Decoder(f.tunes[s + 1], 0))

XmpRestart == 0   \* xmp_restart_module

(* seq_data[subsong].duration in bytes, rounded up to whole frames *)
XmpBytes(t) == 4 * CeilDiv((t.duration * BytesPerSec) \div 1000, 4)

(* Mutant of XmpRender: a buffer that the song just fills is not its last. *)
XmpRenderOver(t, n) ==
  LET left   == XmpBytes(t) - total
      render == Least(left, MixBufSize)
  IN  [at |-> n + (render \div 4), bytes |-> render,
       ended |-> left < MixBufSize \/ n >= t.frames]

(* libxmp: by its duration, or when libxmp has nothing more to play *)
XmpRender(t, n) ==
  LET left   == XmpBytes(t) - total
      render == Least(left, MixBufSize)
  IN  [at |-> n + (render \div 4), bytes |-> render,
       ended |-> left <= MixBufSize \/ n >= t.frames]

Ptk1Parse(f) == IfLoads(f, Announced(1, 1))
Ptk2Parse(f) == IfLoads(f, Announced(1, 1))

Ptk1Play(f) == IfLoads(f, Decoder(f.tunes[1], 0))
Ptk2Play(f) == IfLoads(f, Decoder(f.tunes[1], 0))

Ptk1Restart == 0   \* Init_Tracker_Context_After_ModLoad, Ptk_Play
Ptk2Restart == 0

(* protrekkr1 and protrekkr2: by the song's length in ms *)
PtkRender(t, n) ==
  [at |-> n + BufFrames, bytes |-> MixBufSize,
   ended |-> pos + Millis(MixBufSize) >= t.length]

V2Parse(f) == IfLoads(f, Announced(1, 1))
V2Play(f)  == IfLoads(f, Decoder(f.tunes[1], 0))
V2Restart  == 0   \* play(0)

(* v2redux: when the sequencer has stopped *)
V2Render(t, n) ==
  [at |-> n + BufFrames, bytes |-> MixBufSize,
   ended |-> n + BufFrames >= t.frames]
------------------------------------------------------------------------------
(* st23play: orders of so many ticks, one of which may set vpnt (a position*)
(* jump).  An order that is over makes way for the one after vpnt.         *)

JumpTo      == 2   \* spec1 sets vpnt to the number of its effect
DefaultTick == 1   \* the frames of a tick at the tempo reset sets, 96

NextPat(t, r) ==
  LET v == IF r.vpnt + 1 >= Len(t.orders) THEN 0 ELSE r.vpnt + 1 IN
  [r EXCEPT !.vpnt = v, !.order = v, !.tick = 0, !.restarted = @ \/ v = 0]

St23Load(spt) ==
  [vpnt |-> 0, order |-> 0, tick |-> 0, left |-> 0, spt |-> spt,
   restarted |-> FALSE, seen |-> {}]

St23Parse(f) == IfLoads(f, Announced(1, 1))
St23Play(f)  == IfLoads(f, Decoder(f.tunes[1], St23Load(f.tunes[1].spt)))

(* The rest of the tick is played, and the module's tempo is forgotten.    *)
St23Restart(r) == [St23Load(DefaultTick) EXCEPT !.left = r.left]

St23Tick(t, r) ==
  LET q == IF r.tick = t.orders[r.order + 1].ticks THEN NextPat(t, r) ELSE r
  IN  [q EXCEPT !.tick = @ + 1, !.left = r.spt,
                !.vpnt = IF q.tick + 1 = t.orders[q.order + 1].jump
                         THEN JumpTo ELSE @]

FillAudioBuffer(t, r) ==
  LET fill[n \in 0 .. BufFrames] ==
        IF n = 0 THEN r
        ELSE LET q == IF fill[n - 1].left = 0 THEN St23Tick(t, fill[n - 1])
                                              ELSE fill[n - 1]
             IN  [q EXCEPT !.left = @ - 1]
  IN  fill[BufFrames]

(* st23play's render: an order that was seen before is the end *)
St23Render(t, r) ==
  LET seen == IF r.seen = {} THEN {r.vpnt} ELSE r.seen
      q    == FillAudioBuffer(t, r)
  IN  [at    |-> [q EXCEPT !.seen = seen \cup {q.vpnt}],
       bytes |-> MixBufSize,
       ended |-> q.restarted \/ (q.vpnt # r.vpnt /\ q.vpnt \in seen)]
------------------------------------------------------------------------------
(* noisetrekker2: positions of so many lines, each of tune.samples frames  *)

NtkParse(f) == IfLoads(f, Announced(1, 1))
NtkPlay(f)  == IfLoads(f, Decoder(f.tunes[1], 0))
NtkRestart  == 0   \* reset, SongPlay

LinesUpTo(t) ==
  LET sum[k \in 0 .. Len(t.lines)] ==
        IF k = 0 THEN 0 ELSE sum[k - 1] + t.lines[k]
  IN  sum

AllLines(t) == LinesUpTo(t)[Len(t.lines)]

(* cPosition and ped_line after n frames *)
Line(t, n) == (n \div t.samples) % AllLines(t)

PedLine(t, n) ==
  LET p == CHOOSE k \in 0 .. Len(t.lines) - 1 :
             Line(t, n) \in LinesUpTo(t)[k] .. LinesUpTo(t)[k + 1] - 1
  IN  Line(t, n) - LinesUpTo(t)[p]

(* Back at the top, from another line met in this buffer. *)
BackAtTop(t, n, m) ==
  Line(t, m) = 0 /\ \E k \in n + 1 .. m : PedLine(t, k) # 0

(* All of a buffer is filled but its last frame, unless the song is back   *)
(* at the top before; the buffer counts in full.                           *)
NtkRender(t, n) ==
  LET backs == {m \in n + 1 .. n + BufFrames - 1 : BackAtTop(t, n, m)} IN
  [at    |-> IF backs = {} THEN n + BufFrames - 1
             ELSE CHOOSE m \in backs : \A k \in backs : m <= k,
   bytes |-> MixBufSize,
   ended |-> backs # {}]
------------------------------------------------------------------------------
(* The calls of player.cc *)
Parse(f) ==
  CASE f.player = "uade" -> UadeParse(f)
    [] f.player = "hivelytracker" -> HivelyParse(f)
    [] f.player = "libdigibooster3" -> Db3Parse(f)
    [] f.player = "libopenmpt" -> OpenmptParse(f)
    [] f.player = "libxmp" -> XmpParse(f)
    [] f.player = "protrekkr1" -> Ptk1Parse(f)
    [] f.player = "protrekkr2" -> Ptk2Parse(f)
    [] f.player = "v2redux" -> V2Parse(f)
    [] f.player = "st23play" -> St23Parse(f)
    [] f.player = "noisetrekker2" -> NtkParse(f)

Start(f, s) ==
  CASE f.player = "uade" -> UadePlay(f, s)
    [] f.player = "hivelytracker" -> HivelyPlay(f, s)
    [] f.player = "libdigibooster3" -> Db3Play(f, s)
    [] f.player = "libopenmpt" -> OpenmptPlay(f, s)
    [] f.player = "libxmp" -> XmpPlay(f, s)
    [] f.player = "protrekkr1" -> Ptk1Play(f)
    [] f.player = "protrekkr2" -> Ptk2Play(f)
    [] f.player = "v2redux" -> V2Play(f)
    [] f.player = "st23play" -> St23Play(f)
    [] f.player = "noisetrekker2" -> NtkPlay(f)

RenderBy(t, r) ==
  CASE t.player = "uade" -> UadeRender(t, r)
    [] t.player = "hivelytracker" -> HivelyRender(t, r)
    [] t.player = "libdigibooster3" -> Db3Render(t, r)
    [] t.player = "libopenmpt" -> OpenmptRender(t, r)
    [] t.player = "libxmp" -> XmpRender(t, r)
    [] t.player \in {"protrekkr1", "protrekkr2"} -> PtkRender(t, r)
    [] t.player = "v2redux" -> V2Render(t, r)
    [] t.player = "st23play" -> St23Render(t, r)
    [] t.player = "noisetrekker2" -> NtkRender(t, r)

(* the next call of render *)
Buffer == RenderBy(tune, at)

BufferStatus ==
  IF ~Buffer.ended THEN "NONE"
  ELSE IF tune.player = "uade" THEN UadeStatus(tune) ELSE "PLAYER"

(* uade has no restart *)
RestartBy(t, r) ==
  CASE t.player = "hivelytracker" -> HivelyRestart
    [] t.player = "libdigibooster3" -> Db3Restart(r)
    [] t.player = "libopenmpt" -> OpenmptRestart
    [] t.player = "libxmp" -> XmpRestart
    [] t.player = "protrekkr1" -> Ptk1Restart
    [] t.player = "protrekkr2" -> Ptk2Restart
    [] t.player = "v2redux" -> V2Restart
    [] t.player = "st23play" -> St23Restart(r)
    [] t.player = "noisetrekker2" -> NtkRestart

(* uade_seek *)
Sought(frame) == Least(frame, UadeFrames(tune))
==============================================================================
