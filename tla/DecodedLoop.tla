----------------------------- MODULE DecodedLoop -----------------------------
(***************************************************************************)
(* The playback loop with the decoders it drives.  Module PlaybackLoop     *)
(* knows a decoder by the song it yields; here every step that renders,    *)
(* restarts or seeks also moves the decoder itself.                        *)
(***************************************************************************)
EXTENDS Decoders

CONSTANT Horizon   \* bound: the buffers in which a song's end is looked for

(* They reach beyond every limit of the loop, and every target.            *)
ASSUME HorizonAssumption ==
  /\ Horizon \in Nat \ {0}
  /\ \A ms \in KnownTimeouts \cup SeekTargets \cup {1000 * PrecalcTimeout} :
       BytesAt(ms) <= MixBufSize * (Horizon - 2)

(* The order that st23play goes to from an order, the orders it plays, the *)
(* frames of the first j of them, and the first that it plays again.       *)
NextOrder(t, o) ==
  LET v == IF t.orders[o + 1].jump = 0 THEN o ELSE JumpTo IN
  IF v + 1 >= Len(t.orders) THEN 0 ELSE v + 1

Route(t) ==
  LET o[j \in 0 .. Len(t.orders)] ==
        IF j = 0 THEN 0 ELSE NextOrder(t, o[j - 1])
  IN  o

FramesTo(t) ==
  LET sum[j \in 0 .. Len(t.orders)] ==
        IF j = 0 THEN 0
        ELSE sum[j - 1] + t.spt * t.orders[Route(t)[j - 1] + 1].ticks
  IN  sum

Again(t, j) == \E i \in 0 .. j - 1 : Route(t)[i] = Route(t)[j]

(* The frames of st23play's and noisetrekker2's tunes are what their       *)
(* orders and lines make, until the first of them is played again.         *)
OrdersAgree(t) ==
  /\ t.orders # <<>>
  /\ \A i \in DOMAIN t.orders : t.orders[i].jump <= t.orders[i].ticks
  /\ \E n \in 1 .. Len(t.orders) :
       /\ t.frames = FramesTo(t)[n]
       /\ Again(t, n) /\ \A j \in 1 .. n - 1 : ~Again(t, j)

LinesAgree(t) == t.lines # <<>> /\ t.frames = t.samples * AllLines(t)

ASSUME FramesAssumption ==
  \A f \in Files : \A i \in DOMAIN f.tunes :
    /\ f.player = "st23play" => OrdersAgree(f.tunes[i])
    /\ f.player = "noisetrekker2" => LinesAgree(f.tunes[i])

allVars == <<vars, tune, at>>

(* For st23play and noisetrekker2: the buffers of a song, and the first    *)
(* with a status.                                                          *)
ContextOf(t) == IF t.player = "st23play" THEN St23Load(t.spt) ELSE 0

Played(t, r) == IF t.player = "st23play" THEN St23Render(t, r)
                                         ELSE NtkRender(t, r)

Buffers(t) ==
  LET r[n \in 1 .. Horizon] ==
        Played(t, IF n = 1 THEN ContextOf(t) ELSE r[n - 1].at)
  IN  r

LastBuffer(t) ==
  LET r    == Buffers(t)
      ends == {n \in 1 .. Horizon : r[n].ended}
  IN  IF ends = {} THEN Horizon + 1
                   ELSE CHOOSE n \in ends : \A k \in ends : n <= k

(* The buffers that protrekkr plays until the length in ms is reached. *)
PtkBuffers(t) ==
  CHOOSE n \in 1 .. t.length + 1 :
    /\ Millis((n - 1) * MixBufSize) + Millis(MixBufSize) >= t.length
    /\ \A k \in 1 .. n - 1 :
         Millis((k - 1) * MixBufSize) + Millis(MixBufSize) < t.length

(* How many frames a player makes of a tune. *)
FramesOf(t) ==
  CASE t.player = "uade" -> UadeFrames(t)
    [] t.player = "hivelytracker" -> t.ticks * (FrameLen \div 4)
    [] t.player = "libdigibooster3" ->
         IF t.stops THEN t.frames
                    ELSE BufFrames * ((t.frames \div BufFrames) + 1)
    [] t.player = "libopenmpt" -> t.frames
    [] t.player = "libxmp" ->
         Least(XmpBytes(t) \div 4,
               BufFrames * (CeilDiv(t.frames, BufFrames) + 1))
    [] t.player \in {"protrekkr1", "protrekkr2"} -> BufFrames * PtkBuffers(t)
    [] t.player = "v2redux" ->
         BufFrames * CeilDiv(IF t.frames = 0 THEN 1 ELSE t.frames, BufFrames)
    [] OTHER -> BufFrames * LastBuffer(t)

(* The song that PlaybackLoop plays.  The loop never restarts a song that  *)
(* has ended, so that what libdigibooster3 keeps of an end over a restart  *)
(* cuts no song here: the property DecoderAgrees says so, too.             *)
SongOf(t) ==
  [uade    |-> t.player = "uade",
   frames  |-> FramesOf(t),
   ending  |-> IF t.player = "uade" THEN UadeStatus(t) ELSE "PLAYER",
   drained |-> CASE t.player = "uade" -> t.drained
                 [] t.player = "libopenmpt" -> TRUE
                 [] t.player = "libdigibooster3" ->
                      t.stops /\ t.frames % BufFrames = 0
                 [] OTHER -> FALSE,
   chunk   |-> IF t.player = "hivelytracker"
               THEN (MixBufSize \div FrameLen) * (FrameLen \div 4)
               ELSE BufFrames,
   keeps   |-> {},
   cuts    |-> {}]

DInit ==
  /\ known \in KnownTimeouts
  /\ \E f \in Files, s \in 0 .. 255 :
       /\ \/ \E p \in Parse(f) : s \in p.min .. p.max
          \/ f.player \in {"libopenmpt", "libxmp"} /\ s <= Len(f.tunes)
       /\ MayPlay(f, s)
       /\ \E d \in Start(f, s) : tune = d.tune /\ at = d.at
  /\ song = SongOf(tune)
  /\ Init

Rendering  == pc = "render" \/ (pc = "forward" /\ pos < target)
Restarting == pc = "seek" /\ ~song.uade /\ pc' = "forward" /\ target < pos
Seeking    == pc = "seek" /\ song.uade /\ pc' = "render"

Decode ==
  /\ UNCHANGED tune
  /\ at' = CASE Rendering -> Buffer.at
             [] Restarting -> RestartBy(tune, at)
             [] Seeking -> Sought(BytesAt(target) \div 4)
             [] OTHER -> at

DNext == Next /\ Decode

DSpec == DInit /\ [][DNext]_allVars

DFairSpec == DSpec /\ WF_allVars(DNext)
------------------------------------------------------------------------------
(* Buffer by buffer, after restarts and seeks too, the players' render     *)
(* functions hand out as many bytes, with the status, as the song says     *)
(* that the loop is checked with.  (st23play loses its tempo in a restart: *)
(* what follows one is not the song from its start.)                       *)
DecoderAgrees ==
  Rendering /\ ~(tune.player = "st23play" /\ seeked) =>
    /\ Buffer.bytes = 4 * Frames
    /\ BufferStatus = Status

(* The assertion of player.cc's render: a player renders whole frames.     *)
WholeFrames == Rendering => Buffer.bytes % 4 = 0

(* Where a tune is over, its repeat begins or nothing more comes. *)
EndOf(t) ==
  CASE t.player = "hivelytracker" -> t.ticks * (FrameLen \div 4)
    [] t.player = "libxmp" -> XmpBytes(t) \div 4
    [] t.player \in {"protrekkr1", "protrekkr2"} -> t.length
    [] OTHER -> t.frames

(* How far into the tune the next buffer goes, in bytes. *)
Reach == IF tune.player = "noisetrekker2" THEN 4 * Buffer.at
                                          ELSE 4 * dec + Buffer.bytes

(* Before and from its jump on, or if it has none, an order goes on for    *)
(* less than a buffer.                                                     *)
Hasty(t, o) ==
  t.spt * (IF o.jump = 0 THEN o.ticks
           ELSE Least(o.jump - 1, o.ticks - o.jump + 1)) < BufFrames

(* What the players' tests for the end do not cover: st23play after a      *)
(* restart, as above, or if it may miss an order between two buffers; a    *)
(* song that noisetrekker2 finds back at its top with the first frame of a *)
(* buffer, or that comes from a position that only has a first line.       *)
Unwatched ==
  \/ tune.player = "st23play"
       /\ (seeked \/ \E i \in DOMAIN tune.orders : Hasty(tune, tune.orders[i]))
  \/ tune.player = "noisetrekker2"
       /\ \/ (tune.frames - 1) % (BufFrames - 1) = 0
          \/ tune.lines[Len(tune.lines)] = 1

(* No player lets a song's repeat pass for the song: a buffer that reaches *)
(* beyond the end of the tune has a status, so that the loop, a precalc    *)
(* above all, stops there.  (protrekkr's length is in ms.)                 *)
NothingPastEnd ==
  Rendering /\ BufferStatus = "NONE" /\ ~Unwatched =>
    IF tune.player \in {"protrekkr1", "protrekkr2"}
    THEN Millis(Reach) <= EndOf(tune)
    ELSE Reach <= 4 * EndOf(tune)

(* A song of known length is played for that long, unless it ends or fails *)
(* earlier by itself: uade's own timeouts, whole seconds, come later.      *)
KnownTimeIsPlayed ==
  pc = "done" /\ known > 0 /\ ~stopped /\ tune.player = "uade"
    /\ status \in {"TIMEOUT", "DETECT_SILENCE"}
  => total >= MaxBytes(known)
==============================================================================
