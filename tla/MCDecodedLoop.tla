--------------------------- MODULE MCDecodedLoop -----------------------------
(***************************************************************************)
(* Small instances of the playback loop with its decoders.  With 11 frames *)
(* a second and 3 frames a buffer neither a frame nor a buffer is a whole  *)
(* number of ms, and a tick of hivelytracker is 2 frames.                  *)
(***************************************************************************)
EXTENDS DecodedLoop

Forever == 1000   \* outlasts every limit

MCUadeTunes ==
  [player : {"uade"}, frames : {0, 1, 6, 7, Forever}, audible : {2, Forever},
   happy : BOOLEAN, drained : BOOLEAN]

MCTunes ==
  [player : {"hivelytracker"}, ticks : {1, 4}]
  \cup [player : {"libdigibooster3"}, frames : {1, 6, 7}, stops : BOOLEAN]
  \cup [player : {"libopenmpt"}, frames : {0, 1, 6, 7}]
  \cup [player : {"libxmp"}, duration : {0, 500, 818}, frames : {2, Forever}]
  \cup [player : {"protrekkr1", "protrekkr2"}, length : {0, 500, 545, 546}]
  \cup [player : {"v2redux"}, frames : {0, 6, 7}]

(* st23play: an order list that wraps; a jump that skips two orders, and   *)
(* one that repeats its own; one with an order's first tick, too hasty.    *)
St23Order(ticks, jump) == [ticks |-> ticks, jump |-> jump]

MCSt23Tunes ==
  {[player |-> "st23play", spt |-> 2, frames |-> 8,
    orders |-> <<St23Order(2, 0), St23Order(2, 0)>>],
   [player |-> "st23play", spt |-> 1, frames |-> 13,
    orders |-> <<St23Order(6, 4), St23Order(4, 0), St23Order(4, 0),
                 St23Order(7, 5)>>],
   [player |-> "st23play", spt |-> 1, frames |-> 13,
    orders |-> <<St23Order(3, 0), St23Order(3, 0), St23Order(3, 0),
                 St23Order(4, 1)>>]}

(* noisetrekker2: two positions; one; one that is back at its top with a   *)
(* buffer's first frame; and one that comes there from a single line.      *)
MCNtkTunes ==
  {[player |-> "noisetrekker2", samples |-> 2, lines |-> <<2, 2>>,
    frames |-> 8],
   [player |-> "noisetrekker2", samples |-> 1, lines |-> <<4>>,
    frames |-> 4],
   [player |-> "noisetrekker2", samples |-> 1, lines |-> <<3>>,
    frames |-> 3],
   [player |-> "noisetrekker2", samples |-> 4, lines |-> <<2, 1>>,
    frames |-> 12]}

MCAllTunes == MCUadeTunes \cup MCTunes \cup MCSt23Tunes \cup MCNtkTunes

(* Every tune is a file; others have two, with uade's first at the ends of *)
(* its range, or cannot be read.                                           *)
Pair(p) == CHOOSE s \in [1 .. 2 -> {t \in MCTunes \cup MCUadeTunes :
                                     t.player = p}] : s[1] # s[2]

MCFiles ==
  [player : {"uade"}, loads : {TRUE}, first : {-1, 255},
   tunes : {Pair("uade")}]
  \cup
  {[player |-> t.player, loads |-> TRUE, first |-> 0, tunes |-> <<t>>] :
     t \in MCAllTunes}
  \cup
  {[player |-> p, loads |-> l, first |-> 0, tunes |-> Pair(p)] :
     p \in {"hivelytracker", "libdigibooster3", "libopenmpt", "libxmp"},
     l \in BOOLEAN}

(* A duration of -1 s is what a player makes of an unknown one.            *)
MCKnownTimeouts == {-1000, 0, 500, 2000, 3500}

(* DInit takes what SongOf makes of a tune. *)
MCSongs ==
  [uade : BOOLEAN, frames : 0 .. 60, ending : Ends, drained : BOOLEAN,
   keeps : {{}}, cuts : {{}}, chunk : 1 .. BufFrames]
==============================================================================
