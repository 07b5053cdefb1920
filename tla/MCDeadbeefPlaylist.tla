------------------------- MODULE MCDeadbeefPlaylist --------------------------
(***************************************************************************)
(* Small instances of the DeaDBeeF plugin.  A read is one buffer, one and  *)
(* a half or more than two, so that tails of every length come up; a       *)
(* buffer and a frame are no whole number of ms.                           *)
(***************************************************************************)
EXTENDS DeadbeefPlaylist

MCSong(u, n, e, d, c) ==
  [uade |-> u, frames |-> n, ending |-> e, drained |-> d, chunk |-> c,
   keeps |-> {}, cuts |-> {}]

(* libdigibooster3 keeps that the song has ended, and ft2play that its     *)
(* last order has begun, with frame 5; an order before that ends with 4.   *)
MCDb3Song ==
  [MCSong(FALSE, 7, "PLAYER", FALSE, BufFrames) EXCEPT
     !.keeps = {7}, !.cuts = 0 .. 7]
MCFt2Song ==
  [MCSong(FALSE, 8, "PLAYER", FALSE, BufFrames) EXCEPT
     !.keeps = 5 .. 8, !.cuts = {4}]

(* Songs shorter than, as long as and longer than a few buffers, and one   *)
(* that outlasts every limit; one of buffers that are not full; and two    *)
(* that may end early after a restart.                                     *)
MCSongs ==
  {MCSong(u, n, "PLAYER", d, BufFrames) :
     u \in BOOLEAN, n \in {0, 1, 4, 7, 8, 40}, d \in BOOLEAN}
  \cup {MCSong(FALSE, 7, "ERROR", FALSE, BufFrames - 1), MCDb3Song, MCFt2Song}

(* Unknown, 0, and lengths inside and at the end of a buffer.              *)
MCKnownTimeouts == {-1000, 0, 1999, 2000, 2499, 2500, 3999, 4000}

MCPLAYERS == <<"it2play", "libxmp", "uade">>

(* Of it2play's, of uade's, and one that it2play claims and cannot play.   *)
Files ==
  LET File(c, t) == [small |-> FALSE, packed |-> "no", claims |-> c,
                     parses |-> t, plays |-> t]
  IN  [native  |-> File({"it2play", "libxmp"}, {"it2play", "libxmp"}),
       false   |-> File({"it2play", "libxmp"}, {"libxmp"}),
       broken  |-> [File({"it2play"}, {"it2play"}) EXCEPT !.plays = {}],
       unknown |-> File({}, {}),
       packed  |-> [File({}, {"uade"}) EXCEPT !.packed = "good"],
       bad     |-> [File({}, {"uade"}) EXCEPT !.packed = "bad"],
       small   |-> [File({"uade"}, {"uade"}) EXCEPT !.small = TRUE]]

Sub(s, ms, dup) == [song |-> s, length |-> ms, is_duplicate |-> dup]

(* Every song alone, measured at an insertion, before or never; and two    *)
(* subsongs of which one is broken, a duplicate, too short or too long.    *)
MCModules ==
  LET Mod(f, db, subs) ==
        [file |-> Files[f], listed |-> FALSE, db |-> db, subs |-> subs]
      Ms(s)  == IF s.frames = 0 THEN 0 ELSE IF s.frames = 4 THEN 2000 ELSE 2500
      Of(s)  == Mod(IF s.uade THEN "packed" ELSE "native", FALSE,
                    <<Sub(s, Ms(s), FALSE)>>)
      short  == MCSong(FALSE, 4, "PLAYER", TRUE, BufFrames)
      Others == {Sub(short, 0, FALSE), Sub(short, 2000, TRUE),
                 Sub(short, 2500, FALSE), Sub(short, 4000, FALSE)}
  IN  {Of(s) : s \in MCSongs}
      \cup {Mod("native", TRUE, <<Sub(short, 2000, FALSE), o>>) : o \in Others}
      \cup {Mod("native", FALSE, <<Sub(short, 2000, FALSE),
                                   Sub(short, 0, FALSE)>>)}
      \cup {Mod(f, FALSE, <<Sub(short, 2000, FALSE)>>) :
               f \in DOMAIN Files \ {"broken"}}
      \cup {Mod("broken", FALSE, <<Sub(short, 0, FALSE)>>)}
      \cup {[Of(short) EXCEPT !.listed = TRUE]}

(* no items, or one whose player is not named *)
MCSaved ==
  {<<>>} \cup
  {<<Item(m, 1, "NONE")>> : m \in {n \in MCModules :
     n.file \in {Files["false"], Files["unknown"]}}}
==============================================================================
