------------------------------ MODULE Subsongs -------------------------------
(***************************************************************************)
(* How it2play, ft2play and st3play find the subsongs of a module: the     *)
(* walk over orders and rows of get_subsongs, one action per way through   *)
(* the body of its loop.  parse takes the number of subsongs from it, play *)
(* the order a subsong starts at.                                          *)
(*                                                                         *)
(* A song is a record: orders (a sequence of patterns, SEP and END), patnum*)
(* (the patterns 0 .. patnum-1 have data; patnum itself passes the code's  *)
(* test `<= PatNum' without having any), rows of each pattern, the speed   *)
(* it is loaded with, in ticks a row, the order it repeats from (repS of   *)
(* FastTracker), the numbers of ticks that may start within one buffer, and*)
(* for each pattern and row a cell: the effects of all channels, with the  *)
(* parameters of a jump, a break, a pattern loop and a change of speed, and*)
(* the order of the first three.                                           *)
(***************************************************************************)
EXTENDS Integers, Sequences, FiniteSetsExt

CONSTANTS
  Songs,     \* the modules
  MaxRows,   \* rows of a Scream Tracker pattern, and of an empty one (64)
  StepLimit, \* bound: turns of the walk that are counted
  Hex, Dec   \* bases of a byte's digits, in hexadecimal and in BCD (16, 10)

SEP  == 254   \* PATT_SEP: skipped
END  == 255   \* PATT_END: the song starts over
None == -1

(* The parameter of an effect, if the row has it. *)
Param == Nat \cup {None}

(* Orders and effects are bytes; there are cells for all rows of a pattern,*)
(* and for those of an empty one.  No pattern has the number of a separator*)
(* (Impulse Tracker has 200 of them, Scream Tracker 100; modules of        *)
(* FastTracker, which has 256, are left out if they have more than 253).   *)
ASSUME SongsAssumption ==
  /\ {MaxRows, Hex, Dec} \subseteq Nat \ {0}
  /\ \A s \in Songs :
       /\ s.orders \in Seq(Nat) /\ s.patnum \in 0 .. SEP - 1
       /\ s.speed \in Nat \ {0} /\ s.repeat \in 0 .. Len(s.orders)
       /\ s.ticks \subseteq 0 .. 3
       /\ \A p \in 0 .. s.patnum - 1 :
            /\ s.rows[p] \in Nat
            /\ \A row \in (0 .. MaxRows - 1) \cup (0 .. s.rows[p] - 1) :
                 /\ s.cells[p][row].b \in Param /\ s.cells[p][row].c \in Param
                 /\ s.cells[p][row].speed \in Param

Players == {"it2play", "ft2play", "st3play"}

VARIABLES
  player, song,
  phase,      \* walk, walked; then see Trackers
  songPos, pattPos,
  jump,       \* the last step may have closed a loop
  prevJump,   \* the last jump
  seen, notseen,
  subsongs,   \* the orders they start at
  steps       \* history: turns of the loop, as far as StepLimit

songVars == <<player, song>>
walkVars == <<songPos, pattPos, jump, prevJump, seen, notseen, subsongs,
              steps>>

OrdNum == Len(song.orders)
PatNum == song.patnum

(* The loaders fill the order list with 255. *)
Ord(i) == IF i < OrdNum THEN song.orders[i + 1] ELSE END

(* What the walk takes for the length of a pattern.  Rows is 0 in Impulse  *)
(* Tracker's patterns that are not there, though they play MaxRows.        *)
Rows(p) ==
  CASE player = "it2play" -> IF p < PatNum THEN song.rows[p] ELSE 0
    [] player = "ft2play" -> IF p < PatNum THEN song.rows[p] ELSE MaxRows
    [] player = "st3play" -> MaxRows

HasData(p) == p < PatNum

(* FastTracker's order list has patterns only. *)
Separates(p) == player # "ft2play" /\ p >= SEP

NoCell == [b |-> None, c |-> None, loop |-> None, speed |-> None,
           order |-> <<"b", "c", "loop">>]
Cell(p, row) == IF HasData(p) THEN song.cells[p][row] ELSE NoCell

(* a row given in BCD *)
Bcd(byte) == ((byte \div Hex) * Dec) + (byte % Hex)

(* posJump: position jump and pattern break of a row.  ft2play converts    *)
(* the break from BCD, the other two take the byte.                        *)
It2PosJump(p, row) ==
  IF row >= Rows(p) THEN <<None, None>> ELSE <<Cell(p, row).b, Cell(p, row).c>>

Ft2PosJump(p, row) ==
  LET c == Cell(p, row).c
  IN  <<Cell(p, row).b, IF c = None THEN None ELSE Bcd(c)>>

St3PosJump(p, row) == <<Cell(p, row).b, Cell(p, row).c>>

PosJump(p, row) ==
  CASE player = "it2play" -> It2PosJump(p, row)
    [] player = "ft2play" -> Ft2PosJump(p, row)
    [] player = "st3play" -> St3PosJump(p, row)

InitWalk ==
  /\ player \in Players
  /\ song \in Songs
  /\ phase = "walk"
  /\ songPos = 0 /\ pattPos = 0
  /\ jump = FALSE
  /\ prevJump = <<0, 0>>
  /\ seen = {}
  /\ notseen = {i \in 0 .. OrdNum - 1 : Ord(i) <= PatNum}
  /\ subsongs = <<0>>
  /\ steps = 0
------------------------------------------------------------------------------
(* A loop is closed, and there are orders it has not reached: the first of *)
(* them starts the next subsong.                                           *)
Closed == jump /\ songPos \in seen /\ notseen # {}
First  == Min(notseen)

(* ... unless its pattern is empty *)
Empty(p) ==
  CASE player = "it2play" -> Rows(p) = 0
    [] player = "ft2play" -> Rows(p) = 0
    [] player = "st3play" -> ~HasData(p)

(* The last order left is not counted when its pattern is not there.       *)
Playable(p) == HasData(p) \/ (player = "ft2play" /\ Rows(p) > 0)

EndWalk == phase' = "walked"

SkipEmpty ==
  /\ phase = "walk" /\ Closed /\ Empty(Ord(First))
  /\ songPos' = First + 1 /\ pattPos' = 0
  /\ seen' = seen \cup {First}
  /\ notseen' = notseen \ {First}
  /\ IF First + 1 >= OrdNum THEN EndWalk ELSE UNCHANGED phase
  /\ UNCHANGED <<songVars, jump, prevJump, subsongs>>

(* Where the body of the loop goes on, and what it has seen then.          *)
Here    == IF Closed THEN First ELSE songPos
HereRow == IF Closed THEN 0 ELSE pattPos
SeenNow == seen \cup {Here}

(* Mutant of Visit: an order found by a jump may start a subsong again.    *)
VisitAgain ==
  /\ phase = "walk" /\ ~(Closed /\ Empty(Ord(First)))
  /\ notseen' = IF Closed THEN notseen ELSE notseen \ {Here}
  /\ subsongs' = IF Closed THEN Append(subsongs, First) ELSE subsongs

Visit ==
  /\ phase = "walk" /\ ~(Closed /\ Empty(Ord(First)))
  /\ notseen' = notseen \ {Here}
  /\ subsongs' =
       IF Closed /\ (Cardinality(notseen) > 1 \/ Playable(Ord(First)))
       THEN Append(subsongs, First) ELSE subsongs

AllSeen ==
  /\ Visit /\ notseen' = {}
  /\ EndWalk
  /\ seen' = SeenNow
  /\ UNCHANGED <<songVars, songPos, pattPos, jump, prevJump>>

Separator ==
  /\ Visit /\ notseen' # {} /\ Separates(Ord(Here))
  /\ songPos' = Here + 1 /\ pattPos' = HereRow
  /\ IF Here + 1 >= OrdNum
     THEN EndWalk /\ jump' = FALSE /\ seen' = SeenNow
     ELSE /\ jump' = (Ord(Here) = END)
          /\ seen' = SeenNow \cup {Here + 1}
          /\ UNCHANGED phase
  /\ UNCHANGED <<songVars, prevJump>>

(* Mutant of Landing: a break past the end of the pattern is taken.        *)
LandingRaw(next, row) == IF row = None THEN 0 ELSE row

(* the row a jump goes to *)
Landing(next, row) ==
  IF \/ row = None \/ row >= Rows(Ord(next))
     \/ player = "it2play" /\ Separates(Ord(next))
  THEN 0 ELSE row

(* Mutant of Leap: a jump met again is not remembered.                     *)
LeapForgets ==
  LET pj   == PosJump(Ord(Here), HereRow)
      next == IF pj[1] = None THEN Here + 1 ELSE pj[1]
      row  == Landing(next, pj[2])
  IN  /\ Visit /\ notseen' # {} /\ ~Separates(Ord(Here))
      /\ pj # <<None, None>>
      /\ songPos' = next
      /\ IF next >= OrdNum \/ (next = Here /\ row = HereRow)
         THEN /\ EndWalk
              /\ seen' = SeenNow
              /\ UNCHANGED <<pattPos, jump, prevJump>>
         ELSE /\ pattPos' = row
              /\ seen' = SeenNow
              /\ jump' = (next # Here \/ (row # HereRow /\ row = 0))
              /\ prevJump' = pj
              /\ UNCHANGED phase
      /\ UNCHANGED songVars

(* A row with a jump or a break.  The walk ends where a row jumps to       *)
(* itself; jump is set where the order changes or the pattern starts over, *)
(* and where the same jump is met again.                                   *)
Leap ==
  LET pj    == PosJump(Ord(Here), HereRow)
      next  == IF pj[1] = None THEN Here + 1 ELSE pj[1]
      row   == Landing(next, pj[2])
      again == pj = prevJump /\ pj[1] # None
  IN  /\ Visit /\ notseen' # {} /\ ~Separates(Ord(Here))
      /\ pj # <<None, None>>
      /\ songPos' = next
      /\ IF next >= OrdNum \/ (next = Here /\ row = HereRow)
         THEN /\ EndWalk
              /\ seen' = SeenNow
              /\ UNCHANGED <<pattPos, jump, prevJump>>
         ELSE /\ pattPos' = row
              /\ seen' = IF again THEN SeenNow \cup {next} ELSE SeenNow
              /\ jump' = (again \/ next # Here \/ (row # HereRow /\ row = 0))
              /\ prevJump' = pj
              /\ UNCHANGED phase
      /\ UNCHANGED songVars

NextRow ==
  /\ Visit /\ notseen' # {} /\ ~Separates(Ord(Here))
  /\ PosJump(Ord(Here), HereRow) = <<None, None>>
  /\ seen' = SeenNow
  /\ IF HereRow + 1 < Rows(Ord(Here))
     THEN /\ songPos' = Here /\ pattPos' = HereRow + 1
          /\ jump' = FALSE
          /\ UNCHANGED phase
     ELSE /\ songPos' = Here + 1 /\ pattPos' = 0
          /\ jump' = TRUE
          /\ IF Here + 1 >= OrdNum THEN EndWalk ELSE UNCHANGED phase
  /\ UNCHANGED <<songVars, prevJump>>

Count == steps' = IF steps < StepLimit THEN steps + 1 ELSE steps

It2Walk == /\ player = "it2play" /\ Count
           /\ SkipEmpty \/ AllSeen \/ Separator \/ Leap \/ NextRow

Ft2Walk == /\ player = "ft2play" /\ Count
           /\ SkipEmpty \/ AllSeen \/ Leap \/ NextRow

St3Walk == /\ player = "st3play" /\ Count
           /\ SkipEmpty \/ AllSeen \/ Separator \/ Leap \/ NextRow

Walk == It2Walk \/ Ft2Walk \/ St3Walk
==============================================================================
