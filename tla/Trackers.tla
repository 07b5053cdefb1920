------------------------------ MODULE Trackers -------------------------------
(***************************************************************************)
(* A song played by it2play, ft2play or st3play: play(), restart(), and    *)
(* render(), which knows a song's end by the positions it has seen.  The   *)
(* replayers are modelled as far as render() can see them: how they go from*)
(* row to row, tick by tick.  A call of render() mixes a buffer, in which  *)
(* none, one or more ticks start, as the tempo has it, and looks at the    *)
(* position before and after it.  Left out are pattern delays, the tempo   *)
(* itself (a song has the numbers of ticks it may come to), and loops in   *)
(* more than one channel.                                                  *)
(***************************************************************************)
EXTENDS Subsongs

CONSTANT MaxRestarts   \* bound: restarts of a song

VARIABLES
  subsong,    \* the one that plays
  now,        \* replayer r, context seen, and whether the end was reported
  twin,       \* history: the same had play() been called at the last restart
  heard,      \* history: the rows played, as <<order, row>>
  restarts,   \* number of restarts
  stale       \* history: what a restart has left behind, in rows, in ends

playVars == <<subsong, now, twin, heard, restarts, stale>>
vars == <<songVars, phase, walkVars, playVars>>

(* The rows a replayer plays of a pattern. *)
Length(p) == IF HasData(p) /\ player # "st3play" THEN song.rows[p] ELSE MaxRows

(* the first order from i on that is no separator *)
Past(i) == CHOOSE k \in i .. OrdNum : /\ Ord(k) # SEP
                                      /\ \A l \in i .. k - 1 : Ord(l) = SEP

(* the speed from the row on that a replayer is at; 0 changes nothing *)
NewSpeed(r) == LET v == Cell(r.pat, r.row).speed
               IN  IF v \in {None, 0} THEN r.speed ELSE v
------------------------------------------------------------------------------
(* it2play: the row to process next is ProcessRow + 1, a 16 bit number;    *)
(* Break is past the end of any pattern.                                   *)
Word  == 65536
Break == 65534
Before(n) == (n - 1) % Word

It2Start(o, left) ==
  [ord |-> o, row |-> 0, pat |-> 0, tick |-> 1, speed |-> song.speed,
   pord |-> Before(o), prow |-> Break, brow |-> 0, lrow |-> 0, lcnt |-> 0,
   flag |-> left, stop |-> FALSE]

It2NextOrder(r) ==
  LET o == Past(IF (r.pord + 1) % Word > OrdNum THEN OrdNum
                                                ELSE (r.pord + 1) % Word)
      to == IF Ord(o) = END THEN <<0, r.pat>> ELSE <<o, Ord(o)>>
      row == IF r.brow >= Length(to[2]) THEN 0 ELSE r.brow
  IN  [r EXCEPT !.ord = to[1], !.pord = to[1], !.pat = to[2], !.row = row,
                !.prow = row, !.brow = 0, !.stop = @ \/ Ord(o) = END]

It2Loop(r, n) ==
  IF n = 0 THEN [r EXCEPT !.lrow = r.row]
  ELSE IF r.lcnt = 1 THEN [r EXCEPT !.lcnt = 0, !.lrow = r.row + 1]
  ELSE [r EXCEPT !.lcnt = IF @ = 0 THEN n ELSE @ - 1,
                 !.prow = Before(r.lrow), !.flag = TRUE]

(* The last to set the row to process wins, but a break does not leave a   *)
(* pattern loop that a channel before it has gone back in.                 *)
It2Effect(r, c, effect) ==
  CASE effect = "b" /\ c.b # None ->
         [r EXCEPT !.pord = Before(c.b), !.prow = Break]
    [] effect = "c" /\ c.c # None /\ ~r.flag ->
         [r EXCEPT !.brow = c.c, !.prow = Break]
    [] effect = "loop" /\ c.loop # None -> It2Loop(r, c.loop)
    [] OTHER -> r

It2Effects(r) ==
  LET c == Cell(r.pat, r.row)
  IN  It2Effect(It2Effect(It2Effect(r, c, c.order[1]), c, c.order[2]),
                c, c.order[3])

It2Row(r) ==
  LET row == (r.prow + 1) % Word
  IN  IF row >= Length(r.pat) THEN It2NextOrder(r)
                              ELSE [r EXCEPT !.row = row, !.prow = row]

It2Tick(r) ==
  IF r.tick > 1 THEN [r EXCEPT !.tick = @ - 1]
  ELSE LET q == It2Row(r)
       IN  It2Effects([q EXCEPT !.flag = FALSE, !.speed = NewSpeed(q),
                                !.tick = NewSpeed(q)])
------------------------------------------------------------------------------
(* ft2play: the position moves on at the last tick of a row.               *)
Ft2Start(o, left) ==
  [ord |-> o, row |-> 0, pat |-> Ord(o), tick |-> 1, speed |-> song.speed,
   jmp |-> FALSE, brk |-> FALSE, brow |-> 0, lrow |-> 0, lcnt |-> 0,
   flag |-> left, dump |-> FALSE]

Ft2Loop(r, n) ==
  IF n = 0 THEN [r EXCEPT !.lrow = r.row]
  ELSE IF r.lcnt = 1 THEN [r EXCEPT !.lcnt = 0, !.flag = FALSE]
  ELSE [r EXCEPT !.lcnt = IF @ = 0 THEN n ELSE @ - 1,
                 !.brow = r.lrow, !.brk = TRUE, !.flag = TRUE]

Ft2Effect(r, c, effect) ==
  CASE effect = "b" /\ c.b # None ->
         [r EXCEPT !.ord = c.b - 1, !.brow = 0, !.jmp = TRUE]
    [] effect = "c" /\ c.c # None ->
         [r EXCEPT !.brow = IF Bcd(c.c) < MaxRows THEN Bcd(c.c) ELSE 0,
                   !.jmp = TRUE]
    [] effect = "loop" /\ c.loop # None -> Ft2Loop(r, c.loop)
    [] OTHER -> r

Ft2Effects(r) ==
  LET c == Cell(r.pat, r.row)
  IN  Ft2Effect(Ft2Effect(Ft2Effect(r, c, c.order[1]), c, c.order[2]),
                c, c.order[3])

Ft2NextPos(r) ==
  LET row == IF r.brk THEN r.brow ELSE r.row + 1
      o   == IF r.ord + 1 >= OrdNum THEN song.repeat ELSE r.ord + 1
  IN  IF row < Length(r.pat) /\ ~r.jmp
      THEN [r EXCEPT !.row = row, !.brk = FALSE]
      ELSE [r EXCEPT !.ord = o, !.pat = Ord(o), !.brow = 0, !.jmp = FALSE,
                     !.row = IF r.brow < Length(Ord(o)) THEN r.brow ELSE 0,
                     !.brk = FALSE]

Ft2Tick(r) ==
  LET q == IF r.tick = 1
           THEN Ft2Effects([r EXCEPT !.speed = NewSpeed(r),
                                     !.tick = NewSpeed(r)])
           ELSE [r EXCEPT !.tick = @ - 1]
  IN  IF q.tick = 1 THEN Ft2NextPos(q) ELSE q

(* dump_EndOfTune, called after each frame.  (It also waits for a pattern  *)
(* delay, and ends songs loaded with a speed of 0: both are left out.)     *)
AtTop(r) == r.row = 0 /\ r.tick = 1
Ft2Dump(r) == [r EXCEPT !.dump = @ \/ (r.ord = OrdNum - 1 /\ AtTop(r))]
------------------------------------------------------------------------------
(* st3play: np_ord is one ahead of the order that plays.  It wraps around  *)
(* to the first pattern, if there is one before the end.  (B with 255 is   *)
(* left out.)                                                              *)
St3NewOrder(r) ==
  LET i    == Past(r.ord)
      wrap == Ord(i) = END
      o    == IF wrap THEN Past(0) ELSE i
  IN  IF Ord(o) = END THEN [r EXCEPT !.ord = 0, !.row = 0, !.stop = TRUE]
      ELSE [r EXCEPT !.ord = o + 1, !.pat = Ord(o), !.row = r.brow,
                     !.brow = 0, !.lrow = None, !.jrow = None,
                     !.stop = @ \/ wrap]

St3Load ==
  St3NewOrder([ord |-> 0, row |-> 0, pat |-> 0, tick |-> 0,
               speed |-> song.speed, brk |-> FALSE, jord |-> None,
               brow |-> 0, lrow |-> 0, lcnt |-> 0, jrow |-> None,
               stop |-> FALSE])

(* zgotosong: the current row ends with a break *)
St3Goto(r, o) == [r EXCEPT !.ord = o, !.brow = 0, !.brk = TRUE,
                           !.tick = r.speed]

St3Loop(r, n) ==
  LET lrow == IF r.lcnt = 0 /\ r.lrow = None THEN 0 ELSE r.lrow IN
  IF n = None THEN r
  ELSE IF n = 0 THEN [r EXCEPT !.lrow = r.row]
  ELSE IF r.lcnt = 1 THEN [r EXCEPT !.lcnt = 0, !.lrow = r.row + 1]
  ELSE [r EXCEPT !.lcnt = IF @ = 0 THEN n ELSE @ - 1,
                 !.lrow = lrow, !.jrow = lrow]

(* The order of the channels does not matter here. *)
St3Effects(r) ==
  LET c == Cell(r.pat, r.row)
      digits == c.c # None /\ c.c % Hex < Dec /\ c.c \div Hex < Dec
  IN  [St3Loop(r, c.loop) EXCEPT
         !.speed = NewSpeed(r),
         !.jord = IF c.b # None THEN c.b ELSE @,
         !.brk = @ \/ c.b # None \/ digits,
         !.brow = IF digits THEN Bcd(c.c) ELSE @]

St3NextRow(r) ==
  LET row == IF r.jrow # None THEN r.jrow ELSE r.row + 1 IN
  IF row >= MaxRows \/ (r.lcnt = 0 /\ r.brk)
  THEN St3NewOrder([r EXCEPT !.ord = IF r.jord # None THEN r.jord ELSE @,
                             !.jord = None, !.jrow = None, !.brk = FALSE,
                             !.tick = 0])
  ELSE [r EXCEPT !.row = row, !.jrow = None, !.tick = 0]

St3Tick(r) ==
  LET q == IF r.tick = 0 THEN St3Effects(r) ELSE r
  IN  IF q.tick + 1 >= q.speed THEN St3NextRow(q) ELSE [q EXCEPT !.tick = @ + 1]
------------------------------------------------------------------------------
(* What the replayers have in common for render()                          *)

Tick(r) == CASE player = "it2play" -> It2Tick(r)
             [] player = "ft2play" -> Ft2Dump(Ft2Tick(r))
             [] player = "st3play" -> St3Tick(r)

(* The numbers of ticks that may start in a buffer: ft2play's buffer is a  *)
(* tick, those of the other two are a 50th of a second, which a tempo (a   *)
(* byte, 125 for 50 ticks a second) fills with three ticks at most.        *)
Mixed == IF player = "ft2play" THEN {1} ELSE song.ticks

(* a replayer n ticks later *)
Ticks(r, n) ==
  CASE n = 0 -> r
    [] n = 1 -> Tick(r)
    [] n = 2 -> Tick(Tick(r))
    [] n = 3 -> Tick(Tick(Tick(r)))

Pos(r) == <<r.ord, r.row>>

(* jumpLoop() *)
It2JumpLoop(r) == r.flag
Ft2JumpLoop(r) == r.brk \/ r.jmp \/ r.flag
St3JumpLoop(r) == r.lcnt > 0

JumpLoop(r) == CASE player = "it2play" -> It2JumpLoop(r)
                 [] player = "ft2play" -> Ft2JumpLoop(r)
                 [] player = "st3play" -> St3JumpLoop(r)

(* The row a tick starts to play, as a set of none or one. *)
Plays(r) ==
  CASE player = "it2play" -> IF r.tick = 1 THEN {Pos(It2Row(r))} ELSE {}
    [] player = "ft2play" -> IF r.tick = 1 THEN {Pos(r)} ELSE {}
    [] player = "st3play" -> IF r.tick = 0 THEN {<<r.ord - 1, r.row>>} ELSE {}

(* the rows that n ticks start to play *)
Played(r, n) == UNION {Plays(Ticks(r, i)) : i \in 0 .. n - 1}

(* Mutant of Unlooped: what a pattern loop has repeated stays seen.        *)
UnloopedNot(before, after, pos) == pos

(* After a pattern loop, its rows are forgotten. *)
Unlooped(before, after, pos) ==
  LET p == Pos(before) q == Pos(after) IN
  IF JumpLoop(before) /\ ~JumpLoop(after) /\ p[1] >= q[1] /\ p[2] >= q[2]
     /\ OrdNum > 1
  THEN pos \ {<<q[1], i>> : i \in q[2] .. p[2]}
  ELSE pos

(* A position counts unless it is part of a pattern loop. *)
Counts(before, after) ==
  Pos(after) # Pos(before) /\ ~JumpLoop(before) /\ ~JumpLoop(after)

(* the first end reported is kept *)
Rendered(r, pos, end) == [r |-> r, seen |-> pos, end |-> end]

It2Render(s, r) ==
  LET old == Unlooped(s.r, r, s.seen)
      end == r.stop \/ r.ord >= OrdNum
      new == ~end /\ Counts(s.r, r)
      hack == /\ ~JumpLoop(s.r) /\ ~JumpLoop(r) /\ Pos(s.r) = Pos(r)
              /\ r.pord = r.ord - 1 /\ r.prow = Break /\ s.r.prow = Break
              /\ Pos(r) \in old
  IN  Rendered(r, IF new THEN old \cup {Pos(r)} ELSE old,
               IF r.stop THEN "stop" ELSE IF end THEN "order"
               ELSE IF new /\ Pos(r) \in old THEN "seen"
               ELSE IF hack THEN "hack" ELSE "")

Ft2Render(s, r) ==
  LET old == Unlooped(s.r, r, s.seen)
      end == /\ s.seen # {}
             /\ \/ s.r.dump /\ AtTop(r) /\ ~r.flag
                \/ r.ord >= OrdNum
      new == ~end /\ Counts(s.r, r)
  IN  Rendered(r, IF new THEN old \cup {Pos(r)} ELSE old,
               IF end THEN "stop"
               ELSE IF new /\ Pos(r) \in old THEN "seen" ELSE "")

St3Render(s, r) ==
  LET old == Unlooped(s.r, r, s.seen)
      end == r.stop \/ r.ord >= OrdNum
      new == ~end /\ Counts(s.r, r)
  IN  Rendered(r, IF new THEN old \cup {Pos(r)} ELSE old,
               IF r.stop THEN "stop" ELSE IF end THEN "order"
               ELSE IF new /\ Pos(r) \in old THEN "seen" ELSE "")

Render(s, r) ==
  LET q == CASE player = "it2play" -> It2Render(s, r)
             [] player = "ft2play" -> Ft2Render(s, r)
             [] player = "st3play" -> St3Render(s, r)
  IN  [q EXCEPT !.end = IF s.end # "" THEN s.end ELSE @]

(* play(): the first subsong starts without a walk.  The flag of the last  *)
(* pattern loop is not reset by it2play and ft2play: left is what another  *)
(* module has left in it.  st3play has WAVRender_Flag set last, whatever   *)
(* loading the module has made of it.                                      *)
It2Play(o, left) == It2Start(o, left)
Ft2Play(o, left) == Ft2Start(o, left)
St3Play(s) == [(IF s = 1 THEN St3Load ELSE St3Goto(St3Load, subsongs[s]))
                 EXCEPT !.stop = FALSE]

Fresh(s, left) ==
  [r |-> CASE player = "it2play" -> It2Play(subsongs[s], left)
           [] player = "ft2play" -> Ft2Play(subsongs[s], left)
           [] player = "st3play" -> St3Play(s),
   seen |-> {}, end |-> ""]

(* Mutant of It2Restart: the pattern loop of a channel is kept, too.       *)
It2RestartKeeps(r) ==
  [It2Start(subsongs[subsong], r.flag) EXCEPT !.lcnt = r.lcnt, !.lrow = r.lrow]

(* restart(): setPos(startPos).  Only it2play, which stops the song first, *)
(* sets the speed again.  The flag of it2play's and of ft2play's loops is  *)
(* left, of ft2play's state the loops of the channels and dump_Flag, too,  *)
(* and of st3play's all but the order and the break.                       *)
It2Restart(r) == It2Start(subsongs[subsong], r.flag)
Ft2Restart(r) ==
  [Ft2Start(subsongs[subsong], r.flag)
     EXCEPT !.speed = r.speed, !.lrow = r.lrow, !.lcnt = r.lcnt,
            !.dump = r.dump]
St3Restart(r) == [St3Goto(r, subsongs[subsong]) EXCEPT !.stop = FALSE]

Restarted(s) ==
  [r |-> CASE player = "it2play" -> It2Restart(s.r)
           [] player = "ft2play" -> Ft2Restart(s.r)
           [] player = "st3play" -> St3Restart(s.r),
   seen |-> {}, end |-> ""]

(* ... the same on a player that has just loaded the module *)
Replayed ==
  [Fresh(subsong, FALSE) EXCEPT !.r =
     IF player = "st3play" THEN St3Restart(St3Load) ELSE @]

(* What a restart may leave behind for the rows that it plays: a change of *)
(* speed, ft2play's pattern loop (its row, after E60, or its count), and of*)
(* st3play's the count and a jump or a loop not taken yet.                 *)
LeavesRows(r) ==
  CASE player = "it2play" -> FALSE
    [] player = "ft2play" -> r.lrow # 0 \/ r.lcnt # 0 \/ r.speed # song.speed
    [] player = "st3play" -> r.lcnt # 0 \/ r.jord # None \/ r.jrow # None
                               \/ r.speed # song.speed

(* ... and for the end: the flag of a pattern loop, and dump_Flag, which   *)
(* ft2play sets at the top of the last order.                              *)
LeavesEnd(r) ==
  CASE player = "it2play" -> r.flag
    [] player = "ft2play" -> r.flag \/ r.dump
    [] player = "st3play" -> FALSE
------------------------------------------------------------------------------
Idle == [r |-> None, seen |-> {}, end |-> ""]

Init ==
  /\ InitWalk
  /\ subsong = 0
  /\ now = Idle /\ twin = Idle
  /\ heard = {}
  /\ restarts = 0
  /\ stale = [rows |-> FALSE, end |-> FALSE]

WalkStep == Walk /\ UNCHANGED playVars

Play(s) ==
  /\ phase = "walked" /\ phase' = "playing"
  /\ subsong' = s
  /\ \E left \in BOOLEAN :
       /\ player = "st3play" => ~left
       /\ now' = Fresh(s, left) /\ twin' = now'
  /\ UNCHANGED <<songVars, walkVars, heard, restarts, stale>>

(* a buffer in which n ticks start *)
RenderTicks(n) ==
  /\ phase = "playing"
  /\ \E r \in {Ticks(now.r, n)}, t \in {Ticks(twin.r, n)} :
       now' = Render(now, r) /\ twin' = Render(twin, t)
  /\ heard' = heard \cup Played(now.r, n)
  /\ UNCHANGED <<songVars, phase, walkVars, subsong, restarts, stale>>

Restart ==
  /\ phase = "playing" /\ restarts < MaxRestarts
  /\ now' = Restarted(now)
  /\ twin' = Replayed
  /\ heard' = {}
  /\ restarts' = restarts + 1
  /\ stale' = [rows |-> stale.rows \/ LeavesRows(now.r),
               end  |-> stale.end \/ LeavesEnd(now.r)]
  /\ UNCHANGED <<songVars, phase, walkVars, subsong>>

Next == \/ WalkStep \/ Restart
        \/ \E n \in Mixed : RenderTicks(n)
        \/ \E s \in 1 .. Len(subsongs) : Play(s)

Spec == Init /\ [][Next]_vars
------------------------------------------------------------------------------
(* Each subsong but the first starts at an order with a pattern the walk   *)
(* had not reached before, and no two subsongs at the same.                *)
SubsongsAscend ==
  \A i \in 2 .. Len(subsongs) :
    subsongs[i] > subsongs[i - 1] /\ Ord(subsongs[i]) <= PatNum

(* What the walk reads lies inside of the order list and of the pattern, as*)
(* ft2play's posJump asserts.  With no order left it ends without reading. *)
WalkInBounds ==
  phase = "walk" /\ notseen # {} =>
    /\ songPos < OrdNum
    /\ ~Separates(Ord(songPos)) =>
         pattPos = 0 \/ pattPos < Rows(Ord(songPos))

(* The rows of an order that jump to a row of it.                          *)
Inside(o) == {row \in 0 .. Rows(Ord(o)) - 1 : PosJump(Ord(o), row)[1] = o}

(* Two rows of one order that jump to other rows of it. *)
Ping ==
  \E o \in 0 .. OrdNum - 1 : HasData(Ord(o)) /\ Cardinality(Inside(o)) > 1

(* the rows of the longest pattern, and the separators from an order on *)
Longest == Max({MaxRows} \cup {Rows(Ord(o)) : o \in 0 .. OrdNum - 1})
Separators(i) == Cardinality({o \in i .. OrdNum - 1 : Separates(Ord(o))})

(* The turns the walk takes at most until it reaches another order.        *)
Turns == 2 + (2 * Longest) + Separators(0)

(* The walk ends, in at most two steps for each row and one for each       *)
(* separator of every order, as the separators that follow each other are  *)
(* walked again from each order that jumps in front of those walked before.*)
(* (Two rows that jump back and forth inside one order, each with its own  *)
(* row to break to, keep it busy for ever.)                                *)
WalkIsShort == ~Ping => steps <= 1 + (OrdNum * Turns)

(* Every row lasts a buffer or longer, so that render() sees each.         *)
Speeds == {song.speed} \cup
  UNION {{Cell(p, row).speed : row \in 0 .. Rows(p) - 1} :
            p \in 0 .. PatNum - 1}
RowsLast == \A n \in Mixed, v \in Speeds \ {None, 0} : n <= v

(* When render() reports the end because it is where it has been before,   *)
(* all that follows has been heard.  (st3play's np_ord >= ordNum, true as  *)
(* the last order starts, and it2play's hack report ends that are none.    *)
(* Where rows are shorter than a buffer, above tempo 125 at a low speed,   *)
(* it2play and st3play may miss the row of a pattern loop, and take what   *)
(* the loop repeats for the end.)                                          *)
EndIsTheEnd ==
  [][RowsLast /\ now.end = "seen" => heard' \subseteq heard]_vars

(* A restarted song plays the rows, tick by tick, that it plays when it has*)
(* just been loaded, unless a restart has found one of what LeavesRows     *)
(* lists; and it is found to end when that one is, unless a restart has    *)
(* found one of what LeavesEnd lists, either.  (Songs with rows shorter    *)
(* than a buffer are left out of the end, and so are those that have no    *)
(* pattern to start at.)                                                   *)
PlaysAlike ==
  \A n \in Mixed : \A i \in 0 .. n - 1 :
    Plays(Ticks(now.r, i)) = Plays(Ticks(twin.r, i))

Starts ==
  \E k \in subsongs[subsong] .. OrdNum :
    /\ Ord(k) \notin {SEP, END}
    /\ \A l \in subsongs[subsong] .. k - 1 : Ord(l) = SEP

RestartReplays ==
  phase = "playing" /\ Starts /\ ~stale.rows =>
    /\ PlaysAlike
    /\ RowsLast /\ ~stale.end => now.end = twin.end

(* "Loop detection state must not survive a seek/restart"                  *)
(* (player_st3play.cc): once a song is restarted, no pattern loop is       *)
(* detected any more.  It is: patloopcount is left as it was.              *)
LoopsDoNotSurvive ==
  [][Restart /\ player = "st3play" => ~JumpLoop(now.r)']_vars
==============================================================================
