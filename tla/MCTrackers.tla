----------------------------- MODULE MCTrackers ------------------------------
(***************************************************************************)
(* Songs of one or two patterns of three rows at most, every byte of two   *)
(* digits to base 4 (to base 2 in BCD), with every jump, break and pattern *)
(* loop in one or two of the rows, over order lists with and without an    *)
(* end, a separator, a pattern twice, a pattern that is not there.  In a   *)
(* few songs a loop and a jump share a row, the speed changes, the song    *)
(* repeats from its second order, and a buffer is shorter or longer than a *)
(* tick, or longer than a row.                                             *)
(***************************************************************************)
EXTENDS Trackers

MCRows == 3
MCSteps == 80

BreakLast == <<"loop", "b", "c">>
JumpLast  == <<"loop", "c", "b">>
LoopLast  == <<"b", "c", "loop">>
Plain == [b |-> None, c |-> None, loop |-> None, speed |-> None,
          order |-> BreakLast]

Jumps == {[Plain EXCEPT !.b = b, !.c = c] :
            b \in {None, 0, 1, 2}, c \in {None, 1, 4}}
Loops == {[Plain EXCEPT !.loop = l] : l \in {0, 1}}
BreakFirst == {[Plain EXCEPT !.b = b, !.c = 1, !.order = JumpLast] :
                 b \in {0, 1}}
Cells == (Jumps \cup Loops \cup BreakFirst) \ {Plain}
Mixes == {[Plain EXCEPT !.loop = 1, !.b = b, !.c = c, !.order = o] :
            b \in {None, 1}, c \in {None, 1}, o \in {BreakLast, LoopLast}}
Speeds3 == {[Plain EXCEPT !.speed = v, !.loop = l] :
              v \in {1, 3}, l \in {None, 0}}

NoEffects == [r \in 0 .. 2 |-> Plain]
OneOf(rows) == {[NoEffects EXCEPT ![r] = c] : r \in rows, c \in Cells}
One == OneOf(0 .. 2)
Two == {[p EXCEPT ![r] = c] : p \in One, r \in {0, 2}, c \in Cells}
Mixed2 == {[NoEffects EXCEPT ![0] = c, ![r] = d] :
             r \in {1, 2}, c \in Loops \cup Speeds3, d \in Mixes \cup Speeds3}

OrdersOf1 == {<<0, 0>>, <<0, 1, END>>, <<0, SEP, 0, END>>, <<END, 0>>}
OrdersOf2 == {<<0, 1>>, <<0, 1, END>>, <<0, 1, 0>>, <<0, 1, SEP, 2, END>>,
              <<1, END, 0>>}

SongOf1(o, c, s, t) ==
  [orders |-> o, patnum |-> 1, rows |-> [p \in {0} |-> 3],
   cells |-> [p \in {0} |-> c], speed |-> s, repeat |-> 0, ticks |-> t]

SongOf2(o, c, d, rep) ==
  [orders |-> o, patnum |-> 2, rows |-> [p \in {0, 1} |-> 3 - p],
   cells |-> [p \in {0, 1} |-> IF p = 0 THEN c ELSE d], speed |-> 2,
   repeat |-> rep, ticks |-> {1}]

MCSongs ==
  {SongOf1(o, c, 2, {1}) : o \in OrdersOf1, c \in Two}
  \cup {SongOf1(o, c, 1, {1}) : o \in {<<0, 0>>, <<0, 1, END>>}, c \in Two}
  \cup {SongOf2(o, c, d, 0) : o \in OrdersOf2, c \in One,
                              d \in OneOf({1}) \cup {NoEffects}}
  \cup {SongOf2(<<0, 1, 0>>, c, NoEffects, rep) : c \in One, rep \in 1 .. 3}
  \cup {SongOf1(o, c, 2, t) : o \in {<<0, 0>>, <<0, 1, END>>}, c \in Mixed2,
                              t \in {{1}, {0, 1}, {1, 2}}}
  \cup {SongOf1(<<0, 0>>, c, 3, t) : c \in One, t \in {{2, 3}, {0, 1}}}
  \cup {SongOf1(o, c, 1, {2, 3}) : o \in {<<0, 0>>, <<SEP, 0>>}, c \in One}
  \cup {SongOf1(<<SEP, 0>>, c, 2, {1}) : c \in One}
==============================================================================
