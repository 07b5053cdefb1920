------------------------------ MODULE MCPrecalc ------------------------------
(***************************************************************************)
(* Small instances of the precalculation.  A second has 6 ms and 54        *)
(* frames, so that a ms has four and a half samples, about as at 8062 Hz,  *)
(* and the margin is the same 3.                                           *)
(***************************************************************************)
EXTENDS Precalc

(* Levels: nothing, a sound too low to survive the smoothing, a low        *)
(* volume, and the two halves of a loud wave.                              *)
Faint == 1
Low   == 3 * Scale
High  == 40 * Scale

Run(v, n) == [i \in 1 .. n |-> v]

(* Songs that end: begin with something, go on loud or not, and fade out.  *)
MCEnding ==
  {Run(a, i) \o Run(b, j) \o Run(c, k) :
     a \in {0, High}, i \in {0, 5, 30}, b \in {Faint, -High}, j \in {0, 12, 45},
     c \in {0, Low}, k \in {0, 3, 22, 70}}

(* Songs that outlast the limit: loud, then quiet for shorter or for longer *)
(* than it takes, then loud again or not.                                  *)
MCEndless ==
  {Run(High, i) \o Run(-High, j) \o Run(c, k)
     \o Run(d, PrecalcTimeout * Freq + 8 - i - j - k) :
     i \in {0, 9, 33}, j \in {0, 24}, c \in {0, Low}, k \in {30, 52, 66},
     d \in {0, Low, High}}

MCSounds == MCEnding \cup MCEndless
==============================================================================
