----------------------------- MODULE TableSearch ------------------------------
(***************************************************************************)
(* The search of songdb.cc in its sorted tables (_hashidx and _find): the  *)
(* place of a key is guessed from its size, and the search walks from      *)
(* there to it or past where it ought to be.                               *)
(***************************************************************************)
EXTENDS Integers

NotFound == -1      \* HASH_NOT_FOUND

(* The guess, for one of size keys spread evenly over 0 .. range - 1.  The *)
(* code divides and multiplies in floating point.                          *)
Guess(wanted, size, range) == (wanted * size) \div range

(* where the way down, and the way up, stops *)
StopsDown(key, from, wanted) ==
  CHOOSE i \in 0 .. from : /\ \A j \in i + 1 .. from : key[j] > wanted
                           /\ i = 0 \/ key[i] <= wanted

StopsUp(key, from, top, wanted) ==
  CHOOSE i \in from .. top : /\ \A j \in from .. i - 1 : key[j] < wanted
                             /\ i = top \/ key[i] >= wanted

(* Mutant of Walk: the way down ends one place above the first.            *)
WalkAboveFirst(key, from, top, wanted) ==
  LET stop == IF key[from] > wanted
              THEN LET i == StopsDown(key, from, wanted)
                   IN  IF i = 0 /\ from > 0 THEN 1 ELSE i
              ELSE StopsUp(key, from, top, wanted)
  IN  IF key[stop] = wanted THEN stop ELSE NotFound

Walk(key, from, top, wanted) ==
  LET stop == IF key[from] > wanted THEN StopsDown(key, from, wanted)
                                    ELSE StopsUp(key, from, top, wanted)
  IN  IF key[stop] = wanted THEN stop ELSE NotFound
==============================================================================
