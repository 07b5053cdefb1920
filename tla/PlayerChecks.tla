---------------------------- MODULE PlayerChecks -----------------------------
(***************************************************************************)
(* check, parse and play of player.cc: which players a module file is      *)
(* given to.                                                               *)
(*                                                                         *)
(* Of a file only that is known which tells these functions apart: whether *)
(* it is too small to have a magic, whether it must be converted first     *)
(* (MED4, which is then uade's) and can be, and which players claim it by  *)
(* its name and its first bytes, parse it and play it.                     *)
(***************************************************************************)
EXTENDS Integers, Sequences

CONSTANT PLAYERS   \* the players built in, in the order they are asked

Players == {PLAYERS[i] : i \in DOMAIN PLAYERS}

ASSUME PlayersAreASequence == PLAYERS \in Seq(STRING)
ASSUME UadeIsBuilt == "uade" \in Players

ModuleFile ==
  [small  : BOOLEAN,
   packed : {"no", "good", "bad"},   \* needs_conversion, and how it ends
   claims : SUBSET Players,          \* is_our_file
   parses : SUBSET Players,
   plays  : SUBSET Players]

(* check: the players that claim a file *)
check(f) ==
  IF f.small THEN {} ELSE IF f.packed # "no" THEN {"uade"} ELSE f.claims

(* parse and play, of a player that is given *)
Opens(f)    == ~f.small /\ f.packed # "bad"
parse(f, p) == Opens(f) /\ p \in f.parses
play(f, p)  == Opens(f) /\ p \in f.plays

(* the one of some players that is asked first *)
FirstOf(S) ==
  PLAYERS[CHOOSE i \in DOMAIN PLAYERS :
            PLAYERS[i] \in S /\ \A j \in 1 .. i - 1 : PLAYERS[j] \notin S]

(* The plugins' loop over what check returns: the first that can parse it. *)
FirstThatParses(f) ==
  LET able == {p \in check(f) : parse(f, p)}
  IN  IF able = {} THEN "NONE" ELSE FirstOf(able)
==============================================================================
