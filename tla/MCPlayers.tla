------------------------------ MODULE MCPlayers ------------------------------
(* A small instance of the players for TLC. *)
EXTENDS Players

(* A file only it2play takes, and one that it2play and libxmp both take.   *)
MCCandidates == {<<"it2play">>, <<"it2play", "libxmp">>}
==============================================================================
