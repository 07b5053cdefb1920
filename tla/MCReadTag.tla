----------------------------- MODULE MCReadTag -------------------------------
(* Small instances of read_tag for TLC. *)
EXTENDS AudaciousPlugin, TLC

Symmetry == Permutations(Threads)

Plain(n, all, bad) ==
  [id |-> n, range |-> all, broken |-> bad, failing |-> {}, db |-> {},
   dups |-> {}, dbmod |-> FALSE, listed |-> FALSE, single |-> TRUE]

(* A file of one subsong, one of two that several players take, and one    *)
(* that the read-only part knows; and one where it marks a duplicate.      *)
Several == [Plain(2, {1, 2}, {}) EXCEPT !.single = FALSE, !.failing = {2}]
InDb    == [Plain(3, {1, 2}, {1}) EXCEPT !.db = {1, 2}, !.dbmod = TRUE]
WithDup == [Plain(4, {1, 2}, {}) EXCEPT !.db = {1, 2}, !.dups = {2}]
MCFiles == {Plain(1, {0}, {}), Several, InDb, WithDup}

MCSingle == {Plain(1, {0}, {})}
==============================================================================
