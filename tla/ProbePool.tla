------------------------------ MODULE ProbePool ------------------------------
(***************************************************************************)
(* What the pool of UADE probe contexts promises to its callers: a caller  *)
(* holds at most one probe, and a probe is held by at most one caller.     *)
(* How probes are found, built, stopped and handed back is the business of *)
(* module UadeProbes, which implements this one.                           *)
(***************************************************************************)
CONSTANTS
  Threads,   \* the callers
  Slots      \* the probe contexts

VARIABLE
  held       \* the pairs <<thread, slot>> of the probes in use

TypeOK == held \subseteq Threads \X Slots

Init == held = {}

Acquire(t, i) ==
  /\ \A p \in held : p[1] # t /\ p[2] # i
  /\ held' = held \cup {<<t, i>>}

Release(t, i) ==
  /\ <<t, i>> \in held
  /\ held' = held \ {<<t, i>>}

Next == \E t \in Threads, i \in Slots : Acquire(t, i) \/ Release(t, i)

Spec == Init /\ [][Next]_held
==============================================================================
