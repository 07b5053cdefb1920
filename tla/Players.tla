------------------------------- MODULE Players -------------------------------
(***************************************************************************)
(* The dispatch of player.cc to the players, their initialization on first *)
(* use, and the locks that keep the calls of several threads apart inside  *)
(* of them.                                                                *)
(*                                                                         *)
(* it2play, ft2play, st3play, st23play, noisetrekker2 and protrekkr1/2     *)
(* wrap replayers whose state is global.  Each is built twice (with        *)
(* PLAYER_PROBE, which the plugins require): one instance plays for the    *)
(* host, the other one is shared by parse and precalculation of all        *)
(* threads under probe_guard, from the constructor of a context to the end *)
(* of its destructor.  The other players keep their state in the context.  *)
(*                                                                         *)
(* The host is external: it scans files on any number of threads, plays    *)
(* one song at a time, and shuts the plugin down when no call runs.        *)
(***************************************************************************)
EXTENDS Integers, Sequences, FiniteSets

CONSTANTS
  Threads,        \* the host's threads
  Playback,       \* the one that plays
  NoThread,       \* owner of a free mutex
  Players,        \* all players
  Guarded,        \* those with a global replayer and a probe_guard
  Eager,          \* those player::init initializes (uade)
  Candidates,     \* what check may return: sequences of players
  MaxCalls,       \* bound: calls per thread
  MaxLives        \* bound: times the plugin is started

ASSUME ThreadsAssumption == Playback \in Threads /\ NoThread \notin Threads
ASSUME PlayersAssumption ==
  /\ Players # {}
  /\ Guarded \subseteq Players /\ Eager \subseteq Players \ Guarded
  /\ Candidates \subseteq Seq(Players) \ {<<>>}
ASSUME BoundsAssumption  == MaxCalls \in Nat /\ MaxLives \in Nat

VARIABLES
  inOrder,       \* stores are seen at once and in order (the build decides)
  up, lives,     \* whether the plugin is loaded; how often it has been
  initialized,   \* by player
  built,         \* by player: how often init() has taken effect
  init_guard,    \* who holds it
  probe_guard,   \* by player: who holds it
  loaded,        \* the replayers that hold a module
  pc,            \* where each thread is
  phase,         \* what for: try, measure, measuring, play
  player,        \* the player it calls
  rest,          \* the candidates it has not tried yet
  front,         \* the first candidate
  ok,            \* the result of the call of the player
  stores,        \* the stores of INIT_PLAYER still to become visible
  calls          \* number of calls

lifeVars == <<inOrder, up, lives>>
initVars == <<initialized, built, init_guard, stores>>
callVars == <<phase, player, rest, front, calls>>
vars     == <<lifeVars, initVars, callVars, probe_guard, loaded, pc, ok>>

Goto(t, from, to) == pc[t] = from /\ pc' = [pc EXCEPT ![t] = to]
Quiet == \A t \in Threads : pc[t] = "idle"

Playing == {"measuring", "play"}

(* config.probe: everything but playback works on the probe instance *)
Probing(t) == phase[t] # "play"
Guards(t)  == player[t] \in Guarded /\ Probing(t)

(* Mutant of Replayer: a build without PLAYER_PROBE, where probe is play.  *)
ReplayerShared(t) ==
  IF player[t] \in Guarded THEN <<player[t], "play">> ELSE <<player[t], t>>

(* the replayer a context works on: a global one, or the context's own *)
Replayer(t) ==
  IF player[t] \in Guarded
  THEN <<player[t], IF Probing(t) THEN "probe" ELSE "play">>
  ELSE <<player[t], t>>

Replayers == Guarded \X {"probe", "play"} \cup (Players \ Guarded) \X Threads

Init ==
  /\ inOrder \in BOOLEAN
  /\ up = FALSE /\ lives = 0
  /\ initialized = [p \in Players |-> FALSE]
  /\ built = [p \in Players |-> 0]
  /\ init_guard = NoThread
  /\ probe_guard = [p \in Guarded |-> NoThread]
  /\ loaded = {}
  /\ pc = [t \in Threads |-> "idle"]
  /\ phase = [t \in Threads |-> "try"]
  /\ player = [t \in Threads |-> CHOOSE p \in Players : TRUE]
  /\ rest = [t \in Threads |-> <<>>]
  /\ front = player
  /\ ok = [t \in Threads |-> FALSE]
  /\ stores = [t \in Threads |-> {}]
  /\ calls = [t \in Threads |-> 0]
------------------------------------------------------------------------------
(* The plugin is loaded: player::init *)
Startup ==
  /\ ~up /\ lives < MaxLives
  /\ up' = TRUE /\ lives' = lives + 1
  /\ initialized' = [p \in Players |-> p \in Eager \/ initialized[p]]
  /\ built' = [p \in Players |-> built[p] + IF p \in Eager THEN 1 ELSE 0]
  /\ UNCHANGED <<inOrder, init_guard, stores, callVars, probe_guard, loaded,
                 pc, ok>>

(* ... and unloaded: player::shutdown *)
Shutdown ==
  /\ up /\ Quiet
  /\ up' = FALSE
  /\ built' = [p \in Players |-> IF initialized[p] THEN 0 ELSE built[p]]
  /\ initialized' = [p \in Players |-> FALSE]
  /\ loaded' = {r \in loaded : r[1] \notin Guarded \/ ~initialized[r[1]]}
  /\ UNCHANGED <<inOrder, lives, init_guard, stores, callVars, probe_guard, pc,
                 ok>>
------------------------------------------------------------------------------
(* The calls of the plugin *)

Begin(t, c, what) ==
  /\ up /\ calls[t] < MaxCalls
  /\ Goto(t, "idle", "dispatch")
  /\ calls' = [calls EXCEPT ![t] = @ + 1]
  /\ phase' = [phase EXCEPT ![t] = what]
  /\ player' = [player EXCEPT ![t] = Head(c)]
  /\ front' = [front EXCEPT ![t] = Head(c)]
  /\ rest' = [rest EXCEPT ![t] = Tail(c)]
  /\ ok' = [ok EXCEPT ![t] = FALSE]
  /\ UNCHANGED <<lifeVars, initVars, probe_guard, loaded>>

(* read_tag tries the players one by one, or has the song database tell *)
ReadTag(t) ==
  /\ t # Playback
  /\ \E c \in Candidates, what \in {"try", "measure"} :
       /\ what = "measure" => Len(c) = 1
       /\ Begin(t, c, what)

(* play tries them only if there is a choice *)
Play ==
  \E c \in Candidates :
    Begin(Playback, c, IF Len(c) > 1 THEN "try" ELSE "play")

(* Between two calls of a player: the next candidate, the next phase or    *)
(* the end of the plugin's call.                                           *)
NextCandidate(t) ==
  /\ phase[t] = "try" /\ ~ok[t] /\ rest[t] # <<>>
  /\ Goto(t, "result", "dispatch")
  /\ player' = [player EXCEPT ![t] = Head(rest[t])]
  /\ rest' = [rest EXCEPT ![t] = Tail(@)]
  /\ UNCHANGED phase

Proceed(t, p, what) ==
  /\ Goto(t, "result", "dispatch")
  /\ phase' = [phase EXCEPT ![t] = what]
  /\ player' = [player EXCEPT ![t] = p]
  /\ UNCHANGED rest

Return(t) ==
  /\ Goto(t, "result", "idle")
  /\ UNCHANGED <<phase, player, rest>>

Result(t) ==
  /\ \/ NextCandidate(t)
     \/ /\ phase[t] = "try" /\ t = Playback /\ (ok[t] \/ rest[t] = <<>>)
        /\ Proceed(t, IF ok[t] THEN player[t] ELSE front[t], "play")
     \/ /\ phase[t] = "try" /\ t # Playback /\ ok[t]
        /\ Proceed(t, player[t], "measure")
     \/ /\ phase[t] = "measure" /\ ok[t]
        /\ Proceed(t, player[t], "measuring")
     \/ /\ \/ phase[t] = "try" /\ t # Playback /\ (ok[t] \/ rest[t] = <<>>)
           \/ phase[t] = "measure" /\ ~ok[t]
           \/ phase[t] \in Playing
        /\ Return(t)
  /\ ok' = [ok EXCEPT ![t] = FALSE]
  /\ UNCHANGED <<lifeVars, initVars, front, calls, probe_guard, loaded>>
------------------------------------------------------------------------------
(* INIT_PLAYER *)

(* The first test reads the flag without the lock: the value may be old.   *)
Test(t) ==
  /\ \/ initialized[player[t]] /\ Goto(t, "dispatch", "create")
     \/ /\ initialized[player[t]] => ~inOrder
        /\ Goto(t, "dispatch", "lockinit")
  /\ UNCHANGED <<lifeVars, initVars, callVars, probe_guard, loaded, ok>>

LockInit(t) ==
  /\ init_guard = NoThread
  /\ Goto(t, "lockinit", "retest")
  /\ init_guard' = t
  /\ UNCHANGED <<lifeVars, initialized, built, stores, callVars, probe_guard,
                 loaded, ok>>

(* Mutant of Retest: the flag is not tested again under the lock.          *)
RetestNot(t) ==
  /\ Goto(t, "retest", "init")
  /\ stores' = [stores EXCEPT ![t] = {"built", "initialized"}]
  /\ UNCHANGED <<lifeVars, initialized, built, init_guard, callVars,
                 probe_guard, loaded, ok>>

Retest(t) ==
  /\ Goto(t, "retest", IF initialized[player[t]] THEN "unlockinit" ELSE "init")
  /\ stores' = [stores EXCEPT ![t] = IF initialized[player[t]] THEN {}
                                     ELSE {"built", "initialized"}]
  /\ UNCHANGED <<lifeVars, initialized, built, init_guard, callVars,
                 probe_guard, loaded, ok>>

(* Mutant of Store: the flag is set before init() is called.               *)
StoreFlagFirst(t, what) ==
  /\ what \in stores[t]
  /\ what = "built" => "initialized" \notin stores[t]
  /\ stores' = [stores EXCEPT ![t] = @ \ {what}]
  /\ Goto(t, "init", IF stores[t] = {what} THEN "unlockinit" ELSE "init")
  /\ IF what = "built"
     THEN /\ built' = [built EXCEPT ![player[t]] = @ + 1]
          /\ UNCHANGED initialized
     ELSE /\ initialized' = [initialized EXCEPT ![player[t]] = TRUE]
          /\ UNCHANGED built
  /\ UNCHANGED <<lifeVars, init_guard, callVars, probe_guard, loaded, ok>>

(* init() and then the flag.  The flag is no atomic and is read without    *)
(* the lock, so another thread may see it before what init() has done.     *)
Store(t, what) ==
  /\ what \in stores[t]
  /\ inOrder /\ what = "initialized" => "built" \notin stores[t]
  /\ stores' = [stores EXCEPT ![t] = @ \ {what}]
  /\ Goto(t, "init", IF stores[t] = {what} THEN "unlockinit" ELSE "init")
  /\ IF what = "built"
     THEN /\ built' = [built EXCEPT ![player[t]] = @ + 1]
          /\ UNCHANGED initialized
     ELSE /\ initialized' = [initialized EXCEPT ![player[t]] = TRUE]
          /\ UNCHANGED built
  /\ UNCHANGED <<lifeVars, init_guard, callVars, probe_guard, loaded, ok>>

UnlockInit(t) ==
  /\ Goto(t, "unlockinit", "create")
  /\ init_guard' = NoThread
  /\ UNCHANGED <<lifeVars, initialized, built, stores, callVars, probe_guard,
                 loaded, ok>>
------------------------------------------------------------------------------
(* parse, or play and stop, of a player *)

(* Some look at the file before they make a context.                       *)
Enter(t) ==
  /\ \E to \in {"guard", "result"} : Goto(t, "create", to)
  /\ UNCHANGED <<lifeVars, initVars, callVars, probe_guard, loaded, ok>>

(* the context's constructor *)
Create(t) ==
  /\ Goto(t, "guard", "load")
  /\ IF Guards(t)
     THEN /\ probe_guard[player[t]] = NoThread
          /\ probe_guard' = [probe_guard EXCEPT ![player[t]] = t]
     ELSE UNCHANGED probe_guard
  /\ UNCHANGED <<lifeVars, initVars, callVars, loaded, ok>>

(* A module that loads is parsed or played; parse deletes its context.     *)
Load(t) ==
  /\ Goto(t, "load", IF phase[t] \in Playing THEN "playing" ELSE "delete")
  /\ loaded' = loaded \cup {Replayer(t)}
  /\ ok' = [ok EXCEPT ![t] = TRUE]
  /\ UNCHANGED <<lifeVars, initVars, callVars, probe_guard>>

(* Mutant of LoadFails: the context is not deleted.                        *)
LoadFailsLeaks(t) ==
  /\ Goto(t, "load", "result")
  /\ UNCHANGED <<lifeVars, initVars, callVars, probe_guard, loaded, ok>>

LoadFails(t) ==
  /\ Goto(t, "load", "delete")
  /\ \/ UNCHANGED loaded
     \/ loaded' = loaded \cup {Replayer(t)}
  /\ UNCHANGED <<lifeVars, initVars, callVars, probe_guard, ok>>

(* playback_loop returns, and the plugin calls stop *)
Stop(t) ==
  /\ Goto(t, "playing", "delete")
  /\ UNCHANGED <<lifeVars, initVars, callVars, probe_guard, loaded, ok>>

(* Mutant of Delete: the module is only freed after playing.               *)
DeletePlayed(t) ==
  /\ Goto(t, "delete", "unguard")
  /\ loaded' = IF phase[t] \in Playing THEN loaded \ {Replayer(t)} ELSE loaded
  /\ UNCHANGED <<lifeVars, initVars, callVars, probe_guard, ok>>

(* the context's destructor frees the replayer, then the guard *)
Delete(t) ==
  /\ Goto(t, "delete", "unguard")
  /\ loaded' = loaded \ {Replayer(t)}
  /\ UNCHANGED <<lifeVars, initVars, callVars, probe_guard, ok>>

Unguard(t) ==
  /\ Goto(t, "unguard", "result")
  /\ IF Guards(t)
     THEN probe_guard' = [probe_guard EXCEPT ![player[t]] = NoThread]
     ELSE UNCHANGED probe_guard
  /\ UNCHANGED <<lifeVars, initVars, callVars, loaded, ok>>
------------------------------------------------------------------------------
Step(t) ==
  \/ Result(t)
  \/ Test(t) \/ LockInit(t) \/ Retest(t) \/ UnlockInit(t)
  \/ \E what \in {"built", "initialized"} : Store(t, what)
  \/ Enter(t) \/ Create(t) \/ Load(t) \/ LoadFails(t)
  \/ Stop(t) \/ Delete(t) \/ Unguard(t)

Next ==
  \/ Startup \/ Shutdown
  \/ Play
  \/ \E t \in Threads : ReadTag(t) \/ Step(t)

Spec == Init /\ [][Next]_vars

(* A thread inside a call keeps running; songs that are measured or played *)
(* end or are stopped.                                                     *)
FairSpec == Spec /\ \A t \in Threads : WF_vars(Step(t))
------------------------------------------------------------------------------
Pcs == {"idle", "dispatch", "lockinit", "retest", "init", "unlockinit",
        "create", "guard", "load", "playing", "delete", "unguard", "result"}

Using == {"load", "playing", "delete"}

TypeOK ==
  /\ inOrder \in BOOLEAN /\ up \in BOOLEAN /\ lives \in Nat
  /\ initialized \in [Players -> BOOLEAN]
  /\ built \in [Players -> Nat]
  /\ init_guard \in Threads \cup {NoThread}
  /\ probe_guard \in [Guarded -> Threads \cup {NoThread}]
  /\ loaded \subseteq Replayers
  /\ pc \in [Threads -> Pcs]
  /\ phase \in [Threads -> {"try", "measure", "measuring", "play"}]
  /\ player \in [Threads -> Players]
  /\ rest \in [Threads -> Seq(Players)]
  /\ front \in [Threads -> Players]
  /\ ok \in [Threads -> BOOLEAN]
  /\ stores \in [Threads -> SUBSET {"built", "initialized"}]
  /\ calls \in [Threads -> Nat]

(* No two threads work on the same replayer, whatever they call it for:    *)
(* scanning the songs of a format does not disturb the one that plays.     *)
ReplayerExclusive ==
  \A t, u \in Threads :
    pc[t] \in Using /\ pc[u] \in Using /\ Replayer(t) = Replayer(u) => t = u

(* A new context finds no module loaded: the assert(!moduleLoaded()) of    *)
(* parse and play holds, whichever way the last user went.                 *)
LoadsClean ==
  \A t \in Threads : pc[t] = "load" => Replayer(t) \notin loaded

(* A player is initialized at most once in a life of the plugin, however   *)
(* many threads meet it first (init allocates what a second init would     *)
(* leak, and uade's would forget the probes in use).                       *)
InitOnce == \A p \in Players : built[p] <= 1

(* No thread uses a player before its init() has been done, stop's         *)
(* assert(initialized[..]) holds, and uade's table of extensions is there  *)
(* when check runs - provided that stores are seen in order.               *)
InitBeforeUse ==
  inOrder => \A t \in Threads :
    /\ pc[t] \in {"create", "guard"} \cup Using => built[player[t]] > 0
    /\ pc[t] \in Using => initialized[player[t]]
    /\ pc[t] # "idle" => \A p \in Eager : built[p] > 0

(* What INIT_PLAYER is for.                                                *)
InitOnceBeforeUse == InitOnce /\ InitBeforeUse

(* Every call ends: a guard held from play to stop is given back on every  *)
(* path, and no two threads wait for each other's locks.                   *)
CallsEnd == \A t \in Threads : pc[t] # "idle" ~> pc[t] = "idle"

(* The global replayers and the contexts are a pool with one user each.    *)
Held ==
  {x \in Threads \X Replayers : pc[x[1]] \in Using /\ x[2] = Replayer(x[1])}

Pool == INSTANCE ProbePool WITH Slots <- Replayers, held <- Held

ImplementsPool == Pool!Spec
==============================================================================
