--------------------------- MODULE Players_proofs ----------------------------
(***************************************************************************)
(* Safety of the players for every number of threads and players, and for  *)
(* every order in which the stores of INIT_PLAYER become visible.          *)
(***************************************************************************)
EXTENDS Players, TLAPS

(* A thread in the critical section of INIT_PLAYER holds init_guard.       *)
InitGuardInv ==
  \A t \in Threads :
    pc[t] \in {"retest", "init", "unlockinit"} => init_guard = t

(* A context of a guarded probe instance holds the guard.                  *)
ProbeGuardInv ==
  \A t \in Threads :
    Guards(t) /\ pc[t] \in Using \cup {"unguard"} => probe_guard[player[t]] = t

(* Only the playback thread leaves the probe instances.                    *)
PlaybackInv == \A t \in Threads : phase[t] = "play" => t = Playback

(* Calls run only while the plugin is loaded.                              *)
LifeInv ==
  /\ \A t \in Threads : pc[t] # "idle" => up
  /\ ~up => \A p \in Players : built[p] = 0 /\ ~initialized[p]

(* The two stores of INIT_PLAYER: which of them has been made.             *)
StoresInv ==
  \A t \in Threads : pc[t] = "init" =>
    /\ stores[t] # {}
    /\ "built" \in stores[t] => built[player[t]] = 0
    /\ "initialized" \notin stores[t] => initialized[player[t]]

(* A player without its flag has not been initialized, unless some thread  *)
(* is at it.                                                               *)
FlagInv ==
  \A p \in Players : ~initialized[p] =>
    built[p] = 0 \/ \E t \in Threads : pc[t] = "init" /\ player[t] = p

(* A loaded replayer is in the hands of a thread.                          *)
LoadedInv ==
  \A r \in loaded : \E t \in Threads :
    pc[t] \in {"playing", "delete"} /\ Replayer(t) = r

(* A flag is seen up only when init() is done, if stores are seen in       *)
(* order; and whoever has got past INIT_PLAYER has seen it up.             *)
OrderInv ==
  /\ \A t \in Threads :
       /\ pc[t] = "init" /\ "built" \notin stores[t] => built[player[t]] > 0
       /\ pc[t] \in {"unlockinit", "create", "guard"} \cup Using =>
            initialized[player[t]]
  /\ \A p \in Players : inOrder /\ initialized[p] => built[p] > 0
  /\ up => \A p \in Eager : built[p] > 0

IInv ==
  /\ TypeOK
  /\ InitGuardInv
  /\ ProbeGuardInv
  /\ PlaybackInv
  /\ LifeInv
  /\ StoresInv
  /\ FlagInv
  /\ InitOnce
  /\ OrderInv
  /\ LoadedInv
------------------------------------------------------------------------------
(* A guarded instance is shared by those who hold its guard, or is the     *)
(* playback thread's; any other replayer is its thread's own.              *)
LEMMA Exclusion == IInv => ReplayerExclusive
  <1>. SUFFICES ASSUME IInv, NEW t \in Threads, NEW u \in Threads,
                       pc[t] \in Using, pc[u] \in Using,
                       Replayer(t) = Replayer(u)
                PROVE  t = u
    BY DEF ReplayerExclusive
  <1>1. player[t] = player[u]
    BY DEF Replayer
  <1>2. CASE player[t] \notin Guarded
    BY <1>1, <1>2 DEF Replayer
  <1>3. CASE player[t] \in Guarded /\ Probing(t)
    <2>1. Probing(u)
      BY <1>1, <1>3 DEF Replayer
    <2>. QED
      BY <1>1, <1>3, <2>1 DEF IInv, ProbeGuardInv, Guards
  <1>4. CASE player[t] \in Guarded /\ ~Probing(t)
    <2>1. ~Probing(u)
      BY <1>1, <1>4 DEF Replayer
    <2>. QED
      BY <1>4, <2>1 DEF Probing, IInv, PlaybackInv
  <1>. QED
    BY <1>2, <1>3, <1>4

(* The invariant holds before the plugin is loaded.                        *)
LEMMA InitIInv == Init => IInv
  <1>. SUFFICES ASSUME Init PROVE IInv
    OBVIOUS
  <1>1. (CHOOSE p \in Players : TRUE) \in Players
    BY PlayersAssumption
  <1>2. TypeOK
    <2>1. inOrder \in BOOLEAN /\ up \in BOOLEAN /\ lives \in Nat
      BY Zenon DEF Init
    <2>2. /\ initialized \in [Players -> BOOLEAN]
          /\ built \in [Players -> Nat]
          /\ init_guard \in Threads \cup {NoThread}
          /\ probe_guard \in [Guarded -> Threads \cup {NoThread}]
          /\ loaded \subseteq Replayers
      BY DEF Init
    <2>3. /\ pc \in [Threads -> Pcs]
          /\ phase \in [Threads -> {"try", "measure", "measuring", "play"}]
      BY DEF Init, Pcs
    <2>4. /\ player \in [Threads -> Players]
          /\ front \in [Threads -> Players]
          /\ rest \in [Threads -> Seq(Players)]
      BY <1>1 DEF Init
    <2>5. /\ ok \in [Threads -> BOOLEAN]
          /\ stores \in [Threads -> SUBSET {"built", "initialized"}]
          /\ calls \in [Threads -> Nat]
      BY DEF Init
    <2>. QED
      BY <2>1, <2>2, <2>3, <2>4, <2>5 DEF TypeOK
  <1>. QED
    BY <1>2 DEF Init, IInv, InitGuardInv, ProbeGuardInv, PlaybackInv, LifeInv,
       StoresInv, FlagInv, InitOnce, OrderInv, LoadedInv, Using

(* A candidate list is a list of players with a first one.                 *)
LEMMA CandidateFacts ==
  ASSUME NEW c \in Candidates
  PROVE  Head(c) \in Players /\ Tail(c) \in Seq(Players)
  BY PlayersAssumption

(* A thread's replayer is one of the replayers.                            *)
LEMMA ReplayerFacts ==
  ASSUME TypeOK, NEW t \in Threads
  PROVE  Replayer(t) \in Replayers
  BY DEF TypeOK, Replayer, Replayers, Probing

(* Every step keeps the types.                                             *)
LEMMA TypeStep == TypeOK /\ [Next]_vars => TypeOK'
  <1>. SUFFICES ASSUME TypeOK, [Next]_vars PROVE TypeOK'
    OBVIOUS
  <1>. USE DEF TypeOK, lifeVars, initVars, callVars
  <1>1. CASE Startup
    BY <1>1 DEF Startup
  <1>2. CASE Shutdown
    BY <1>2 DEF Shutdown
  <1>3. ASSUME NEW t \in Threads, NEW c \in Candidates,
               NEW what \in {"try", "measure", "play"}, Begin(t, c, what)
        PROVE  TypeOK'
    <2>1. calls' \in [Threads -> Nat] /\ pc' \in [Threads -> Pcs]
      BY <1>3 DEF Begin, Goto, Pcs
    <2>2. /\ phase' \in [Threads -> {"try", "measure", "measuring", "play"}]
          /\ ok' \in [Threads -> BOOLEAN]
      BY <1>3 DEF Begin
    <2>3. player' \in [Threads -> Players] /\ front' \in [Threads -> Players]
      BY <1>3, CandidateFacts DEF Begin
    <2>4. rest' \in [Threads -> Seq(Players)]
      BY <1>3, CandidateFacts DEF Begin
    <2>. QED
      BY <1>3, <2>1, <2>2, <2>3, <2>4 DEF Begin
  <1>4. ASSUME NEW t \in Threads, Step(t) PROVE TypeOK'
    <2>1. CASE Result(t)
      <3>1. pc' \in [Threads -> Pcs]
        BY <2>1 DEF Result, NextCandidate, Proceed, Return, Goto, Pcs
      <3>2. phase' \in [Threads -> {"try", "measure", "measuring", "play"}]
        BY <2>1 DEF Result, NextCandidate, Proceed, Return
      <3>. DEFINE typed == /\ player' \in [Threads -> Players]
                           /\ rest' \in [Threads -> Seq(Players)]
      <3>3. ASSUME NextCandidate(t) PROVE typed
        <4>1. rest[t] \in Seq(Players) /\ rest[t] # <<>>
          BY <3>3 DEF NextCandidate
        <4>2. Head(rest[t]) \in Players /\ Tail(rest[t]) \in Seq(Players)
          BY <4>1
        <4>. QED
          BY <3>3, <4>2 DEF NextCandidate
      <3>4. ASSUME NEW p \in Players, NEW what, Proceed(t, p, what)
            PROVE  typed
        BY <3>4 DEF Proceed
      <3>5. ASSUME Return(t) PROVE typed
        BY <3>5 DEF Return
      <3>6. typed
        <4>. HIDE DEF typed
        <4>1. player[t] \in Players /\ front[t] \in Players
          OBVIOUS
        <4>. QED
          BY <2>1, <3>3, <3>4, <3>5, <4>1 DEF Result
      <3>. QED
        BY <2>1, <3>1, <3>2, <3>6 DEF Result
    <2>2. CASE Test(t)
      BY <2>2 DEF Test, Goto, Pcs
    <2>3. CASE LockInit(t)
      BY <2>3 DEF LockInit, Goto, Pcs
    <2>4. CASE Retest(t)
      BY <2>4 DEF Retest, Goto, Pcs
    <2>5. CASE UnlockInit(t)
      BY <2>5 DEF UnlockInit, Goto, Pcs
    <2>6. ASSUME NEW what \in {"built", "initialized"}, Store(t, what)
          PROVE  TypeOK'
      <3>1. pc' \in [Threads -> Pcs]
        BY <2>6 DEF Store, Goto, Pcs
      <3>2. /\ built' \in [Players -> Nat]
            /\ initialized' \in [Players -> BOOLEAN]
        <4>1. CASE what = "built"
          <5>1. player[t] \in Players /\ built[player[t]] + 1 \in Nat
            OBVIOUS
          <5>. QED
            BY <2>6, <4>1, <5>1 DEF Store
        <4>2. CASE what = "initialized"
          BY <2>6, <4>2 DEF Store
        <4>. QED
          BY <4>1, <4>2
      <3>3. stores' \in [Threads -> SUBSET {"built", "initialized"}]
        BY <2>6 DEF Store
      <3>. QED
        BY <2>6, <3>1, <3>2, <3>3 DEF Store
    <2>7. CASE Enter(t)
      BY <2>7 DEF Enter, Goto, Pcs
    <2>8. CASE Create(t)
      <3>1. pc' \in [Threads -> Pcs]
        BY <2>8 DEF Create, Goto, Pcs
      <3>2. probe_guard' \in [Guarded -> Threads \cup {NoThread}]
        BY <2>8 DEF Create
      <3>. QED
        BY <2>8, <3>1, <3>2 DEF Create
    <2>9. CASE Load(t)
      BY <2>9, ReplayerFacts DEF Load, Goto, Pcs
    <2>10. CASE LoadFails(t)
      BY <2>10, ReplayerFacts DEF LoadFails, Goto, Pcs
    <2>11. CASE Stop(t)
      BY <2>11 DEF Stop, Goto, Pcs
    <2>12. CASE Delete(t)
      BY <2>12 DEF Delete, Goto, Pcs
    <2>13. CASE Unguard(t)
      BY <2>13 DEF Unguard, Goto, Pcs
    <2>. QED
      BY <1>4, <2>1, <2>2, <2>3, <2>4, <2>5, <2>6, <2>7, <2>8, <2>9, <2>10,
         <2>11, <2>12, <2>13 DEF Step
  <1>5. CASE UNCHANGED vars
    BY <1>5 DEF vars
  <1>6. CASE Play
    <2>1. PICK c \in Candidates :
            Begin(Playback, c, IF Len(c) > 1 THEN "try" ELSE "play")
      BY <1>6 DEF Play
    <2>2. (IF Len(c) > 1 THEN "try" ELSE "play") \in {"try", "measure", "play"}
      OBVIOUS
    <2>. QED
      BY <1>3, <2>1, <2>2, ThreadsAssumption
  <1>7. ASSUME NEW t \in Threads, ReadTag(t) PROVE TypeOK'
    BY <1>3, <1>7 DEF ReadTag
  <1>. QED
    BY <1>1, <1>2, <1>4, <1>5, <1>6, <1>7 DEF Next

(* A call begins on the playback thread if it is to play at once.          *)
LEMMA CallsAreBegun ==
  /\ Play => \E t \in Threads, c \in Candidates, what \in {"try", "play"} :
               (what = "play" => t = Playback) /\ Begin(t, c, what)
  /\ \A t \in Threads : ReadTag(t) =>
       \E c \in Candidates, what \in {"try", "measure"} : Begin(t, c, what)
  <1>1. \A c : (IF Len(c) > 1 THEN "try" ELSE "play") \in {"try", "play"}
    OBVIOUS
  <1>. QED
    BY <1>1, ThreadsAssumption DEF Play, ReadTag

(* init_guard is held from lockinit to unlockinit.                         *)
LEMMA InitGuardStep == TypeOK /\ InitGuardInv /\ [Next]_vars => InitGuardInv'
  <1>. SUFFICES ASSUME TypeOK /\ InitGuardInv, [Next]_vars PROVE InitGuardInv'
    OBVIOUS
  <1>. USE ThreadsAssumption
          DEF TypeOK, InitGuardInv, lifeVars, initVars, callVars
  <1>1. CASE Startup
    BY <1>1 DEF Startup
  <1>2. CASE Shutdown
    BY <1>2 DEF Shutdown, Quiet
  <1>3. ASSUME NEW t \in Threads, NEW c \in Candidates, NEW what,
               what = "play" => t = Playback, Begin(t, c, what)
        PROVE  InitGuardInv'
    BY <1>3 DEF Begin, Goto
  <1>4. ASSUME NEW t \in Threads, Step(t) PROVE InitGuardInv'
    <2>1. CASE Result(t)
      BY <2>1 DEF Result, Goto, NextCandidate, Proceed, Return
    <2>2. CASE Test(t)
      BY <2>2 DEF Test, Goto
    <2>3. CASE LockInit(t)
      BY <2>3 DEF LockInit, Goto
    <2>4. CASE Retest(t)
      BY <2>4 DEF Retest, Goto
    <2>5. CASE UnlockInit(t)
      BY <2>5 DEF UnlockInit, Goto
    <2>6. CASE Enter(t)
      BY <2>6 DEF Enter, Goto
    <2>7. CASE Create(t)
      BY <2>7 DEF Create, Goto
    <2>8. CASE Load(t)
      BY <2>8 DEF Load, Goto
    <2>9. CASE LoadFails(t)
      BY <2>9 DEF LoadFails, Goto
    <2>10. CASE Stop(t)
      BY <2>10 DEF Stop, Goto
    <2>11. CASE Delete(t)
      BY <2>11 DEF Delete, Goto
    <2>12. CASE Unguard(t)
      BY <2>12 DEF Unguard, Goto
    <2>13. ASSUME NEW what \in {"built", "initialized"}, Store(t, what)
           PROVE  InitGuardInv'
      BY <2>13 DEF Store, Goto
    <2>. HIDE DEF InitGuardInv
    <2>. QED
      BY <1>4, <2>1, <2>2, <2>3, <2>4, <2>5, <2>6, <2>7, <2>8, <2>9, <2>10,
         <2>11, <2>12, <2>13 DEF Step
  <1>5. CASE UNCHANGED vars
    BY <1>5 DEF vars
  <1>. HIDE DEF InitGuardInv
  <1>. QED
    BY <1>1, <1>2, <1>3, <1>4, <1>5, CallsAreBegun DEF Next

(* probe_guard is held from the constructor to the end of the destructor.  *)
LEMMA ProbeGuardStep ==
  TypeOK /\ ProbeGuardInv /\ [Next]_vars => ProbeGuardInv'
  <1>. SUFFICES ASSUME TypeOK /\ ProbeGuardInv, [Next]_vars
                PROVE  ProbeGuardInv'
    OBVIOUS
  <1>. USE ThreadsAssumption
          DEF TypeOK, ProbeGuardInv, Guards, Probing, Using, lifeVars,
              initVars, callVars
  <1>1. CASE Startup
    BY <1>1 DEF Startup
  <1>2. CASE Shutdown
    BY <1>2 DEF Shutdown, Quiet
  <1>3. ASSUME NEW t \in Threads, NEW c \in Candidates, NEW what,
               what = "play" => t = Playback, Begin(t, c, what)
        PROVE  ProbeGuardInv'
    BY <1>3 DEF Begin, Goto
  <1>4. ASSUME NEW t \in Threads, Step(t) PROVE ProbeGuardInv'
    <2>1. CASE Result(t)
      BY <2>1 DEF Result, Goto, NextCandidate, Proceed, Return
    <2>2. CASE Test(t)
      BY <2>2 DEF Test, Goto
    <2>3. CASE LockInit(t)
      BY <2>3 DEF LockInit, Goto
    <2>4. CASE Retest(t)
      BY <2>4 DEF Retest, Goto
    <2>5. CASE UnlockInit(t)
      BY <2>5 DEF UnlockInit, Goto
    <2>6. CASE Enter(t)
      BY <2>6 DEF Enter, Goto
    <2>7. CASE Create(t)
      BY <2>7 DEF Create, Goto
    <2>8. CASE Load(t)
      BY <2>8 DEF Load, Goto
    <2>9. CASE LoadFails(t)
      BY <2>9 DEF LoadFails, Goto
    <2>10. CASE Stop(t)
      BY <2>10 DEF Stop, Goto
    <2>11. CASE Delete(t)
      BY <2>11 DEF Delete, Goto
    <2>12. CASE Unguard(t)
      BY <2>12 DEF Unguard, Goto
    <2>13. ASSUME NEW what \in {"built", "initialized"}, Store(t, what)
           PROVE  ProbeGuardInv'
      BY <2>13 DEF Store, Goto
    <2>. HIDE DEF ProbeGuardInv
    <2>. QED
      BY <1>4, <2>1, <2>2, <2>3, <2>4, <2>5, <2>6, <2>7, <2>8, <2>9, <2>10,
         <2>11, <2>12, <2>13 DEF Step
  <1>5. CASE UNCHANGED vars
    BY <1>5 DEF vars
  <1>. HIDE DEF ProbeGuardInv
  <1>. QED
    BY <1>1, <1>2, <1>3, <1>4, <1>5, CallsAreBegun DEF Next

(* Only playback's call goes on to play.                                   *)
LEMMA PlaybackStep == TypeOK /\ PlaybackInv /\ [Next]_vars => PlaybackInv'
  <1>. SUFFICES ASSUME TypeOK /\ PlaybackInv, [Next]_vars PROVE PlaybackInv'
    OBVIOUS
  <1>. USE DEF TypeOK, PlaybackInv, lifeVars, initVars, callVars
  <1>1. CASE Startup
    BY <1>1 DEF Startup
  <1>2. CASE Shutdown
    BY <1>2 DEF Shutdown, Quiet
  <1>3. ASSUME NEW t \in Threads, NEW c \in Candidates, NEW what,
               what = "play" => t = Playback, Begin(t, c, what)
        PROVE  PlaybackInv'
    BY <1>3 DEF Begin, Goto
  <1>4. ASSUME NEW t \in Threads, Step(t) PROVE PlaybackInv'
    <2>1. CASE Result(t)
      BY <2>1 DEF Result, Goto, NextCandidate, Proceed, Return
    <2>2. CASE Test(t)
      BY <2>2 DEF Test, Goto
    <2>3. CASE LockInit(t)
      BY <2>3 DEF LockInit, Goto
    <2>4. CASE Retest(t)
      BY <2>4 DEF Retest, Goto
    <2>5. CASE UnlockInit(t)
      BY <2>5 DEF UnlockInit, Goto
    <2>6. CASE Enter(t)
      BY <2>6 DEF Enter, Goto
    <2>7. CASE Create(t)
      BY <2>7 DEF Create, Goto
    <2>8. CASE Load(t)
      BY <2>8 DEF Load, Goto
    <2>9. CASE LoadFails(t)
      BY <2>9 DEF LoadFails, Goto
    <2>10. CASE Stop(t)
      BY <2>10 DEF Stop, Goto
    <2>11. CASE Delete(t)
      BY <2>11 DEF Delete, Goto
    <2>12. CASE Unguard(t)
      BY <2>12 DEF Unguard, Goto
    <2>13. ASSUME NEW what \in {"built", "initialized"}, Store(t, what)
           PROVE  PlaybackInv'
      BY <2>13 DEF Store, Goto
    <2>. HIDE DEF PlaybackInv
    <2>. QED
      BY <1>4, <2>1, <2>2, <2>3, <2>4, <2>5, <2>6, <2>7, <2>8, <2>9, <2>10,
         <2>11, <2>12, <2>13 DEF Step
  <1>5. CASE UNCHANGED vars
    BY <1>5 DEF vars
  <1>. HIDE DEF PlaybackInv
  <1>. QED
    BY <1>1, <1>2, <1>3, <1>4, <1>5, CallsAreBegun DEF Next

(* Nothing runs, and nothing is initialized, while the plugin is unloaded. *)
LEMMA LifeStep == TypeOK /\ LifeInv /\ FlagInv /\ [Next]_vars => LifeInv'
  <1>. SUFFICES ASSUME TypeOK /\ LifeInv /\ FlagInv, [Next]_vars PROVE LifeInv'
    OBVIOUS
  <1>. USE DEF TypeOK, LifeInv, lifeVars, initVars, callVars
  <1>1. CASE Startup
    BY <1>1 DEF Startup
  <1>2. CASE Shutdown
    BY <1>2 DEF Shutdown, Quiet, FlagInv
  <1>3. ASSUME NEW t \in Threads, NEW c \in Candidates, NEW what,
               what = "play" => t = Playback, Begin(t, c, what)
        PROVE  LifeInv'
    BY <1>3 DEF Begin, Goto
  <1>4. ASSUME NEW t \in Threads, Step(t) PROVE LifeInv'
    <2>1. CASE Result(t)
      BY <2>1 DEF Result, Goto, NextCandidate, Proceed, Return
    <2>2. CASE Test(t)
      BY <2>2 DEF Test, Goto
    <2>3. CASE LockInit(t)
      BY <2>3 DEF LockInit, Goto
    <2>4. CASE Retest(t)
      BY <2>4 DEF Retest, Goto
    <2>5. CASE UnlockInit(t)
      BY <2>5 DEF UnlockInit, Goto
    <2>6. CASE Enter(t)
      BY <2>6 DEF Enter, Goto
    <2>7. CASE Create(t)
      BY <2>7 DEF Create, Goto
    <2>8. CASE Load(t)
      BY <2>8 DEF Load, Goto
    <2>9. CASE LoadFails(t)
      BY <2>9 DEF LoadFails, Goto
    <2>10. CASE Stop(t)
      BY <2>10 DEF Stop, Goto
    <2>11. CASE Delete(t)
      BY <2>11 DEF Delete, Goto
    <2>12. CASE Unguard(t)
      BY <2>12 DEF Unguard, Goto
    <2>13. ASSUME NEW what \in {"built", "initialized"}, Store(t, what)
           PROVE  LifeInv'
      BY <2>13 DEF Store, Goto
    <2>. HIDE DEF LifeInv
    <2>. QED
      BY <1>4, <2>1, <2>2, <2>3, <2>4, <2>5, <2>6, <2>7, <2>8, <2>9, <2>10,
         <2>11, <2>12, <2>13 DEF Step
  <1>5. CASE UNCHANGED vars
    BY <1>5 DEF vars
  <1>. HIDE DEF LifeInv
  <1>. QED
    BY <1>1, <1>2, <1>3, <1>4, <1>5, CallsAreBegun DEF Next

(* Between the two stores, and after them.                                 *)
LEMMA StoresStep == IInv /\ [Next]_vars => StoresInv'
  <1>. SUFFICES ASSUME IInv, [Next]_vars PROVE StoresInv'
    OBVIOUS
  <1>. USE ThreadsAssumption
          DEF IInv, TypeOK, LifeInv, InitGuardInv, StoresInv, FlagInv,
              lifeVars, initVars, callVars
  <1>1. CASE Startup
    BY <1>1 DEF Startup
  <1>2. CASE Shutdown
    BY <1>2 DEF Shutdown, Quiet
  <1>3. ASSUME NEW t \in Threads, NEW c \in Candidates, NEW what,
               what = "play" => t = Playback, Begin(t, c, what)
        PROVE  StoresInv'
    BY <1>3 DEF Begin, Goto
  <1>4. ASSUME NEW t \in Threads, Step(t) PROVE StoresInv'
    <2>1. CASE Result(t)
      BY <2>1 DEF Result, Goto, NextCandidate, Proceed, Return
    <2>2. CASE Test(t)
      BY <2>2 DEF Test, Goto
    <2>3. CASE LockInit(t)
      BY <2>3 DEF LockInit, Goto
    <2>4. CASE Retest(t)
      <3>1. \A u \in Threads : pc[u] = "init" => FALSE
        BY <2>4 DEF Retest, Goto
      <3>2. ~initialized[player[t]] => built[player[t]] = 0
        BY <3>1
      <3>3. ASSUME NEW u \in Threads, pc'[u] = "init"
            PROVE  u = t /\ ~initialized[player[t]]
        BY <2>4, <3>1, <3>3 DEF Retest, Goto
      <3>. QED
        BY <2>4, <3>2, <3>3 DEF Retest, Goto
    <2>5. CASE UnlockInit(t)
      BY <2>5 DEF UnlockInit, Goto
    <2>6. CASE Enter(t)
      BY <2>6 DEF Enter, Goto
    <2>7. CASE Create(t)
      BY <2>7 DEF Create, Goto
    <2>8. CASE Load(t)
      BY <2>8 DEF Load, Goto
    <2>9. CASE LoadFails(t)
      BY <2>9 DEF LoadFails, Goto
    <2>10. CASE Stop(t)
      BY <2>10 DEF Stop, Goto
    <2>11. CASE Delete(t)
      BY <2>11 DEF Delete, Goto
    <2>12. CASE Unguard(t)
      BY <2>12 DEF Unguard, Goto
    <2>13. ASSUME NEW what \in {"built", "initialized"}, Store(t, what)
           PROVE  StoresInv'
      BY <2>13 DEF Store, Goto
    <2>. HIDE DEF StoresInv
    <2>. QED
      BY <1>4, <2>1, <2>2, <2>3, <2>4, <2>5, <2>6, <2>7, <2>8, <2>9, <2>10,
         <2>11, <2>12, <2>13 DEF Step
  <1>5. CASE UNCHANGED vars
    BY <1>5 DEF vars
  <1>. HIDE DEF StoresInv
  <1>. QED
    BY <1>1, <1>2, <1>3, <1>4, <1>5, CallsAreBegun DEF Next

(* The flag of a player stays down only until the one that initializes it  *)
(* is done.                                                                *)
LEMMA FlagStep == IInv /\ [Next]_vars => FlagInv'
  <1>. SUFFICES ASSUME IInv, [Next]_vars PROVE FlagInv'
    OBVIOUS
  <1>. USE ThreadsAssumption
          DEF IInv, TypeOK, LifeInv, InitGuardInv, StoresInv, FlagInv,
              lifeVars, initVars, callVars
  <1>1. CASE Startup
    <2>1. ASSUME NEW p \in Players, ~initialized'[p] PROVE built'[p] = 0
      <3>1. p \notin Eager /\ built[p] = 0
        BY <1>1, <2>1 DEF Startup
      <3>2. built'[p] = built[p] + 0
        BY <1>1, <3>1 DEF Startup
      <3>. QED
        BY <3>1, <3>2
    <2>. QED
      BY <2>1
  <1>2. CASE Shutdown
    BY <1>2 DEF Shutdown, Quiet
  <1>3. ASSUME NEW t \in Threads, NEW c \in Candidates, NEW what,
               what = "play" => t = Playback, Begin(t, c, what)
        PROVE  FlagInv'
    BY <1>3 DEF Begin, Goto
  <1>4. ASSUME NEW t \in Threads, Step(t) PROVE FlagInv'
    <2>1. CASE Result(t)
      BY <2>1 DEF Result, Goto, NextCandidate, Proceed, Return
    <2>2. CASE Test(t)
      BY <2>2 DEF Test, Goto
    <2>3. CASE LockInit(t)
      BY <2>3 DEF LockInit, Goto
    <2>4. CASE Retest(t)
      BY <2>4 DEF Retest, Goto
    <2>5. CASE UnlockInit(t)
      BY <2>5 DEF UnlockInit, Goto
    <2>6. CASE Enter(t)
      BY <2>6 DEF Enter, Goto
    <2>7. CASE Create(t)
      BY <2>7 DEF Create, Goto
    <2>8. CASE Load(t)
      BY <2>8 DEF Load, Goto
    <2>9. CASE LoadFails(t)
      BY <2>9 DEF LoadFails, Goto
    <2>10. CASE Stop(t)
      BY <2>10 DEF Stop, Goto
    <2>11. CASE Delete(t)
      BY <2>11 DEF Delete, Goto
    <2>12. CASE Unguard(t)
      BY <2>12 DEF Unguard, Goto
    <2>13. ASSUME NEW what \in {"built", "initialized"}, Store(t, what)
           PROVE  FlagInv'
      <3>1. CASE stores[t] = {what}
        <4>1. initialized'[player[t]]
          BY <2>13, <3>1 DEF Store, Goto
        <4>2. ASSUME NEW p \in Players, p # player[t]
              PROVE  initialized'[p] = initialized[p] /\ built'[p] = built[p]
          BY <2>13, <4>2 DEF Store
        <4>3. \A u \in Threads : u # t => pc'[u] = pc[u]
          BY <2>13 DEF Store, Goto
        <4>4. player' = player
          BY <2>13 DEF Store
        <4>5. FlagInv
          OBVIOUS
        <4>. HIDE DEF IInv, TypeOK, LifeInv, InitGuardInv, StoresInv
        <4>. QED
          BY <4>1, <4>2, <4>3, <4>4, <4>5
      <3>2. CASE stores[t] # {what}
        <4>1. pc' = pc /\ pc[t] = "init" /\ player' = player
          BY <2>13, <3>2 DEF Store, Goto
        <4>2. ASSUME NEW p \in Players, p # player[t]
              PROVE  initialized'[p] = initialized[p] /\ built'[p] = built[p]
          BY <2>13, <4>2 DEF Store
        <4>. QED
          BY <4>1, <4>2
      <3>. QED
        BY <3>1, <3>2
    <2>. HIDE DEF FlagInv
    <2>. QED
      BY <1>4, <2>1, <2>2, <2>3, <2>4, <2>5, <2>6, <2>7, <2>8, <2>9, <2>10,
         <2>11, <2>12, <2>13 DEF Step
  <1>5. CASE UNCHANGED vars
    BY <1>5 DEF vars
  <1>. HIDE DEF FlagInv
  <1>. QED
    BY <1>1, <1>2, <1>3, <1>4, <1>5, CallsAreBegun DEF Next

(* init() is called for a player that has not been initialized.            *)
LEMMA OnceStep == IInv /\ [Next]_vars => InitOnce'
  <1>. SUFFICES ASSUME IInv, [Next]_vars PROVE InitOnce'
    OBVIOUS
  <1>. USE ThreadsAssumption
          DEF IInv, TypeOK, LifeInv, InitGuardInv, StoresInv, FlagInv,
              InitOnce, lifeVars, initVars, callVars
  <1>1. CASE Startup
    BY <1>1 DEF Startup
  <1>2. CASE Shutdown
    BY <1>2 DEF Shutdown, Quiet
  <1>3. ASSUME NEW t \in Threads, NEW c \in Candidates, NEW what,
               what = "play" => t = Playback, Begin(t, c, what)
        PROVE  InitOnce'
    BY <1>3 DEF Begin, Goto
  <1>4. ASSUME NEW t \in Threads, Step(t) PROVE InitOnce'
    <2>1. CASE Result(t)
      BY <2>1 DEF Result, Goto, NextCandidate, Proceed, Return
    <2>2. CASE Test(t)
      BY <2>2 DEF Test, Goto
    <2>3. CASE LockInit(t)
      BY <2>3 DEF LockInit, Goto
    <2>4. CASE Retest(t)
      BY <2>4 DEF Retest, Goto
    <2>5. CASE UnlockInit(t)
      BY <2>5 DEF UnlockInit, Goto
    <2>6. CASE Enter(t)
      BY <2>6 DEF Enter, Goto
    <2>7. CASE Create(t)
      BY <2>7 DEF Create, Goto
    <2>8. CASE Load(t)
      BY <2>8 DEF Load, Goto
    <2>9. CASE LoadFails(t)
      BY <2>9 DEF LoadFails, Goto
    <2>10. CASE Stop(t)
      BY <2>10 DEF Stop, Goto
    <2>11. CASE Delete(t)
      BY <2>11 DEF Delete, Goto
    <2>12. CASE Unguard(t)
      BY <2>12 DEF Unguard, Goto
    <2>13. ASSUME NEW what \in {"built", "initialized"}, Store(t, what)
           PROVE  InitOnce'
      <3>1. CASE what = "built"
        <4>1. player[t] \in Players /\ built[player[t]] = 0
          BY <2>13, <3>1 DEF Store, Goto
        <4>2. built'[player[t]] = 1
          BY <2>13, <3>1, <4>1 DEF Store
        <4>3. \A p \in Players : p # player[t] => built'[p] = built[p]
          BY <2>13, <3>1 DEF Store
        <4>4. InitOnce
          OBVIOUS
        <4>. HIDE DEF IInv, TypeOK, LifeInv, InitGuardInv, StoresInv, FlagInv
        <4>. QED
          BY <4>2, <4>3, <4>4
      <3>2. CASE what = "initialized"
        BY <2>13, <3>2 DEF Store
      <3>. QED
        BY <2>13, <3>1, <3>2
    <2>. HIDE DEF InitOnce
    <2>. QED
      BY <1>4, <2>1, <2>2, <2>3, <2>4, <2>5, <2>6, <2>7, <2>8, <2>9, <2>10,
         <2>11, <2>12, <2>13 DEF Step
  <1>5. CASE UNCHANGED vars
    BY <1>5 DEF vars
  <1>. HIDE DEF InitOnce
  <1>. QED
    BY <1>1, <1>2, <1>3, <1>4, <1>5, CallsAreBegun DEF Next

(* Only its user loads a replayer, and the user empties it.                *)
LEMMA LoadedStep == IInv /\ [Next]_vars => LoadedInv'
  <1>. SUFFICES ASSUME IInv, [Next]_vars PROVE LoadedInv'
    OBVIOUS
  <1>. USE Exclusion
          DEF IInv, TypeOK, LifeInv, LoadedInv, Replayer, Probing, Using,
              lifeVars, initVars, callVars
  <1>1. CASE Startup
    BY <1>1 DEF Startup
  <1>2. CASE Shutdown
    BY <1>2 DEF Shutdown, Quiet
  <1>3. ASSUME NEW t \in Threads, NEW c \in Candidates, NEW what,
               what = "play" => t = Playback, Begin(t, c, what)
        PROVE  LoadedInv'
    BY <1>3 DEF Begin, Goto
  <1>4. ASSUME NEW t \in Threads, Step(t) PROVE LoadedInv'
    <2>1. CASE Result(t)
      <3>1. pc[t] = "result"
        BY <2>1 DEF Result, Goto, NextCandidate, Proceed, Return
      <3>2. ASSUME NEW u \in Threads, u # t
            PROVE  /\ pc'[u] = pc[u] /\ phase'[u] = phase[u]
                   /\ player'[u] = player[u]
        BY <2>1, <3>2 DEF Result, Goto, NextCandidate, Proceed, Return
      <3>3. loaded' = loaded
        BY <2>1 DEF Result
      <3>. QED
        BY <3>1, <3>2, <3>3
    <2>2. CASE Test(t)
      BY <2>2 DEF Test, Goto
    <2>3. CASE LockInit(t)
      BY <2>3 DEF LockInit, Goto
    <2>4. CASE Retest(t)
      BY <2>4 DEF Retest, Goto
    <2>5. CASE UnlockInit(t)
      BY <2>5 DEF UnlockInit, Goto
    <2>6. CASE Enter(t)
      BY <2>6 DEF Enter, Goto
    <2>7. CASE Create(t)
      BY <2>7 DEF Create, Goto
    <2>8. CASE Load(t)
      BY <2>8 DEF Load, Goto
    <2>9. CASE LoadFails(t)
      BY <2>9 DEF LoadFails, Goto
    <2>10. CASE Stop(t)
      BY <2>10 DEF Stop, Goto
    <2>11. CASE Delete(t)
      BY <2>11 DEF Delete, Goto
    <2>12. CASE Unguard(t)
      BY <2>12 DEF Unguard, Goto
    <2>13. ASSUME NEW what \in {"built", "initialized"}, Store(t, what)
           PROVE  LoadedInv'
      BY <2>13 DEF Store, Goto
    <2>. HIDE DEF LoadedInv
    <2>. QED
      BY <1>4, <2>1, <2>2, <2>3, <2>4, <2>5, <2>6, <2>7, <2>8, <2>9, <2>10,
         <2>11, <2>12, <2>13 DEF Step
  <1>5. CASE UNCHANGED vars
    BY <1>5 DEF vars
  <1>. HIDE DEF LoadedInv
  <1>. QED
    BY <1>1, <1>2, <1>3, <1>4, <1>5, CallsAreBegun DEF Next

(* The order of the stores is what a thread that does not lock relies on.  *)
LEMMA OrderStep == IInv /\ [Next]_vars => OrderInv'
  <1>. SUFFICES ASSUME IInv, [Next]_vars PROVE OrderInv'
    OBVIOUS
  <1>. USE ThreadsAssumption, PlayersAssumption
          DEF IInv, TypeOK, LifeInv, InitGuardInv, StoresInv, OrderInv,
              Using, lifeVars, initVars, callVars
  <1>1. CASE Startup
    BY <1>1 DEF Startup
  <1>2. CASE Shutdown
    BY <1>2 DEF Shutdown, Quiet
  <1>3. ASSUME NEW t \in Threads, NEW c \in Candidates, NEW what,
               what = "play" => t = Playback, Begin(t, c, what)
        PROVE  OrderInv'
    BY <1>3 DEF Begin, Goto
  <1>4. ASSUME NEW t \in Threads, Step(t) PROVE OrderInv'
    <2>1. CASE Result(t)
      BY <2>1 DEF Result, Goto, NextCandidate, Proceed, Return
    <2>2. CASE Test(t)
      BY <2>2 DEF Test, Goto
    <2>3. CASE LockInit(t)
      BY <2>3 DEF LockInit, Goto
    <2>4. CASE Retest(t)
      BY <2>4 DEF Retest, Goto
    <2>5. CASE UnlockInit(t)
      BY <2>5 DEF UnlockInit, Goto
    <2>6. CASE Enter(t)
      BY <2>6 DEF Enter, Goto
    <2>7. CASE Create(t)
      BY <2>7 DEF Create, Goto
    <2>8. CASE Load(t)
      BY <2>8 DEF Load, Goto
    <2>9. CASE LoadFails(t)
      BY <2>9 DEF LoadFails, Goto
    <2>10. CASE Stop(t)
      BY <2>10 DEF Stop, Goto
    <2>11. CASE Delete(t)
      BY <2>11 DEF Delete, Goto
    <2>12. CASE Unguard(t)
      BY <2>12 DEF Unguard, Goto
    <2>13. ASSUME NEW what \in {"built", "initialized"}, Store(t, what)
           PROVE  OrderInv'
      <3>1. /\ pc[t] = "init" /\ what \in stores[t] /\ player[t] \in Players
            /\ inOrder /\ what = "initialized" =>
                 "built" \notin stores[t]
            /\ player' = player /\ up' = up /\ inOrder' = inOrder
            /\ stores'[t] = stores[t] \ {what}
            /\ pc'[t] = IF stores[t] = {what} THEN "unlockinit" ELSE "init"
        BY <2>13 DEF Store, Goto
      <3>2. ASSUME NEW u \in Threads, u # t
            PROVE  pc'[u] = pc[u] /\ stores'[u] = stores[u]
        BY <2>13, <3>2 DEF Store, Goto
      <3>3. ASSUME NEW p \in Players
            PROVE  /\ initialized[p] => initialized'[p]
                   /\ built[p] > 0 => built'[p] > 0
                   /\ p # player[t] => initialized'[p] = initialized[p]
        <4>1. CASE what = "built"
          <5>1. /\ initialized' = initialized
                /\ built' = [built EXCEPT ![player[t]] = built[player[t]] + 1]
            BY <2>13, <4>1 DEF Store
          <5>2. built[player[t]] \in Nat
            BY <3>1
          <5>. QED
            BY <5>1, <5>2
        <4>2. CASE what = "initialized"
          <5>1. /\ built' = built
                /\ initialized' = [initialized EXCEPT ![player[t]] = TRUE]
            BY <2>13, <4>2 DEF Store
          <5>. QED
            BY <5>1
        <4>. QED
          BY <4>1, <4>2
      <3>4. CASE what = "built"
        <4>1. built'[player[t]] > 0 /\ initialized' = initialized
          BY <2>13, <3>1, <3>4 DEF Store
        <4>2. \A u \in Threads : player[u] \in Players
          OBVIOUS
        <4>. QED
          BY <3>1, <3>2, <3>3, <3>4, <4>1, <4>2
      <3>5. CASE what = "initialized"
        <4>1. initialized'[player[t]] /\ built' = built
          BY <2>13, <3>1, <3>5 DEF Store
        <4>2. "built" \notin stores[t] => pc'[t] = "unlockinit"
          BY <3>1, <3>5
        <4>3. \A u \in Threads : player[u] \in Players
          OBVIOUS
        <4>. QED
          BY <3>1, <3>2, <3>3, <3>5, <4>1, <4>2, <4>3
      <3>. QED
        BY <3>4, <3>5
    <2>. HIDE DEF OrderInv
    <2>. QED
      BY <1>4, <2>1, <2>2, <2>3, <2>4, <2>5, <2>6, <2>7, <2>8, <2>9, <2>10,
         <2>11, <2>12, <2>13 DEF Step
  <1>5. CASE UNCHANGED vars
    BY <1>5 DEF vars
  <1>. HIDE DEF OrderInv
  <1>. QED
    BY <1>1, <1>2, <1>3, <1>4, <1>5, CallsAreBegun DEF Next

(* Every step keeps the invariant.                                         *)
LEMMA IInvStep == IInv /\ [Next]_vars => IInv'
  BY TypeStep, InitGuardStep, ProbeGuardStep, PlaybackStep, LifeStep,
     StoresStep, FlagStep, OnceStep, OrderStep, LoadedStep DEF IInv

(* So it always holds.                                                     *)
LEMMA Invariance == Spec => []IInv
  BY InitIInv, IInvStep, PTL DEF Spec
------------------------------------------------------------------------------
(* The variables of the players always have their types. *)
THEOREM TypeCorrect == Spec => []TypeOK
  <1>1. IInv => TypeOK
    BY DEF IInv
  <1>. QED
    BY <1>1, Invariance, PTL

(* However many threads scan while one plays, no replayer has two users:   *)
(* probe_guard and the second instance are enough.                         *)
THEOREM ReplayersAreExclusive == Spec => []ReplayerExclusive
  BY Exclusion, Invariance, PTL

(* The asserts of parse and play that no module is loaded hold.            *)
THEOREM LoadsAreClean == Spec => []LoadsClean
  <1>1. IInv => LoadsClean
    BY Exclusion DEF IInv, LoadsClean, LoadedInv, ReplayerExclusive, Using
  <1>. QED
    BY <1>1, Invariance, PTL

(* A player's init() is called at most once in a life of the plugin, even  *)
(* if threads see the stores of INIT_PLAYER late and in any order.         *)
THEOREM InitIsOnce == Spec => []InitOnce
  <1>1. IInv => InitOnce
    BY DEF IInv
  <1>. QED
    BY <1>1, Invariance, PTL

(* If they see them in order, nobody uses a player before its init().      *)
THEOREM InitIsBeforeUse == Spec => []InitBeforeUse
  <1>1. IInv => InitBeforeUse
    BY DEF IInv, OrderInv, InitBeforeUse, LifeInv, TypeOK, Using
  <1>. QED
    BY <1>1, Invariance, PTL

(* INIT_PLAYER does both.                                                  *)
THEOREM InitIsOnceBeforeUse == Spec => []InitOnceBeforeUse
  BY InitIsOnce, InitIsBeforeUse, PTL DEF InitOnceBeforeUse

(* The replayers are a pool of resources with one user each: the           *)
(* constructor of a context acquires one, and the destructor releases it.  *)
THEOREM Refinement == Spec => ImplementsPool
  <1>1. Init => Pool!Init
    BY DEF Init, Pool!Init, Held, Using
  <1>2. ASSUME IInv, ReplayerExclusive', [Next]_vars PROVE [Pool!Next]_Held
    <2>. USE DEF lifeVars, initVars, callVars
    <2>. DEFINE Same(t) == /\ pc'[t] \in Using <=> pc[t] \in Using
                           /\ pc[t] \in Using =>
                                phase'[t] = phase[t] /\ player'[t] = player[t]
    <2>1. ASSUME \A t \in Threads : Same(t) PROVE UNCHANGED Held
      BY <2>1 DEF Held, Replayer, Probing
    <2>2. CASE Startup \/ Shutdown
      BY <2>1, <2>2 DEF Startup, Shutdown
    <2>3. ASSUME NEW t \in Threads, NEW c \in Candidates, NEW what,
                 Begin(t, c, what)
          PROVE  UNCHANGED Held
      BY <1>2, <2>1, <2>3 DEF Begin, Goto, Using, IInv, TypeOK
    <2>4. CASE UNCHANGED vars
      BY <2>1, <2>4 DEF vars
    <2>5. ASSUME NEW t \in Threads, Step(t) PROVE [Pool!Next]_Held
      <3>1. CASE Result(t)
        BY <1>2, <2>1, <3>1
        DEF Result, NextCandidate, Proceed, Return, Goto, Using, IInv, TypeOK
      <3>2. CASE \/ Test(t) \/ LockInit(t) \/ Retest(t) \/ UnlockInit(t)
                 \/ \E what \in {"built", "initialized"} : Store(t, what)
                 \/ Enter(t) \/ Load(t) \/ LoadFails(t) \/ Stop(t)
                 \/ Unguard(t)
        BY <1>2, <2>1, <3>2
        DEF Test, LockInit, Retest, UnlockInit, Store, Enter, Load, LoadFails,
            Stop, Unguard, Goto, Using, IInv, TypeOK
      <3>3. CASE Create(t)
        <4>1. /\ pc[t] = "guard" /\ pc' = [pc EXCEPT ![t] = "load"]
              /\ phase' = phase /\ player' = player
          BY <3>3 DEF Create, Goto
        <4>2. Held' = Held \cup {<<t, Replayer(t)>>}
          <5>1. ASSUME NEW u \in Threads
                PROVE  pc'[u] \in Using <=> pc[u] \in Using \/ u = t
            BY <1>2, <4>1 DEF Using, IInv, TypeOK
          <5>2. \A u : Replayer(u)' = Replayer(u)
            BY <4>1 DEF Replayer, Probing
          <5>3. Replayer(t) \in Replayers
            BY <1>2, ReplayerFacts DEF IInv
          <5>4. ASSUME NEW x \in Threads \X Replayers
                PROVE  x \in Held' <=> x \in Held \/ x = <<t, Replayer(t)>>
            BY <5>1, <5>2, <1>2, <4>1 DEF Held, Using, IInv, TypeOK
          <5>. QED
            BY <5>3, <5>4 DEF Held
        <4>3. \A p \in Held : p[1] # t /\ p[2] # Replayer(t)
          <5>1. ASSUME NEW u \in Threads, pc[u] \in Using
                PROVE  u # t /\ Replayer(u) # Replayer(t)
            <6>1. u # t
              BY <4>1, <5>1 DEF Using
            <6>2. pc'[u] \in Using /\ pc'[t] \in Using
              BY <1>2, <4>1, <5>1, <6>1 DEF Using, IInv, TypeOK
            <6>3. Replayer(u)' # Replayer(t)'
              BY <1>2, <6>1, <6>2 DEF ReplayerExclusive
            <6>. QED
              BY <4>1, <6>1, <6>3 DEF Replayer, Probing
          <5>. QED
            BY <5>1 DEF Held
        <4>4. Pool!Acquire(t, Replayer(t))
          BY <4>2, <4>3 DEF Pool!Acquire
        <4>. QED
          BY <1>2, <4>4, ReplayerFacts DEF Pool!Next, IInv
      <3>4. CASE Delete(t)
        <4>1. /\ pc[t] = "delete" /\ pc' = [pc EXCEPT ![t] = "unguard"]
              /\ phase' = phase /\ player' = player
          BY <3>4 DEF Delete, Goto
        <4>2. <<t, Replayer(t)>> \in Held
          BY <1>2, <4>1, ReplayerFacts DEF Held, Using, IInv
        <4>3. Held' = Held \ {<<t, Replayer(t)>>}
          <5>1. ASSUME NEW u \in Threads
                PROVE  pc'[u] \in Using <=> pc[u] \in Using /\ u # t
            BY <1>2, <4>1 DEF Using, IInv, TypeOK
          <5>2. \A u : Replayer(u)' = Replayer(u)
            BY <4>1 DEF Replayer, Probing
          <5>. QED
            BY <5>1, <5>2 DEF Held
        <4>4. Pool!Release(t, Replayer(t))
          BY <4>2, <4>3 DEF Pool!Release
        <4>. QED
          BY <1>2, <4>4, ReplayerFacts DEF Pool!Next, IInv
      <3>. QED
        BY <2>5, <3>1, <3>2, <3>3, <3>4 DEF Step
    <2>. QED
      BY <1>2, <2>2, <2>3, <2>4, <2>5, CallsAreBegun DEF Next
  <1>. QED
    BY <1>1, <1>2, Invariance, Exclusion, PTL
    DEF Spec, ImplementsPool, Pool!Spec
==============================================================================
