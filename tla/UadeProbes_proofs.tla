-------------------------- MODULE UadeProbes_proofs --------------------------
(***************************************************************************)
(* Safety of the probe pool for every number of threads, probes and rates. *)
(***************************************************************************)
EXTENDS UadeProbes, FiniteSetTheorems, TLAPS

(* A thread is in a critical section exactly when it holds probe_mutex.    *)
MutexInv == \A t \in Threads : pc[t] \in Critical <=> probe_mutex = t

(* Where the loop index of get_probe_context points, by program counter.   *)
SlotInv ==
  \A t \in Threads :
    /\ pc[t] = "scan" => \A j \in Slots : j < slot[t] => ~available[j]
    /\ pc[t] = "claim" => slot[t] \in Slots /\ available[slot[t]]
    /\ pc[t] \in Owning \ {"unlock", "start"} => slot[t] \in Slots

(* An owned probe is marked unavailable, which keeps every other thread    *)
(* from claiming it.                                                       *)
OwnedInv ==
  \A t \in Threads, i \in Slots : Owns(t, i) => ~available[i]

(* A free probe is either not built or built and stopped.                  *)
FreeInv ==
  \A i \in Slots :
    /\ initialized[i] => freq[i] # NoFreq
    /\ available[i] => state[i] = IF initialized[i] THEN "idle" ELSE "null"

(* What the owner of a probe knows about it, by program counter.           *)
BuiltInv ==
  \A t \in Threads, i \in Slots : Owns(t, i) =>
    /\ pc[t] # "create" => initialized[i]
    /\ pc[t] \in {"create", "unlock", "start"} /\ initialized[i] =>
         /\ state[i] = "idle"
         /\ want[t].enforce => freq[i] = want[t].freq
    /\ pc[t] \in {"relock", "release"} => state[i] = "idle"

IInv ==
  /\ TypeOK
  /\ MutexInv
  /\ SlotInv
  /\ OwnedInv
  /\ ProbeExclusive
  /\ NoProbeLost
  /\ FreeInv
  /\ BuiltInv
------------------------------------------------------------------------------
(* The slots are an initial segment of the integers: the search goes from  *)
(* one to the next and past the last to NoSlot.                            *)
LEMMA SlotFacts ==
  /\ Slots \subseteq Nat
  /\ NoSlot \notin Slots
  /\ \A i \in Slots \cup {NoSlot} : i # NoSlot => i \in Slots
  /\ \A i \in Slots : i + 1 \in Slots \cup {NoSlot}
  /\ 0 \in Slots
  BY ProbesAssumption DEF Slots, NoSlot

(* What lies before the next index lies before this one or is it.          *)
LEMMA BeforeNext == \A j, k \in Nat : j < k + 1 => j < k \/ j = k
  OBVIOUS

(* What get_probe_context is called with is a request, and asks for a rate *)
(* no unbuilt probe has.                                                   *)
LEMMA RequestFacts ==
  /\ ParseRequest \in Requests
  /\ \A f \in Freqs : PlayRequest(f) \in Requests
  /\ \A w \in Requests :
       w.freq \in Freqs /\ w.freq # NoFreq /\ w.enforce \in BOOLEAN
  BY FreqsAssumption DEF ParseRequest, PlayRequest, Requests, NoFreq

(* The inductive invariant holds before the plugin is started.             *)
LEMMA InitIInv == Init => IInv
  <1>. SUFFICES ASSUME Init PROVE IInv
    OBVIOUS
  <1>1. TypeOK
    <2>. USE SlotFacts, RequestFacts DEF Init
    <2>1. want \in [Threads -> Requests]
      OBVIOUS
    <2>2. pc \in [Threads -> Pcs] /\ state \in [Slots -> StateKinds]
      BY DEF Pcs, StateKinds
    <2>3. up \in BOOLEAN
      BY Zenon
    <2>6. lives \in Nat /\ cores \in Int
      OBVIOUS
    <2>4. /\ initialized \in [Slots -> BOOLEAN]
          /\ available \in [Slots -> BOOLEAN]
          /\ freq \in [Slots -> Freqs \cup {NoFreq}]
      OBVIOUS
    <2>5. /\ probe_mutex \in Threads \cup {NoThread}
          /\ slot \in [Threads -> Slots \cup {NoSlot}]
          /\ calls \in [Threads -> Nat]
      OBVIOUS
    <2>. QED
      BY <2>1, <2>2, <2>3, <2>4, <2>5, <2>6 DEF TypeOK
  <1>2. MutexInv /\ SlotInv /\ OwnedInv /\ ProbeExclusive /\ BuiltInv
    BY ThreadsAssumption
    DEF Init, MutexInv, SlotInv, OwnedInv, ProbeExclusive, BuiltInv, Owns,
        Owning, Critical
  <1>3. NoProbeLost /\ FreeInv
    BY DEF Init, NoProbeLost, FreeInv
  <1>. QED
    BY <1>1, <1>2, <1>3 DEF IInv

(* Every step of the pool keeps the types.                                 *)
LEMMA TypeStep == TypeOK /\ [Next]_vars => TypeOK'
  <1>. SUFFICES ASSUME TypeOK, [Next]_vars PROVE TypeOK'
    OBVIOUS
  <1>. USE SlotFacts DEF TypeOK, probeVars, lifeVars
  <1>1. CASE Startup
    BY <1>1 DEF Startup, StateKinds
  <1>2. CASE Shutdown
    <2>1. cores' \in Int
      <3>1. IsFiniteSet(Slots)
        BY FS_Interval, ProbesAssumption DEF Slots
      <3>2. Cardinality({i \in Slots : initialized[i]}) \in Nat
        BY <3>1, FS_Subset, FS_CardinalityType
      <3>. QED
        BY <1>2, <3>2 DEF Shutdown
    <2>. QED
      BY <1>2, <2>1 DEF Shutdown, StateKinds, NoFreq
  <1>3. CASE \E t \in Threads : Call(t, ParseRequest)
    BY <1>3, RequestFacts DEF Call, Goto, Pcs, ParseRequest
  <1>4. CASE \E t \in Threads, f \in Freqs : Call(t, PlayRequest(f))
    BY <1>4, RequestFacts DEF Call, Goto, Pcs
  <1>5. ASSUME NEW t \in Threads, Step(t) PROVE TypeOK'
    <2>1. CASE Lock(t)
      BY <2>1 DEF Lock, Goto, Acquire, Pcs
    <2>2. CASE Scan(t)
      BY <2>2 DEF Scan, Goto, Pcs
    <2>3. CASE Claim(t)
      <3>1. CASE WrongRate(t, slot[t])
        <4>1. cores' \in Int
          BY <2>3, <3>1 DEF Claim
        <4>2. initialized' \in [Slots -> BOOLEAN]
          BY <2>3, <3>1 DEF Claim
        <4>3. state' \in [Slots -> StateKinds]
          BY <2>3, <3>1 DEF Claim, StateKinds
        <4>4. available' \in [Slots -> BOOLEAN]
          BY <2>3, <3>1 DEF Claim
        <4>5. pc' \in [Threads -> Pcs]
          BY <2>3, <3>1 DEF Claim, Goto, Pcs
        <4>. QED
          BY <2>3, <4>1, <4>2, <4>3, <4>4, <4>5 DEF Claim
      <3>2. CASE ~WrongRate(t, slot[t])
        BY <2>3, <3>2 DEF Claim, Goto, Pcs, StateKinds
      <3>. QED
        BY <3>1, <3>2
    <2>4. CASE Create(t)
      <3>1. want[t].freq \in Freqs
        BY RequestFacts
      <3>2. CASE initialized[slot[t]]
        BY <2>4, <3>2 DEF Create, Goto, Pcs, StateKinds
      <3>3. CASE ~initialized[slot[t]]
        <4>1. cores' \in Int
          BY <2>4, <3>3 DEF Create
        <4>2. initialized' \in [Slots -> BOOLEAN]
          BY <2>4, <3>3 DEF Create
        <4>3. state' \in [Slots -> StateKinds]
          BY <2>4, <3>3 DEF Create, StateKinds
        <4>4. freq' \in [Slots -> Freqs \cup {NoFreq}]
          BY <2>4, <3>1, <3>3 DEF Create
        <4>5. pc' \in [Threads -> Pcs]
          BY <2>4, <3>3 DEF Create, Goto, Pcs
        <4>. QED
          BY <2>4, <4>1, <4>2, <4>3, <4>4, <4>5 DEF Create
      <3>. QED
        BY <3>2, <3>3
    <2>5. CASE Unlock(t)
      BY <2>5 DEF Unlock, Unlocked, Goto, Pcs
    <2>6. CASE Start(t)
      BY <2>6 DEF Start, Goto, Pcs, StateKinds
    <2>7. CASE Finish(t)
      BY <2>7 DEF Finish, Goto, Pcs
    <2>8. CASE Stop(t)
      BY <2>8 DEF Stop, Goto, Pcs, StateKinds
    <2>9. CASE Cleanup(t)
      BY <2>9 DEF Cleanup, Goto, Pcs, StateKinds
    <2>10. CASE Relock(t)
      BY <2>10 DEF Relock, Acquire, Goto, Pcs
    <2>11. CASE Release(t)
      BY <2>11 DEF Release, Goto, Pcs
    <2>12. CASE UnlockRelease(t)
      BY <2>12 DEF UnlockRelease, Unlocked, Goto, Pcs
    <2>. QED
      BY <1>5, <2>1, <2>2, <2>3, <2>4, <2>5, <2>6, <2>7, <2>8, <2>9, <2>10,
         <2>11, <2>12 DEF Step
  <1>6. CASE UNCHANGED vars
    BY <1>6 DEF vars
  <1>. QED
    BY <1>1, <1>2, <1>3, <1>4, <1>5, <1>6 DEF Next

(* Only the thread inside a lock_guard's scope holds probe_mutex.          *)
LEMMA MutexStep == TypeOK /\ MutexInv /\ [Next]_vars => MutexInv'
  <1>. SUFFICES ASSUME TypeOK, MutexInv, [Next]_vars PROVE MutexInv'
    OBVIOUS
  <1>. USE ThreadsAssumption DEF TypeOK, MutexInv, Critical, probeVars,
          lifeVars
  <1>1. CASE Startup
    BY <1>1 DEF Startup, Quiet
  <1>2. CASE Shutdown
    BY <1>2 DEF Shutdown, Quiet
  <1>3. ASSUME NEW t \in Threads, NEW w \in Requests, Call(t, w) PROVE
          MutexInv'
    BY <1>3 DEF Call, Goto
  <1>4. ASSUME NEW t \in Threads, Step(t) PROVE MutexInv'
    <2>1. CASE Lock(t)
      BY <2>1 DEF Lock, Goto, Acquire
    <2>2. CASE Scan(t)
      BY <2>2 DEF Scan, Goto
    <2>3. CASE Claim(t)
      BY <2>3 DEF Claim, Goto
    <2>4. CASE Create(t)
      BY <2>4 DEF Create, Goto
    <2>5. CASE Unlock(t)
      BY <2>5 DEF Unlock, Goto, Unlocked
    <2>6. CASE Start(t)
      BY <2>6 DEF Start, Goto
    <2>7. CASE Finish(t)
      BY <2>7 DEF Finish, Goto
    <2>8. CASE Stop(t)
      BY <2>8 DEF Stop, Goto
    <2>9. CASE Cleanup(t)
      BY <2>9 DEF Cleanup, Goto
    <2>10. CASE Relock(t)
      BY <2>10 DEF Relock, Goto, Acquire
    <2>11. CASE Release(t)
      BY <2>11 DEF Release, Goto
    <2>12. CASE UnlockRelease(t)
      BY <2>12 DEF UnlockRelease, Goto, Unlocked
    <2>. QED
      BY <1>4, <2>1, <2>2, <2>3, <2>4, <2>5, <2>6, <2>7, <2>8, <2>9, <2>10,
         <2>11, <2>12 DEF Step
  <1>5. CASE UNCHANGED vars
    BY <1>5 DEF vars
  <1>. QED
    BY <1>1, <1>2, <1>3, <1>4, <1>5, RequestFacts DEF Next

(* A thread has a slot exactly where the code has a context or an index.   *)
LEMMA SlotStep == TypeOK /\ MutexInv /\ SlotInv /\ [Next]_vars => SlotInv'
  <1>. SUFFICES ASSUME TypeOK, MutexInv, SlotInv, [Next]_vars PROVE SlotInv'
    OBVIOUS
  <1>. USE ThreadsAssumption, SlotFacts DEF TypeOK, MutexInv, SlotInv,
          Critical, Owning, probeVars, lifeVars
  <1>1. CASE Startup
    BY <1>1 DEF Startup, Quiet
  <1>2. CASE Shutdown
    BY <1>2 DEF Shutdown, Quiet
  <1>3. ASSUME NEW t \in Threads, NEW w \in Requests, Call(t, w) PROVE SlotInv'
    BY <1>3 DEF Call, Goto
  <1>4. ASSUME NEW t \in Threads, Step(t) PROVE SlotInv'
    <2>1. CASE Lock(t)
      BY <2>1 DEF Lock, Goto, Acquire
    <2>2. CASE Scan(t)
      <3>1. CASE slot[t] = NoSlot
        BY <2>2, <3>1, SlotFacts DEF Scan, Goto
      <3>2. CASE slot[t] # NoSlot /\ ~available[slot[t]]
        <4>1. /\ slot' = [slot EXCEPT ![t] = slot[t] + 1]
              /\ pc' = pc /\ available' = available
              /\ pc[t] = "scan"
          BY <2>2, <3>2 DEF Scan
        <4>2. slot[t] \in Slots /\ slot[t] \in Nat /\ slot'[t] = slot[t] + 1
          BY <3>2, <4>1
        <4>3. \A j \in Slots : j < slot'[t] => j < slot[t] \/ j = slot[t]
          <5>. HIDE DEF TypeOK, MutexInv, SlotInv, Critical, Owning, NoSlot
          <5>1. \A j \in Slots : j \in Nat
            BY SlotFacts
          <5>. QED
            BY <4>2, <5>1, BeforeNext
        <4>4. \A j \in Slots : j < slot'[t] => ~available[j]
          BY <3>2, <4>1, <4>3
        <4>5. \A u \in Threads : u # t => slot'[u] = slot[u]
          BY <4>1
        <4>. QED
          BY <4>1, <4>4, <4>5
      <3>3. CASE slot[t] # NoSlot /\ available[slot[t]]
        BY <2>2, <3>3, SlotFacts DEF Scan, Goto
      <3>. QED
        BY <2>2, <3>1, <3>2, <3>3 DEF Scan
    <2>3. CASE Claim(t)
      BY <2>3 DEF Claim, Goto
    <2>4. CASE Create(t)
      BY <2>4 DEF Create, Goto
    <2>5. CASE Unlock(t)
      BY <2>5 DEF Unlock, Goto, Unlocked
    <2>6. CASE Start(t)
      BY <2>6 DEF Start, Goto
    <2>7. CASE Finish(t)
      BY <2>7 DEF Finish, Goto
    <2>8. CASE Stop(t)
      BY <2>8 DEF Stop, Goto
    <2>9. CASE Cleanup(t)
      BY <2>9 DEF Cleanup, Goto
    <2>10. CASE Relock(t)
      BY <2>10 DEF Relock, Goto, Acquire
    <2>11. CASE Release(t)
      BY <2>11 DEF Release, Goto
    <2>12. CASE UnlockRelease(t)
      BY <2>12 DEF UnlockRelease, Goto, Unlocked
    <2>. QED
      BY <1>4, <2>1, <2>2, <2>3, <2>4, <2>5, <2>6, <2>7, <2>8, <2>9, <2>10,
         <2>11, <2>12 DEF Step
  <1>5. CASE UNCHANGED vars
    BY <1>5 DEF vars
  <1>. QED
    BY <1>1, <1>2, <1>3, <1>4, <1>5, RequestFacts DEF Next

(* A probe in the hands of a thread stays marked unavailable.              *)
LEMMA OwnedStep == IInv /\ [Next]_vars => OwnedInv'
  <1>. SUFFICES ASSUME IInv, [Next]_vars PROVE OwnedInv'
    OBVIOUS
  <1>. USE DEF IInv, TypeOK, OwnedInv, SlotInv, ProbeExclusive, Owns, Owning,
          probeVars, lifeVars
  <1>1. CASE Startup
    BY <1>1 DEF Startup, Quiet
  <1>2. CASE Shutdown
    BY <1>2 DEF Shutdown, Quiet
  <1>3. ASSUME NEW t \in Threads, NEW w \in Requests, Call(t, w) PROVE
          OwnedInv'
    BY <1>3 DEF Call, Goto
  <1>4. ASSUME NEW t \in Threads, Step(t) PROVE OwnedInv'
    <2>1. CASE Lock(t)
      BY <2>1 DEF Lock, Goto, Acquire
    <2>2. CASE Scan(t)
      <3>1. CASE slot[t] = NoSlot
        BY <2>2, <3>1, SlotFacts DEF Scan, Goto
      <3>2. CASE slot[t] # NoSlot /\ ~available[slot[t]]
        BY <2>2, <3>2, SlotFacts DEF Scan, Goto
      <3>3. CASE slot[t] # NoSlot /\ available[slot[t]]
        BY <2>2, <3>3, SlotFacts DEF Scan, Goto
      <3>. QED
        BY <2>2, <3>1, <3>2, <3>3 DEF Scan
    <2>3. CASE Claim(t)
      BY <2>3 DEF Claim, Goto
    <2>4. CASE Create(t)
      BY <2>4 DEF Create, Goto
    <2>5. CASE Unlock(t)
      BY <2>5 DEF Unlock, Goto, Unlocked
    <2>6. CASE Start(t)
      BY <2>6 DEF Start, Goto
    <2>7. CASE Finish(t)
      BY <2>7 DEF Finish, Goto
    <2>8. CASE Stop(t)
      BY <2>8 DEF Stop, Goto
    <2>9. CASE Cleanup(t)
      BY <2>9 DEF Cleanup, Goto
    <2>10. CASE Relock(t)
      BY <2>10 DEF Relock, Goto, Acquire
    <2>11. CASE Release(t)
      BY <2>11 DEF Release, Goto
    <2>12. CASE UnlockRelease(t)
      BY <2>12 DEF UnlockRelease, Goto, Unlocked
    <2>. QED
      BY <1>4, <2>1, <2>2, <2>3, <2>4, <2>5, <2>6, <2>7, <2>8, <2>9, <2>10,
         <2>11, <2>12 DEF Step
  <1>5. CASE UNCHANGED vars
    BY <1>5 DEF vars
  <1>. QED
    BY <1>1, <1>2, <1>3, <1>4, <1>5, RequestFacts DEF Next

(* Handing out a probe that was available takes it from no other thread.   *)
LEMMA ExclusiveStep == IInv /\ [Next]_vars => ProbeExclusive'
  <1>. SUFFICES ASSUME IInv, [Next]_vars PROVE ProbeExclusive'
    OBVIOUS
  <1>. USE DEF IInv, TypeOK, OwnedInv, SlotInv, ProbeExclusive, Owns, Owning,
          probeVars, lifeVars
  <1>1. CASE Startup
    BY <1>1 DEF Startup, Quiet
  <1>2. CASE Shutdown
    BY <1>2 DEF Shutdown, Quiet
  <1>3. ASSUME NEW t \in Threads, NEW w \in Requests, Call(t, w) PROVE
          ProbeExclusive'
    BY <1>3 DEF Call, Goto
  <1>4. ASSUME NEW t \in Threads, Step(t) PROVE ProbeExclusive'
    <2>1. CASE Lock(t)
      BY <2>1 DEF Lock, Goto, Acquire
    <2>2. CASE Scan(t)
      <3>1. CASE slot[t] = NoSlot
        BY <2>2, <3>1, SlotFacts DEF Scan, Goto
      <3>2. CASE slot[t] # NoSlot /\ ~available[slot[t]]
        BY <2>2, <3>2, SlotFacts DEF Scan, Goto
      <3>3. CASE slot[t] # NoSlot /\ available[slot[t]]
        BY <2>2, <3>3, SlotFacts DEF Scan, Goto
      <3>. QED
        BY <2>2, <3>1, <3>2, <3>3 DEF Scan
    <2>3. CASE Claim(t)
      BY <2>3 DEF Claim, Goto
    <2>4. CASE Create(t)
      BY <2>4 DEF Create, Goto
    <2>5. CASE Unlock(t)
      BY <2>5 DEF Unlock, Goto, Unlocked
    <2>6. CASE Start(t)
      BY <2>6 DEF Start, Goto
    <2>7. CASE Finish(t)
      BY <2>7 DEF Finish, Goto
    <2>8. CASE Stop(t)
      BY <2>8 DEF Stop, Goto
    <2>9. CASE Cleanup(t)
      BY <2>9 DEF Cleanup, Goto
    <2>10. CASE Relock(t)
      BY <2>10 DEF Relock, Goto, Acquire
    <2>11. CASE Release(t)
      BY <2>11 DEF Release, Goto
    <2>12. CASE UnlockRelease(t)
      BY <2>12 DEF UnlockRelease, Goto, Unlocked
    <2>. QED
      BY <1>4, <2>1, <2>2, <2>3, <2>4, <2>5, <2>6, <2>7, <2>8, <2>9, <2>10,
         <2>11, <2>12 DEF Step
  <1>5. CASE UNCHANGED vars
    BY <1>5 DEF vars
  <1>. QED
    BY <1>1, <1>2, <1>3, <1>4, <1>5, RequestFacts DEF Next

(* The flag is cleared and set only by the thread that takes or returns    *)
(* the probe.                                                              *)
LEMMA LostStep == IInv /\ [Next]_vars => NoProbeLost'
  <1>. SUFFICES ASSUME IInv, [Next]_vars PROVE NoProbeLost'
    OBVIOUS
  <1>. USE DEF IInv, TypeOK, OwnedInv, SlotInv, ProbeExclusive, NoProbeLost,
          Owns, Owning, probeVars, lifeVars
  <1>1. CASE Startup
    BY <1>1 DEF Startup, Quiet
  <1>2. CASE Shutdown
    BY <1>2 DEF Shutdown, Quiet
  <1>3. ASSUME NEW t \in Threads, NEW w \in Requests, Call(t, w) PROVE
          NoProbeLost'
    BY <1>3 DEF Call, Goto
  <1>4. ASSUME NEW t \in Threads, Step(t) PROVE NoProbeLost'
    <2>1. CASE Lock(t)
      BY <2>1 DEF Lock, Goto, Acquire
    <2>2. CASE Scan(t)
      BY <2>2, SlotFacts DEF Scan, Goto
    <2>3. CASE Claim(t)
      BY <2>3 DEF Claim, Goto
    <2>4. CASE Create(t)
      BY <2>4 DEF Create, Goto
    <2>5. CASE Unlock(t)
      BY <2>5 DEF Unlock, Goto, Unlocked
    <2>6. CASE Start(t)
      BY <2>6 DEF Start, Goto
    <2>7. CASE Finish(t)
      BY <2>7 DEF Finish, Goto
    <2>8. CASE Stop(t)
      BY <2>8 DEF Stop, Goto
    <2>9. CASE Cleanup(t)
      BY <2>9 DEF Cleanup, Goto
    <2>10. CASE Relock(t)
      BY <2>10 DEF Relock, Goto, Acquire
    <2>11. CASE Release(t)
      BY <2>11 DEF Release, Goto
    <2>12. CASE UnlockRelease(t)
      BY <2>12 DEF UnlockRelease, Goto, Unlocked
    <2>. QED
      BY <1>4, <2>1, <2>2, <2>3, <2>4, <2>5, <2>6, <2>7, <2>8, <2>9, <2>10,
         <2>11, <2>12 DEF Step
  <1>5. CASE UNCHANGED vars
    BY <1>5 DEF vars
  <1>. QED
    BY <1>1, <1>2, <1>3, <1>4, <1>5, RequestFacts DEF Next

(* A probe that lies in the pool is unbuilt or stopped and whole.          *)
LEMMA FreeStep == IInv /\ [Next]_vars => FreeInv'
  <1>. SUFFICES ASSUME IInv, [Next]_vars PROVE FreeInv'
    OBVIOUS
  <1>. USE DEF IInv, TypeOK, OwnedInv, SlotInv, ProbeExclusive, NoProbeLost,
          Owns, Owning, probeVars, lifeVars, FreeInv, BuiltInv, WrongRate
  <1>1. CASE Startup
    BY <1>1 DEF Startup, Quiet
  <1>2. CASE Shutdown
    BY <1>2 DEF Shutdown, Quiet
  <1>3. ASSUME NEW t \in Threads, NEW w \in Requests, Call(t, w) PROVE FreeInv'
    BY <1>3 DEF Call, Goto
  <1>4. ASSUME NEW t \in Threads, Step(t) PROVE FreeInv'
    <2>1. CASE Lock(t)
      BY <2>1 DEF Lock, Goto, Acquire
    <2>2. CASE Scan(t)
      BY <2>2, SlotFacts DEF Scan, Goto
    <2>3. CASE Claim(t)
      BY <2>3 DEF Claim, Goto
    <2>4. CASE Create(t)
      <3>1. want[t].freq # NoFreq
        BY RequestFacts
      <3>2. slot[t] \in Slots /\ ~available[slot[t]]
        BY <2>4 DEF Create, Goto
      <3>. QED
        BY <2>4, <3>1, <3>2 DEF Create
    <2>5. CASE Unlock(t)
      BY <2>5 DEF Unlock, Goto, Unlocked
    <2>6. CASE Start(t)
      BY <2>6 DEF Start, Goto
    <2>7. CASE Finish(t)
      BY <2>7 DEF Finish, Goto
    <2>8. CASE Stop(t)
      BY <2>8 DEF Stop, Goto
    <2>9. CASE Cleanup(t)
      BY <2>9 DEF Cleanup, Goto
    <2>10. CASE Relock(t)
      BY <2>10 DEF Relock, Goto, Acquire
    <2>11. CASE Release(t)
      BY <2>11 DEF Release, Goto
    <2>12. CASE UnlockRelease(t)
      BY <2>12 DEF UnlockRelease, Goto, Unlocked
    <2>. QED
      BY <1>4, <2>1, <2>2, <2>3, <2>4, <2>5, <2>6, <2>7, <2>8, <2>9, <2>10,
         <2>11, <2>12 DEF Step
  <1>5. CASE UNCHANGED vars
    BY <1>5 DEF vars
  <1>. QED
    BY <1>1, <1>2, <1>3, <1>4, <1>5, RequestFacts DEF Next

(* The probe in the hands of a thread is in the state its place in the     *)
(* code says.                                                              *)
LEMMA BuiltStep == IInv /\ [Next]_vars => BuiltInv'
  <1>. SUFFICES ASSUME IInv, [Next]_vars PROVE BuiltInv'
    OBVIOUS
  <1>. USE DEF IInv, TypeOK, OwnedInv, SlotInv, ProbeExclusive, NoProbeLost,
          Owns, Owning, probeVars, lifeVars, FreeInv, BuiltInv, WrongRate
  <1>1. CASE Startup
    BY <1>1 DEF Startup, Quiet
  <1>2. CASE Shutdown
    BY <1>2 DEF Shutdown, Quiet
  <1>3. ASSUME NEW t \in Threads, NEW w \in Requests, Call(t, w) PROVE
          BuiltInv'
    BY <1>3 DEF Call, Goto
  <1>4. ASSUME NEW t \in Threads, Step(t) PROVE BuiltInv'
    <2>1. CASE Lock(t)
      BY <2>1 DEF Lock, Goto, Acquire
    <2>2. CASE Scan(t)
      BY <2>2, SlotFacts DEF Scan, Goto
    <2>3. CASE Claim(t)
      BY <2>3 DEF Claim, Goto
    <2>4. CASE Create(t)
      <3>1. slot[t] \in Slots /\ pc[t] = "create" /\ Owns(t, slot[t])
        BY <2>4 DEF Create, Goto
      <3>2. /\ initialized'[slot[t]]
            /\ state'[slot[t]] = "idle"
            /\ want[t].enforce => freq'[slot[t]] = want[t].freq
        <4>1. CASE initialized[slot[t]]
          BY <2>4, <3>1, <4>1 DEF Create
        <4>2. CASE ~initialized[slot[t]]
          BY <2>4, <3>1, <4>2 DEF Create
        <4>. QED
          BY <4>1, <4>2
      <3>3. \A u \in Threads, i \in Slots : Owns(u, i) /\ u # t =>
              /\ i # slot[t]
              /\ initialized'[i] = initialized[i] /\ state'[i] = state[i]
              /\ freq'[i] = freq[i] /\ pc'[u] = pc[u]
        BY <2>4, <3>1 DEF Create, Goto
      <3>. QED
        BY <2>4, <3>1, <3>2, <3>3 DEF Create, Goto
    <2>5. CASE Unlock(t)
      BY <2>5 DEF Unlock, Goto, Unlocked
    <2>6. CASE Start(t)
      BY <2>6 DEF Start, Goto
    <2>7. CASE Finish(t)
      BY <2>7 DEF Finish, Goto
    <2>8. CASE Stop(t)
      BY <2>8 DEF Stop, Goto
    <2>9. CASE Cleanup(t)
      BY <2>9 DEF Cleanup, Goto
    <2>10. CASE Relock(t)
      BY <2>10 DEF Relock, Goto, Acquire
    <2>11. CASE Release(t)
      BY <2>11 DEF Release, Goto
    <2>12. CASE UnlockRelease(t)
      BY <2>12 DEF UnlockRelease, Goto, Unlocked
    <2>. QED
      BY <1>4, <2>1, <2>2, <2>3, <2>4, <2>5, <2>6, <2>7, <2>8, <2>9, <2>10,
         <2>11, <2>12 DEF Step
  <1>5. CASE UNCHANGED vars
    BY <1>5 DEF vars
  <1>. QED
    BY <1>1, <1>2, <1>3, <1>4, <1>5, RequestFacts DEF Next

(* The conjuncts are inductive together.                                   *)
LEMMA IInvStep == IInv /\ [Next]_vars => IInv'
  BY TypeStep, MutexStep, SlotStep, OwnedStep, ExclusiveStep, LostStep,
     FreeStep, BuiltStep DEF IInv

(* So they hold of every behaviour.                                        *)
LEMMA Invariance == Spec => []IInv
  BY InitIInv, IInvStep, PTL DEF Spec
------------------------------------------------------------------------------
(* The variables of the pool always have their types. *)
THEOREM TypeCorrect == Spec => []TypeOK
  <1>1. IInv => TypeOK
    BY DEF IInv
  <1>. QED
    BY <1>1, Invariance, PTL

(* No two threads ever drive the same uade_state, however many of them     *)
(* call the player (get_probe_context, release_probe_context).             *)
THEOREM ProbesAreExclusive == Spec => []ProbeExclusive
  <1>1. IInv => ProbeExclusive
    BY DEF IInv
  <1>. QED
    BY <1>1, Invariance, PTL

(* A probe is handed over stopped and at the rate its caller insists on:   *)
(* the asserts of get_probe_context on the state and the frequency hold.   *)
THEOREM ProbesAreUsable == Spec => []ProbeUsable
  <1>1. IInv => ProbeUsable
    BY DEF IInv, ProbeUsable, BuiltInv, FreeInv, Owns, Owning, TypeOK
  <1>. QED
    BY <1>1, Invariance, PTL

(* Every probe that is not available is in the hands of a thread: parse,   *)
(* play and stop return it on all their paths.                             *)
THEOREM NoProbeIsLost == Spec => []NoProbeLost
  <1>1. IInv => NoProbeLost
    BY DEF IInv
  <1>. QED
    BY <1>1, Invariance, PTL
------------------------------------------------------------------------------
(* If all probes are taken and t holds none, the others hold one each: but *)
(* there are fewer of them than probes.                                    *)
LEMMA SomeProbeIsFree ==
  ASSUME IInv, EnoughProbes, NEW t \in Threads, pc[t] \notin Owning
  PROVE  \E i \in Slots : available[i]
  <1>. SUFFICES ASSUME \A i \in Slots : ~available[i] PROVE FALSE
    BY DEF IInv, TypeOK
  <1>. DEFINE Others == Threads \ {t}
              holder == [i \in Slots |-> CHOOSE u \in Threads : Owns(u, i)]
  <1>1. \A i \in Slots : holder[i] \in Threads /\ Owns(holder[i], i)
    BY DEF IInv, NoProbeLost
  <1>2. holder \in [Slots -> Others]
    BY <1>1 DEF Owns
  <1>3. IsFiniteSet(Slots) /\ Cardinality(Slots) = MaxProbes
    BY FS_Interval, ProbesAssumption DEF Slots
  <1>4. IsFiniteSet(Others) /\ Cardinality(Others) = Cardinality(Threads) - 1
    BY FS_RemoveElement, ThreadsAssumption
  <1>5. Cardinality(Others) < Cardinality(Slots)
    BY <1>3, <1>4, FS_CardinalityType, ThreadsAssumption, ProbesAssumption
    DEF EnoughProbes
  <1>6. PICK x \in Slots, y \in Slots : x # y /\ holder[x] = holder[y]
    <2>. HIDE DEF holder, Others
    <2>. QED
      BY <1>2, <1>3, <1>4, <1>5, FS_PigeonHole
  <1>. QED
    BY <1>1, <1>6 DEF Owns

Found ==
  EnoughProbes => \A t \in Threads :
    pc[t] \in {"unlock", "start"} => slot[t] # NoSlot

(* The search does not run past the last probe.                            *)
LEMMA FoundStep == IInv /\ Found /\ [Next]_vars => Found'
  <1>. SUFFICES ASSUME IInv, Found, EnoughProbes, [Next]_vars,
                       NEW u \in Threads, pc'[u] \in {"unlock", "start"}
                PROVE  slot'[u] # NoSlot
    BY DEF Found, EnoughProbes
  <1>. USE DEF IInv, TypeOK, Found, probeVars, lifeVars
  <1>1. CASE Startup
    BY <1>1 DEF Startup, Quiet
  <1>2. CASE Shutdown
    BY <1>2 DEF Shutdown, Quiet
  <1>3. ASSUME NEW t \in Threads, NEW w \in Requests, Call(t, w)
        PROVE  slot'[u] # NoSlot
    BY <1>3 DEF Call, Goto
  <1>4. ASSUME NEW t \in Threads, Step(t) PROVE slot'[u] # NoSlot
    <2>1. CASE Scan(t)
      <3>1. CASE u # t
        BY <2>1, <3>1 DEF Scan, Goto
      <3>2. CASE u = t
        <4>1. PICK i \in Slots : available[i]
          BY <2>1, SomeProbeIsFree DEF Scan, Owning
        <4>2. i < NoSlot
          BY ProbesAssumption DEF Slots, NoSlot
        <4>3. slot[t] # NoSlot
          BY <2>1, <4>1, <4>2 DEF Scan, SlotInv
        <4>. QED
          BY <2>1, <3>2, <4>3 DEF Scan, Goto
      <3>. QED
        BY <3>1, <3>2
    <2>2. CASE Create(t)
      BY <2>2, SlotFacts DEF Create, Goto, SlotInv, Owning
    <2>3. CASE Unlock(t)
      BY <2>3 DEF Unlock, Goto
    <2>4. CASE Lock(t) \/ Claim(t) \/ Relock(t) \/ Release(t) \/
            UnlockRelease(t)
      BY <2>4 DEF Lock, Claim, Relock, Release, UnlockRelease, Goto
    <2>5. CASE Start(t) \/ Finish(t) \/ Stop(t) \/ Cleanup(t)
      BY <2>5 DEF Start, Finish, Stop, Cleanup, Goto
    <2>. QED
      BY <1>4, <2>1, <2>2, <2>3, <2>4, <2>5 DEF Step
  <1>5. CASE UNCHANGED vars
    BY <1>5 DEF vars
  <1>. QED
    BY <1>1, <1>2, <1>3, <1>4, <1>5, RequestFacts DEF Next

(* With no more callers than probes, get_probe_context's assert(context)   *)
(* never fires.                                                            *)
THEOREM ProbeIsFound == Spec => []ProbeFound
  <1>1. Init => Found
    BY DEF Init, Found
  <1>2. Found => ProbeFound
    BY DEF Found, ProbeFound
  <1>. QED
    BY <1>1, <1>2, FoundStep, Invariance, PTL DEF Spec

(* A caller of get_probe_context gets a probe, and one it can use: none of *)
(* its asserts fails.                                                      *)
THEOREM ProbesAreReady == Spec => []ProbeReady
  BY ProbeIsFound, ProbesAreUsable, PTL DEF ProbeReady
------------------------------------------------------------------------------
(* The pool implements ProbePool: the store to available in                *)
(* get_probe_context is Acquire, the one in release_probe_context is       *)
(* Release, and every other step is invisible.                             *)
THEOREM Refinement == Spec => ImplementsPool
  <1>1. Init => Pool!Init
    BY DEF Init, Pool!Init, Held, Owns, Owning
  <1>2. ASSUME IInv, [Next]_vars PROVE [Pool!Next]_Held
    <2>. USE <1>2 DEF IInv, TypeOK, probeVars, lifeVars
    <2>1. ASSUME NEW t \in Threads, Claim(t) PROVE Pool!Next
      <3>1. slot[t] \in Slots /\ available[slot[t]]
        BY <2>1 DEF Claim, Goto, SlotInv
      <3>2. \A p \in Held : p[1] # t /\ p[2] # slot[t]
        BY <2>1, <3>1 DEF Claim, Goto, Held, Owns, Owning, OwnedInv
      <3>3. \A u \in Threads, i \in Slots :
              Owns(u, i)' <=> Owns(u, i) \/ (u = t /\ i = slot[t])
        BY <2>1, <3>1 DEF Claim, Goto, Owns, Owning
      <3>4. Held' = Held \cup {<<t, slot[t]>>}
        BY <3>1, <3>3 DEF Held
      <3>. QED
        BY <3>1, <3>2, <3>4 DEF Pool!Next, Pool!Acquire
    <2>2. ASSUME NEW t \in Threads, Release(t) PROVE Pool!Next
      <3>1. slot[t] \in Slots /\ Owns(t, slot[t])
        BY <2>2 DEF Release, Goto, SlotInv, Owns, Owning
      <3>2. \A u \in Threads, i \in Slots :
              Owns(u, i)' <=> Owns(u, i) /\ ~(u = t /\ i = slot[t])
        BY <2>2, <3>1 DEF Release, Goto, Owns, Owning, ProbeExclusive
      <3>3. Held' = Held \ {<<t, slot[t]>>}
        BY <3>1, <3>2 DEF Held
      <3>4. <<t, slot[t]>> \in Held
        BY <3>1 DEF Held
      <3>. QED
        BY <3>1, <3>3, <3>4 DEF Pool!Next, Pool!Release
    <2>3. ASSUME \A u \in Threads, i \in Slots : Owns(u, i)' <=> Owns(u, i)
          PROVE  UNCHANGED Held
      BY <2>3 DEF Held
    <2>. USE SlotFacts DEF Owns, Owning
    <2>4. CASE Startup \/ Shutdown \/ UNCHANGED vars
      BY <2>3, <2>4 DEF Startup, Shutdown, vars
    <2>5. ASSUME NEW t \in Threads, NEW w \in Requests, Call(t, w)
          PROVE  UNCHANGED Held
      BY <2>3, <2>5 DEF Call, Goto
    <2>6. ASSUME NEW t \in Threads, Lock(t) \/ Create(t) \/ Unlock(t)
          PROVE  UNCHANGED Held
      BY <2>3, <2>6 DEF Lock, Create, Unlock, Goto
    <2>7. ASSUME NEW t \in Threads, Scan(t) PROVE UNCHANGED Held
      BY <2>3, <2>7 DEF Scan, Goto
    <2>8. ASSUME NEW t \in Threads,
                 Start(t) \/ Finish(t) \/ Stop(t) \/ Cleanup(t)
          PROVE  UNCHANGED Held
      BY <2>3, <2>8 DEF Start, Finish, Stop, Cleanup, Goto
    <2>9. ASSUME NEW t \in Threads, Relock(t) \/ UnlockRelease(t)
          PROVE  UNCHANGED Held
      BY <2>3, <2>9 DEF Relock, UnlockRelease, Goto
    <2>. QED
      BY <2>1, <2>2, <2>4, <2>5, <2>6, <2>7, <2>8, <2>9, RequestFacts
      DEF Next, Step, vars
  <1>. QED
    BY <1>1, <1>2, Invariance, PTL DEF Spec, Pool!Spec, ImplementsPool
------------------------------------------------------------------------------
(* The probes that are built are the ones that own a process, and there    *)
(* are none while the plugin is not loaded.                                *)
Built == {i \in Slots : initialized[i]}

CoresInv ==
  /\ ~up => Quiet /\ Built = {}
  /\ \A i \in Slots : state[i] \in LiveState <=> initialized[i]
  /\ cores = Cardinality(Built)

LEMMA BuiltIsFinite == IsFiniteSet(Built)
  <1>1. IsFiniteSet(Slots)
    BY FS_Interval, ProbesAssumption DEF Slots
  <1>. QED
    BY <1>1, FS_Subset DEF Built

LEMMA InitCores == Init => CoresInv
  BY FS_EmptySet DEF Init, CoresInv, Built, Quiet, LiveState

(* uade_new_state and uade_cleanup_state are called as probes come and go. *)
LEMMA CoresStep == IInv /\ CoresInv /\ [Next]_vars => CoresInv'
  <1>. SUFFICES ASSUME IInv, CoresInv, [Next]_vars PROVE CoresInv'
    OBVIOUS
  <1>. USE DEF probeVars, lifeVars
  <1>0. TypeOK
    BY DEF IInv
  <1>1. CASE Startup
    <2>1. Built = {} /\ cores = 0 /\ cores' = cores /\ up'
      BY <1>1, FS_EmptySet DEF Startup, CoresInv
    <2>2. \A i \in Slots : state'[i] = "null" /\ ~initialized'[i]
      BY <1>1 DEF Startup
    <2>3. Built' = {}
      BY <2>2 DEF Built
    <2>. QED
      BY <2>1, <2>2, <2>3, FS_EmptySet DEF CoresInv, LiveState
  <1>2. CASE Shutdown
    <2>1. /\ Quiet' /\ cores' = cores - Cardinality(Built)
      BY <1>2 DEF Shutdown, Quiet, Built
    <2>2. cores' = 0
      BY <2>1, BuiltIsFinite, FS_CardinalityType DEF CoresInv
    <2>3. \A i \in Slots : ~initialized'[i]
      BY <1>2 DEF Shutdown
    <2>4. \A i \in Slots :
            state'[i] = IF initialized[i] THEN "null" ELSE state[i]
      BY <1>2 DEF Shutdown
    <2>5. \A i \in Slots : state'[i] \notin LiveState
      BY <2>4 DEF CoresInv, LiveState
    <2>6. Built' = {}
      BY <2>3 DEF Built
    <2>. QED
      BY <2>1, <2>2, <2>3, <2>5, <2>6, FS_EmptySet DEF CoresInv
  <1>3. ASSUME NEW t \in Threads, NEW w \in Requests, Call(t, w)
        PROVE  CoresInv'
    BY <1>3 DEF Call, Goto, CoresInv, Built
  <1>4. ASSUME NEW t \in Threads, Step(t) PROVE CoresInv'
    <2>0. up /\ up' = up
      BY <1>4 DEF Step, Lock, Scan, Claim, Create, Unlock, Start, Finish, Stop,
        Cleanup, Relock, Release, UnlockRelease, Goto, CoresInv, Quiet
    <2>1. CASE Lock(t) \/ Scan(t) \/ Unlock(t) \/ Finish(t) \/ Relock(t)
                 \/ Release(t) \/ UnlockRelease(t)
      <3>1. initialized' = initialized /\ state' = state /\ cores' = cores
        BY <2>1
        DEF Lock, Scan, Unlock, Finish, Relock, Release, UnlockRelease
      <3>. QED
        BY <2>0, <3>1 DEF CoresInv, Built
    <2>2. ASSUME UNCHANGED <<initialized, cores>>,
                 NEW s \in LiveState, slot[t] \in Slots,
                 initialized[slot[t]],
                 state' = [state EXCEPT ![slot[t]] = s]
          PROVE  CoresInv'
      <3>1. \A i \in Slots : state'[i] = IF i = slot[t] THEN s ELSE state[i]
        BY <1>0, <2>2 DEF TypeOK
      <3>2. Built' = Built
        BY <2>2 DEF Built
      <3>. QED
        BY <2>0, <2>2, <3>1, <3>2 DEF CoresInv
    <2>3. ASSUME pc[t] \in {"start", "stop", "cleanup"}, slot[t] # NoSlot
          PROVE  slot[t] \in Slots /\ initialized[slot[t]]
      <3>1. slot[t] \in Slots
        BY <1>0, <2>3 DEF TypeOK
      <3>2. Owns(t, slot[t]) /\ pc[t] # "create"
        BY <2>3 DEF Owns, Owning
      <3>. QED
        BY <3>1, <3>2 DEF IInv, BuiltInv
    <2>4. CASE Start(t)
      <3>1. /\ slot[t] # NoSlot /\ pc[t] = "start"
            /\ UNCHANGED <<initialized, cores>>
            /\ \/ state' = [state EXCEPT ![slot[t]] = "playing"]
               \/ state' = state
        BY <2>4 DEF Start, Goto
      <3>2. CASE state' = state
        BY <2>0, <3>1, <3>2 DEF CoresInv, Built
      <3>3. CASE state' = [state EXCEPT ![slot[t]] = "playing"]
        BY <2>2, <2>3, <3>1, <3>3 DEF LiveState
      <3>. QED
        BY <3>1, <3>2, <3>3
    <2>5. CASE Stop(t) \/ Cleanup(t)
      <3>1. /\ pc[t] \in {"stop", "cleanup"}
            /\ UNCHANGED <<initialized, cores>>
            /\ \E s \in {"idle", "broken"} :
                 state' = [state EXCEPT ![slot[t]] = s]
        BY <2>5 DEF Stop, Cleanup, Goto
      <3>2. slot[t] # NoSlot
        BY <3>1, SlotFacts DEF IInv, SlotInv, Owning
      <3>. QED
        BY <2>2, <2>3, <3>1, <3>2 DEF LiveState
    <2>6. CASE Claim(t)
      <3>. DEFINE i == slot[t]
      <3>1. i \in Slots
        BY <2>6 DEF Claim, Goto, IInv, SlotInv
      <3>2. CASE WrongRate(t, i)
        <4>1. /\ state' = [state EXCEPT ![i] = "freed"]
              /\ initialized' = [initialized EXCEPT ![i] = FALSE]
              /\ cores' = cores - 1
          BY <2>6, <3>2 DEF Claim
        <4>2. i \in Built
          BY <3>1, <3>2 DEF WrongRate, Built
        <4>3. Built' = Built \ {i}
          BY <1>0, <3>1, <4>1 DEF Built, TypeOK
        <4>4. Cardinality(Built \ {i}) = Cardinality(Built) - 1
          BY <4>2, BuiltIsFinite, FS_RemoveElement
        <4>5. \A j \in Slots : state'[j] \in LiveState <=> initialized'[j]
          BY <1>0, <4>1 DEF CoresInv, LiveState, TypeOK
        <4>. QED
          BY <2>0, <4>1, <4>3, <4>4, <4>5 DEF CoresInv
      <3>3. CASE ~WrongRate(t, i)
        <4>1. initialized' = initialized /\ state' = state /\ cores' = cores
          BY <2>6, <3>3 DEF Claim
        <4>. QED
          BY <2>0, <4>1 DEF CoresInv, Built
      <3>. QED
        BY <3>2, <3>3
    <2>7. CASE Create(t)
      <3>. DEFINE i == slot[t]
      <3>1. i \in Slots
        BY <2>7 DEF Create, Goto, IInv, SlotInv, Owning
      <3>2. CASE ~initialized[i]
        <4>1. /\ state' = [state EXCEPT ![i] = "idle"]
              /\ initialized' = [initialized EXCEPT ![i] = TRUE]
              /\ cores' = cores + 1
          BY <2>7, <3>2 DEF Create
        <4>2. i \notin Built
          BY <3>2 DEF Built
        <4>3. Built' = Built \cup {i}
          BY <1>0, <3>1, <4>1 DEF Built, TypeOK
        <4>4. Cardinality(Built \cup {i}) = Cardinality(Built) + 1
          BY <4>2, BuiltIsFinite, FS_AddElement
        <4>5. \A j \in Slots : state'[j] \in LiveState <=> initialized'[j]
          BY <1>0, <4>1 DEF CoresInv, LiveState, TypeOK
        <4>. QED
          BY <2>0, <4>1, <4>3, <4>4, <4>5 DEF CoresInv
      <3>3. CASE initialized[i]
        <4>1. initialized' = initialized /\ state' = state /\ cores' = cores
          BY <2>7, <3>3 DEF Create
        <4>. QED
          BY <2>0, <4>1 DEF CoresInv, Built
      <3>. QED
        BY <3>2, <3>3
    <2>. QED
      BY <1>4, <2>1, <2>4, <2>5, <2>6, <2>7 DEF Step
  <1>5. CASE UNCHANGED vars
    BY <1>5 DEF vars, CoresInv, Built, Quiet
  <1>. QED
    BY <1>1, <1>2, <1>3, <1>4, <1>5, RequestFacts DEF Next

(* No uadecore process is left behind, by a probe that is rebuilt, by a    *)
(* caller that fails or by the plugin when it is unloaded.                 *)
THEOREM NoCoreIsLost == Spec => []CoresAccounted
  <1>1. CoresInv => CoresAccounted
    <2>. SUFFICES ASSUME CoresInv PROVE CoresAccounted
      OBVIOUS
    <2>1. {i \in Slots : state[i] \in LiveState} = Built
      BY DEF CoresInv, Built
    <2>. QED
      BY <2>1, FS_EmptySet DEF CoresInv, CoresAccounted
  <1>. QED
    BY <1>1, InitCores, CoresStep, Invariance, PTL DEF Spec
==============================================================================
