----------------------------- MODULE UadeProbes ------------------------------
(***************************************************************************)
(* The pool of UADE probe contexts of player_uade.cc.                      *)
(*                                                                         *)
(* Reading a module's information (uade::parse) and rendering a song to    *)
(* find where it ends (uade::play with config.probe) run on the host's     *)
(* threads, several at a time.  Each borrows one of MAX_PROBES static      *)
(* uade_context records, each of which owns a uade_state, that is a        *)
(* uadecore child process.  probe_mutex guards the search for a free       *)
(* record and its return; everything in between runs without the lock.     *)
(*                                                                         *)
(* One action is one step of a thread between two points where another     *)
(* thread can observe the pool.  libuade is external: uade_play_from_buffer*)
(* and uade_stop may succeed or fail.                                      *)
(***************************************************************************)
EXTENDS Integers, FiniteSets

CONSTANTS
  Threads,       \* the host's threads that call the player
  NoThread,      \* probe_mutex is free
  MaxProbes,     \* MAX_PROBES
  Freqs,         \* the sampling rates a caller may ask for
  PrecalcFreq,   \* PRECALC_FREQ, the rate uade::parse asks for
  MaxCalls,      \* bound: calls per thread
  MaxLives       \* bound: number of times the plugin is started

ASSUME ThreadsAssumption == IsFiniteSet(Threads) /\ NoThread \notin Threads
ASSUME ProbesAssumption  == MaxProbes \in Nat \ {0}
ASSUME FreqsAssumption   == Freqs \subseteq Nat \ {0} /\ PrecalcFreq \in Freqs
ASSUME BoundsAssumption  == MaxCalls \in Nat /\ MaxLives \in Nat

(* A call holds one probe at a time, so MAX_PROBES callers can be served.  *)
EnoughProbes == Cardinality(Threads) <= MaxProbes

Slots   == 0 .. MaxProbes - 1
NoSlot  == MaxProbes   \* the null context; also the loop index past the end
NoFreq  == 0           \* config = nullptr

VARIABLES
  up,            \* the uade player is initialized
  lives,         \* how often it has been initialized
  initialized,   \* probes[i].initialized
  available,     \* probes[i].available
  state,         \* what probes[i].state points to
  freq,          \* probes[i].config->frequency
  cores,         \* uade_new_state calls minus uade_cleanup_state calls
  probe_mutex,   \* the thread that holds probe_mutex
  pc,            \* where each thread is in its call
  slot,          \* get_probe_context's loop index, then the context it holds
  want,          \* the arguments of get_probe_context
  calls          \* calls made by each thread

probeVars == <<initialized, available, state, freq, cores>>
lifeVars  == <<up, lives>>
vars      == <<probeVars, lifeVars, probe_mutex, pc, slot, want, calls>>

Requests == [freq : Freqs, enforce : BOOLEAN]

(* uade::parse takes any probe, building a missing one at PRECALC_FREQ;    *)
(* a precalc takes one of exactly its own rate.                            *)
ParseRequest   == [freq |-> PrecalcFreq, enforce |-> FALSE]
PlayRequest(f) == [freq |-> f, enforce |-> TRUE]

StateKinds == {"null", "idle", "playing", "broken", "freed"}
LiveState  == {"idle", "playing", "broken"}

Pcs == {"idle", "lock", "scan", "claim", "create", "unlock", "start", "using",
        "stop", "cleanup", "relock", "release", "unlockRelease"}

(* A thread owns the probe from the store to available in                  *)
(* get_probe_context to the one in release_probe_context.                  *)
Owning == {"create", "unlock", "start", "using", "stop", "cleanup", "relock",
           "release"}
Critical == {"scan", "claim", "create", "unlock", "release", "unlockRelease"}

Owns(t, i) == pc[t] \in Owning /\ slot[t] = i

Quiet == \A t \in Threads : pc[t] = "idle"

Goto(t, from, to) ==
  /\ pc[t] = from
  /\ pc' = [pc EXCEPT ![t] = to]

(* Mutant of Acquire: the lock_guard is missing. *)
AcquireUnguarded(t) == probe_mutex' = t

Acquire(t) ==
  /\ probe_mutex = NoThread
  /\ probe_mutex' = t

Unlocked(t) == probe_mutex' = NoThread

Init ==
  /\ up = FALSE
  /\ lives = 0
  /\ initialized = [i \in Slots |-> FALSE]
  /\ available = [i \in Slots |-> TRUE]
  /\ state = [i \in Slots |-> "null"]
  /\ freq = [i \in Slots |-> NoFreq]
  /\ cores = 0
  /\ probe_mutex = NoThread
  /\ pc = [t \in Threads |-> "idle"]
  /\ slot = [t \in Threads |-> NoSlot]
  /\ want = [t \in Threads |-> ParseRequest]
  /\ calls = [t \in Threads |-> 0]
------------------------------------------------------------------------------
(* The plugin's life.  The hosts load and unload a plugin while none of    *)
(* its calls is running.                                                   *)

(* uade::init: every record is reset. *)
Startup ==
  /\ ~up /\ Quiet
  /\ lives < MaxLives
  /\ up' = TRUE
  /\ lives' = lives + 1
  /\ initialized' = [i \in Slots |-> FALSE]
  /\ available' = [i \in Slots |-> TRUE]
  /\ state' = [i \in Slots |-> "null"]
  /\ freq' = [i \in Slots |-> NoFreq]
  /\ UNCHANGED <<cores, probe_mutex, pc, slot, want, calls>>

(* Mutant of Shutdown: the states are forgotten, not cleaned up. *)
ShutdownOrphans ==
  /\ up /\ Quiet
  /\ up' = FALSE
  /\ initialized' = [i \in Slots |-> FALSE]
  /\ state' = [i \in Slots |-> "null"]
  /\ freq' = [i \in Slots |-> NoFreq]
  /\ UNCHANGED <<cores, available, lives, probe_mutex, pc, slot, want, calls>>

(* uade::shutdown: frees every probe that was ever built; available is     *)
(* left as it is.                                                          *)
Shutdown ==
  /\ up /\ Quiet
  /\ up' = FALSE
  /\ initialized' = [i \in Slots |-> FALSE]
  /\ state' = [i \in Slots |-> IF initialized[i] THEN "null" ELSE state[i]]
  /\ freq' = [i \in Slots |-> IF initialized[i] THEN NoFreq ELSE freq[i]]
  /\ cores' = cores - Cardinality({i \in Slots : initialized[i]})
  /\ UNCHANGED <<available, lives, probe_mutex, pc, slot, want, calls>>
------------------------------------------------------------------------------
(* get_probe_context *)

Call(t, w) ==
  /\ up
  /\ calls[t] < MaxCalls
  /\ Goto(t, "idle", "lock")
  /\ calls' = [calls EXCEPT ![t] = @ + 1]
  /\ want' = [want EXCEPT ![t] = w]
  /\ UNCHANGED <<probeVars, lifeVars, probe_mutex, slot>>

Lock(t) ==
  /\ Goto(t, "lock", "scan")
  /\ Acquire(t)
  /\ slot' = [slot EXCEPT ![t] = 0]
  /\ UNCHANGED <<probeVars, lifeVars, want, calls>>

(* Mutant of Scan: the loop stops before the last probe.                    *)
ScanShort(t) ==
  /\ pc[t] = "scan"
  /\ \/ /\ slot[t] = MaxProbes - 1
        /\ slot' = [slot EXCEPT ![t] = NoSlot]
        /\ Goto(t, "scan", "unlock")
     \/ /\ slot[t] # MaxProbes - 1
        /\ ~available[slot[t]]
        /\ slot' = [slot EXCEPT ![t] = @ + 1]
        /\ UNCHANGED pc
     \/ /\ slot[t] # MaxProbes - 1
        /\ available[slot[t]]
        /\ Goto(t, "scan", "claim")
        /\ UNCHANGED slot
  /\ UNCHANGED <<probeVars, lifeVars, probe_mutex, want, calls>>

Scan(t) ==
  /\ pc[t] = "scan"
  /\ \/ /\ slot[t] = NoSlot
        /\ Goto(t, "scan", "unlock")
        /\ UNCHANGED slot
     \/ /\ slot[t] # NoSlot
        /\ ~available[slot[t]]
        /\ slot' = [slot EXCEPT ![t] = @ + 1]
        /\ UNCHANGED pc
     \/ /\ slot[t] # NoSlot
        /\ available[slot[t]]
        /\ Goto(t, "scan", "claim")
        /\ UNCHANGED slot
  /\ UNCHANGED <<probeVars, lifeVars, probe_mutex, want, calls>>

(* Mutant of WrongRate: the rate is compared only for probes that nobody    *)
(* insists on.                                                             *)
WrongRateIgnored(t, i) ==
  /\ ~want[t].enforce
  /\ initialized[i]
  /\ state[i] # "null"
  /\ freq[i] # want[t].freq

(* The probe was built for another rate and the caller insists on its own. *)
WrongRate(t, i) ==
  /\ want[t].enforce
  /\ initialized[i]
  /\ state[i] # "null"
  /\ freq[i] # want[t].freq

Claim(t) ==
  LET i == slot[t] IN
  /\ Goto(t, "claim", "create")
  /\ available' = [available EXCEPT ![i] = FALSE]
  /\ \/ /\ WrongRate(t, i)
        /\ state' = [state EXCEPT ![i] = "freed"]
        /\ initialized' = [initialized EXCEPT ![i] = FALSE]
        /\ cores' = cores - 1
     \/ /\ ~WrongRate(t, i)
        /\ UNCHANGED <<state, initialized, cores>>
  /\ UNCHANGED <<freq, lifeVars, probe_mutex, slot, want, calls>>

(* Mutant of Create: the rate is not passed on, and uade takes its own.     *)
CreateAtDefault(t) ==
  LET i == slot[t] IN
  /\ Goto(t, "create", "unlock")
  /\ \/ /\ ~initialized[i]
        /\ freq' = [freq EXCEPT ![i] = 44100]
        /\ state' = [state EXCEPT ![i] = "idle"]
        /\ initialized' = [initialized EXCEPT ![i] = TRUE]
        /\ cores' = cores + 1
     \/ /\ initialized[i]
        /\ UNCHANGED <<freq, state, initialized, cores>>
  /\ UNCHANGED <<available, lifeVars, probe_mutex, slot, want, calls>>

Create(t) ==
  LET i == slot[t] IN
  /\ Goto(t, "create", "unlock")
  /\ \/ /\ ~initialized[i]
        /\ freq' = [freq EXCEPT ![i] = want[t].freq]
        /\ state' = [state EXCEPT ![i] = "idle"]
        /\ initialized' = [initialized EXCEPT ![i] = TRUE]
        /\ cores' = cores + 1
     \/ /\ initialized[i]
        /\ UNCHANGED <<freq, state, initialized, cores>>
  /\ UNCHANGED <<available, lifeVars, probe_mutex, slot, want, calls>>

Unlock(t) ==
  /\ Goto(t, "unlock", "start")
  /\ Unlocked(t)
  /\ UNCHANGED <<probeVars, lifeVars, slot, want, calls>>
------------------------------------------------------------------------------
(* parse, play, stop: the probe in use *)

(* Mutant of Start: a song that cannot be played returns at once, without   *)
(* cleanup_context.                                                        *)
StartLeaks(t) ==
  /\ slot[t] # NoSlot
  /\ \/ /\ Goto(t, "start", "using")
        /\ state' = [state EXCEPT ![slot[t]] = "playing"]
     \/ /\ Goto(t, "start", "idle")
        /\ UNCHANGED state
  /\ UNCHANGED <<initialized, available, freq, cores, lifeVars, probe_mutex,
                 slot, want, calls>>

(* uade_play_from_buffer; a failure sends parse to ~probe_scope and play   *)
(* to cleanup_context, both of which stop and release the probe.           *)
Start(t) ==
  /\ slot[t] # NoSlot      \* assert(context) stops the caller otherwise
  /\ \/ /\ Goto(t, "start", "using")
        /\ state' = [state EXCEPT ![slot[t]] = "playing"]
     \/ /\ Goto(t, "start", "stop")
        /\ UNCHANGED state
  /\ UNCHANGED <<initialized, available, freq, cores, lifeVars, probe_mutex,
                 slot, want, calls>>

(* parse has copied the song info, or the precalc has rendered its last    *)
(* buffer and player::stop is called.                                      *)
Finish(t) ==
  /\ Goto(t, "using", "stop")
  /\ UNCHANGED <<probeVars, lifeVars, probe_mutex, slot, want, calls>>

(* stop_probe_context *)
Stop(t) ==
  /\ \/ /\ Goto(t, "stop", "relock")
        /\ state' = [state EXCEPT ![slot[t]] = "idle"]
     \/ /\ Goto(t, "stop", "cleanup")
        /\ state' = [state EXCEPT ![slot[t]] = "broken"]
  /\ UNCHANGED <<initialized, available, freq, cores, lifeVars, probe_mutex,
                 slot, want, calls>>

(* cleanup_probe_context: the state is replaced by a new one of the same   *)
(* configuration.                                                          *)
Cleanup(t) ==
  /\ Goto(t, "cleanup", "relock")
  /\ state' = [state EXCEPT ![slot[t]] = "idle"]
  /\ UNCHANGED <<initialized, available, freq, cores, lifeVars, probe_mutex,
                 slot, want, calls>>

(* release_probe_context *)
Relock(t) ==
  /\ Goto(t, "relock", "release")
  /\ Acquire(t)
  /\ UNCHANGED <<probeVars, lifeVars, slot, want, calls>>

Release(t) ==
  /\ Goto(t, "release", "unlockRelease")
  /\ available' = [available EXCEPT ![slot[t]] = TRUE]
  /\ UNCHANGED <<initialized, state, freq, cores, lifeVars, probe_mutex, slot,
                 want, calls>>

(* Mutant of UnlockRelease: lock() without the matching unlock().          *)
UnlockReleaseForgotten(t) ==
  /\ Goto(t, "unlockRelease", "idle")
  /\ slot' = [slot EXCEPT ![t] = NoSlot]
  /\ UNCHANGED <<probeVars, lifeVars, probe_mutex, want, calls>>

UnlockRelease(t) ==
  /\ Goto(t, "unlockRelease", "idle")
  /\ Unlocked(t)
  /\ slot' = [slot EXCEPT ![t] = NoSlot]
  /\ UNCHANGED <<probeVars, lifeVars, want, calls>>
------------------------------------------------------------------------------
Step(t) ==
  \/ Lock(t) \/ Scan(t) \/ Claim(t) \/ Create(t) \/ Unlock(t)
  \/ Start(t) \/ Finish(t) \/ Stop(t) \/ Cleanup(t)
  \/ Relock(t) \/ Release(t) \/ UnlockRelease(t)

Next ==
  \/ Startup
  \/ Shutdown
  \/ \E t \in Threads : Call(t, ParseRequest)
  \/ \E t \in Threads, f \in Freqs : Call(t, PlayRequest(f))
  \/ \E t \in Threads : Step(t)

Spec == Init /\ [][Next]_vars

(* A thread inside a call keeps running; the host need not make calls.     *)
Fairness == \A t \in Threads : WF_vars(Step(t))

FairSpec == Spec /\ Fairness
------------------------------------------------------------------------------
TypeOK ==
  /\ up \in BOOLEAN
  /\ lives \in Nat
  /\ initialized \in [Slots -> BOOLEAN]
  /\ available \in [Slots -> BOOLEAN]
  /\ state \in [Slots -> StateKinds]
  /\ freq \in [Slots -> Freqs \cup {NoFreq}]
  /\ cores \in Int
  /\ probe_mutex \in Threads \cup {NoThread}
  /\ pc \in [Threads -> Pcs]
  /\ slot \in [Threads -> Slots \cup {NoSlot}]
  /\ want \in [Threads -> Requests]
  /\ calls \in [Threads -> Nat]

(* Two threads never use the same probe: the uade_state is driven without  *)
(* a lock between get_probe_context and release_probe_context.             *)
ProbeExclusive ==
  \A t, u \in Threads, i \in Slots : Owns(t, i) /\ Owns(u, i) => t = u

(* get_probe_context always finds a free probe: its assert(context) holds, *)
(* provided there are no more callers than probes.                         *)
ProbeFound ==
  EnoughProbes => \A t \in Threads : pc[t] = "start" => slot[t] # NoSlot

(* The probe a caller is handed is stopped, alive, and of the rate it      *)
(* insisted on (the asserts that follow the search): whatever its last     *)
(* user did to it, including a failed uade_stop, has been undone.          *)
ProbeUsable ==
  \A t \in Threads : pc[t] = "start" /\ slot[t] # NoSlot =>
    /\ initialized[slot[t]]
    /\ state[slot[t]] = "idle"
    /\ freq[slot[t]] # NoFreq
    /\ want[t].enforce => freq[slot[t]] = want[t].freq

(* What get_probe_context asserts after its search, and hands over.        *)
ProbeReady == ProbeFound /\ ProbeUsable

(* A probe marked unavailable is in the hands of some thread: no path,     *)
(* error paths included, forgets to give it back, and shutdown, which      *)
(* does not reset the flags, leaves none behind.                           *)
NoProbeLost ==
  \A i \in Slots : ~available[i] => \E t \in Threads : Owns(t, i)

(* Every uadecore process is reachable from the pool, and none outlives    *)
(* the plugin.                                                             *)
CoresAccounted ==
  /\ cores = Cardinality({i \in Slots : state[i] \in LiveState})
  /\ ~up => cores = 0

(* A caller for whom the search found no probe; the code asserts.          *)
Unserved(t) == pc[t] = "start" /\ slot[t] = NoSlot

(* When the host makes no more calls, every probe has come back and the    *)
(* mutex is free: no call can hang in the pool, and callers that got none, *)
(* with more callers than probes, do not take one away from the others.    *)
AllProbesReturn ==
  <>[](/\ \A t \in Threads : pc[t] = "idle" \/ Unserved(t)
       /\ probe_mutex = NoThread
       /\ \A i \in Slots : available[i])

(* The pool implements the abstract one. *)
Held == {p \in Threads \X Slots : Owns(p[1], p[2])}

Pool == INSTANCE ProbePool WITH held <- Held

ImplementsPool == Pool!Spec
==============================================================================
