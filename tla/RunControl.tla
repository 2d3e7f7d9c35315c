------------------------------ MODULE RunControl ------------------------------
(***************************************************************************)
(* The dashboard's run button (dashboard/api.py, class _Runner): one       *)
(* subprocess at a time, started and stopped by requests that run on the   *)
(* threads of a pool, and one pump thread per start, which reads the       *)
(* output to its end and then keeps the return code.                       *)
(*                                                                         *)
(* A pump reads self._proc twice: for the output it reads, and again for   *)
(* the process it waits for.                                               *)
(***************************************************************************)
EXTENDS Naturals, FiniteSets

CONSTANTS Requests,   \* threads that serve POST /api/run and /api/run/stop
          MaxSpawned  \* bound: subprocesses started

ASSUME RunControlAssumption == IsFiniteSet(Requests) /\ MaxSpawned \in Nat

VARIABLES proc,      \* _proc: the subprocess started last, 0 if none
          rc,        \* _rc: the return code kept, by the process it is of; 0 if none
          lock,      \* the requests in the critical section of start
          request,   \* request[t]: where the request of the thread t is
          spawned,   \* subprocesses started so far
          alive,     \* the ones that have not ended
          pump       \* pump[n]: where the thread started with the process n is

runVars == <<proc, rc, lock, request, spawned, alive, pump>>

Processes == 1..MaxSpawned
PumpAt(place, of) == [at |-> place, of |-> of]

RunInit ==
    /\ proc = 0 /\ rc = 0
    /\ lock = {}
    /\ request = [t \in Requests |-> "off"]
    /\ spawned = 0
    /\ alive = {}
    /\ pump = [n \in Processes |-> PumpAt("off", 0)]

\* _running: poll() of the process there is now.
Running == proc \in alive

To(t, place) == request' = [request EXCEPT ![t] = place]

\* Mutated form of Acquire: start looks without the lock.
Acquire_NoLock(t) ==
    /\ request[t] = "off"
    /\ lock' = lock \union {t}
    /\ To(t, "look")
    /\ UNCHANGED <<proc, rc, spawned, alive, pump>>

\* start: the lock is taken ...
Acquire(t) ==
    /\ request[t] = "off" /\ lock = {}
    /\ lock' = {t}
    /\ To(t, "look")
    /\ UNCHANGED <<proc, rc, spawned, alive, pump>>

\* ... a run in progress refuses the request ...
Refuse(t) ==
    /\ request[t] = "look" /\ Running
    /\ lock' = lock \ {t}
    /\ To(t, "off")
    /\ UNCHANGED <<proc, rc, spawned, alive, pump>>

\* ... otherwise what the last run left is cleared ...
Clear(t) ==
    /\ request[t] = "look" /\ ~Running
    /\ rc' = 0
    /\ To(t, "spawn")
    /\ UNCHANGED <<proc, lock, spawned, alive, pump>>

\* ... and the subprocess started, with a pump of its own, or Popen raises.
Spawn(t) ==
    /\ request[t] = "spawn" /\ spawned < MaxSpawned
    /\ spawned' = spawned + 1
    /\ proc' = spawned + 1
    /\ alive' = alive \union {spawned + 1}
    /\ pump' = [pump EXCEPT ![spawned + 1] = PumpAt("begin", 0)]
    /\ lock' = lock \ {t}
    /\ To(t, "off")
    /\ UNCHANGED rc

SpawnRaises(t) ==
    /\ request[t] = "spawn"
    /\ lock' = lock \ {t}
    /\ To(t, "off")
    /\ UNCHANGED <<proc, rc, spawned, alive, pump>>

\* stop: without the lock; the process group that is killed is of the process
\* there is then.
StopLooks(t) ==
    /\ request[t] = "off" /\ Running
    /\ To(t, "kill")
    /\ UNCHANGED <<proc, rc, lock, spawned, alive, pump>>

StopKills(t) ==
    /\ request[t] = "kill"
    /\ alive' = alive \ {proc}
    /\ To(t, "off")
    /\ UNCHANGED <<proc, rc, lock, spawned, pump>>

\* A run comes to its end; its children end with it.
End(n) ==
    /\ n \in alive
    /\ alive' = alive \ {n}
    /\ UNCHANGED <<proc, rc, lock, request, spawned, pump>>

\* _pump: the output of the process there is when the thread first runs ...
PumpBegins(n) ==
    /\ pump[n].at = "begin"
    /\ pump' = [pump EXCEPT ![n] = PumpAt("read", proc)]
    /\ UNCHANGED <<proc, rc, lock, request, spawned, alive>>

\* ... is read to its end; the process waited for is the one there is then ...
PumpEndsOutput(n) ==
    /\ pump[n].at = "read" /\ pump[n].of \notin alive
    /\ pump' = [pump EXCEPT ![n] = PumpAt("wait", proc)]
    /\ UNCHANGED <<proc, rc, lock, request, spawned, alive>>

\* ... and when that has ended its return code is kept.
PumpWaits(n) ==
    /\ pump[n].at = "wait" /\ pump[n].of \notin alive
    /\ pump' = [pump EXCEPT ![n].at = "keep"]
    /\ UNCHANGED <<proc, rc, lock, request, spawned, alive>>

PumpKeeps(n) ==
    /\ pump[n].at = "keep"
    /\ rc' = pump[n].of
    /\ pump' = [pump EXCEPT ![n].at = "ended"]
    /\ UNCHANGED <<proc, lock, request, spawned, alive>>

PumpStep(n) == PumpBegins(n) \/ PumpEndsOutput(n) \/ PumpWaits(n) \/ PumpKeeps(n)

RequestStep(t) ==
    \/ Acquire(t) \/ Refuse(t) \/ Clear(t) \/ Spawn(t) \/ SpawnRaises(t)
    \/ StopLooks(t) \/ StopKills(t)

RunNext ==
    \/ \E t \in Requests : RequestStep(t)
    \/ \E n \in Processes : End(n) \/ PumpStep(n)

RunSpec == RunInit /\ [][RunNext]_runVars

-----------------------------------------------------------------------------
RunTypeOK ==
    /\ {proc, rc, spawned} \subseteq 0..MaxSpawned
    /\ lock \subseteq Requests
    /\ request \in [Requests -> {"off", "look", "spawn", "kill"}]
    /\ alive \subseteq Processes
    /\ pump \in [Processes -> [at : {"off", "begin", "read", "wait", "keep", "ended"},
                               of : 0..MaxSpawned]]

\* The dashboard never runs two stages at once: apply in particular is never
\* parallel.
OneAtATime == Cardinality(alive) <= 1
=============================================================================
