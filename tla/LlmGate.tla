------------------------------- MODULE LlmGate -------------------------------
(***************************************************************************)
(* llm/claude_cli_provider.py and llm/base.py: how many `claude -p'        *)
(* processes run at once.  Every completion runs inside a semaphore that   *)
(* the process makes on first use, and that a pool which wants more        *)
(* workers replaces by a wider one.  A completion that should be JSON and  *)
(* is not is asked for once more.                                          *)
(*                                                                         *)
(* Semaphores are numbered in the order they are made; 0 is none.          *)
(***************************************************************************)
EXTENDS Naturals, FiniteSets

CONSTANTS Callers,       \* threads with a completion to make
          Default,       \* honestapply_prepare_workers
          Pools,         \* the sizes set_max_concurrent may be called with
          MaxGates,      \* bound: semaphores made
          MaxCalls       \* bound: calls of a thread

ASSUME GateAssumption ==
    /\ Default \in Nat \ {0} /\ Pools \subseteq Nat \ {0}
    /\ {MaxGates, MaxCalls} \subseteq Nat

VARIABLES gate,      \* _gate: the semaphore in use
          width,     \* width[g]: the size of each semaphore made, 0 before that
          caller,    \* caller[c]: where the thread is, and the semaphore it holds or waits for
          overlapped \* history: the gate was replaced while a thread had the old one

gateVars == <<gate, width, caller, overlapped>>

Away == [at |-> "away", of |-> 0, try |-> 1, calls |-> 0]

GateInit ==
    /\ gate = 0
    /\ width = [g \in 1..MaxGates |-> 0]
    /\ caller = [c \in Callers |-> Away]
    /\ overlapped = FALSE

\* _gate_size.
Size == IF gate = 0 THEN 0 ELSE width[gate]

Within(g) == {c \in Callers : caller[c].at = "runs" /\ caller[c].of = g}
Spawned == {c \in Callers : caller[c].at = "runs"}

\* set_max_concurrent, under the lock: a wider semaphore takes the old one's place.
Widened(n) ==
    /\ gate < MaxGates
    /\ gate' = gate + 1
    /\ width' = [width EXCEPT ![gate'] = n]

\* Mutated form of FirstUse: whoever comes makes a semaphore.
FirstUse_Always == Widened(Default)

\* The first caller makes the semaphore, under the lock.
FirstUse == IF gate = 0 THEN Widened(Default) ELSE UNCHANGED <<gate, width>>

\* A pool starts, with n workers.
Resolve(n) ==
    /\ n > Size
    /\ Widened(n)
    /\ overlapped' = (overlapped \/ \E c \in Callers : caller[c].at # "away")
    /\ UNCHANGED caller

\* _spawn_gate: the thread takes hold of the semaphore there is.
SpawnGate(c) ==
    /\ caller[c].at = "away" /\ caller[c].calls < MaxCalls
    /\ FirstUse
    /\ caller' = [caller EXCEPT ![c].at = "waits", ![c].of = gate']
    /\ UNCHANGED overlapped

\* It enters, and its process is spawned.
Enter(c) ==
    /\ caller[c].at = "waits"
    /\ Cardinality(Within(caller[c].of)) < width[caller[c].of]
    /\ caller' = [caller EXCEPT ![c].at = "runs"]
    /\ UNCHANGED <<gate, width, overlapped>>

\* The process ends or is killed by its timeout, and the semaphore is released;
\* the call raises, or returns what was asked for.
Finish(c) ==
    /\ caller[c].at = "runs"
    /\ caller' = [caller EXCEPT ![c] = [Away EXCEPT !.calls = caller[c].calls + 1]]
    /\ UNCHANGED <<gate, width, overlapped>>

\* complete_json: not JSON; the first time the thread asks again.
AskAgain(c) ==
    /\ caller[c].at = "runs" /\ caller[c].try = 1
    /\ caller' = [caller EXCEPT ![c] = [@ EXCEPT !.at = "away", !.of = 0, !.try = 2]]
    /\ UNCHANGED <<gate, width, overlapped>>

GateNext ==
    \/ \E n \in Pools : Resolve(n)
    \/ \E c \in Callers : SpawnGate(c) \/ Enter(c) \/ Finish(c) \/ AskAgain(c)

GateSpec == GateInit /\ [][GateNext]_gateVars

-----------------------------------------------------------------------------
GateTypeOK ==
    /\ gate \in 0..MaxGates
    /\ width \in [1..MaxGates -> {0, Default} \union Pools]
    /\ caller \in [Callers -> [at : {"away", "waits", "runs"}, of : 0..MaxGates,
                               try : {1, 2}, calls : 0..MaxCalls]]
    /\ overlapped \in BOOLEAN

\* claude_cli_provider.py:20-23: "never more than N claude processes at once", unless
\* the gate was replaced under its users, which then come on top of the N.
GateHolds ==
    LET old == {c \in Spawned : caller[c].of # gate}
    IN  /\ Cardinality(Spawned \ old) <= Size
        /\ ~overlapped => Cardinality(Spawned) <= Size
=============================================================================
