--------------------------- MODULE Services_proofs ---------------------------
(***************************************************************************)
(* Proofs about the parts around the pipeline that several threads or      *)
(* processes share: the gate around claude processes, the dashboard's      *)
(* runner, the vault, the answers that polls share and the database that   *)
(* launches migrate.  And about the picks of a drive, and what a job is    *)
(* applied with.  For any number of them, any bounds, any base resume, any *)
(* page and any answers of the model.                                      *)
(***************************************************************************)
EXTENDS Migrations, LlmGate, RunControl, Vault, AnswersCache, PickCandidates, Materials,
        Enrich, FiniteSetTheorems, FunctionTheorems, TLAPS

-----------------------------------------------------------------------------
(* The gate *)

Places == [at : {"away", "waits", "runs"}, of : 0..MaxGates, try : {1, 2}, calls : 0..MaxCalls]
Widths == {0, Default} \union Pools

\* Semaphores are made one after the other, each wider than 0; a thread waits for, or
\* holds, one that was made; no semaphore lets more in than it is wide; and before the
\* gate is replaced under its users, whoever uses one uses the last.
GateInv ==
    /\ GateTypeOK
    /\ \A c \in Callers :
          caller[c].at # "away" => caller[c].of \in 1..gate /\ caller[c].calls < MaxCalls
    /\ \A g \in 1..gate : IsFiniteSet(Within(g)) /\ Cardinality(Within(g)) <= width[g]
    /\ ~overlapped => \A c \in Callers : caller[c].at # "away" => caller[c].of = gate

LEMMA GateTypes ==
    GateTypeOK <=> /\ gate \in 0..MaxGates
                   /\ width \in [1..MaxGates -> Widths]
                   /\ caller \in [Callers -> Places]
                   /\ overlapped \in BOOLEAN
BY DEF GateTypeOK, Places, Widths

LEMMA GateNumbers ==
    /\ Widths \subseteq Nat /\ Default \in Nat \ {0} /\ Pools \subseteq Nat \ {0}
    /\ MaxGates \in Nat /\ MaxCalls \in Nat
BY GateAssumption DEF Widths

LEMMA WidthsAreNumbers ==
    ASSUME GateTypeOK, NEW g \in 1..gate PROVE width[g] \in Nat
<1>1. gate \in 0..MaxGates /\ width \in [1..MaxGates -> Widths]
  BY GateTypes
<1>2. g \in 1..MaxGates
  BY <1>1, GateNumbers
<1> QED
  BY <1>1, <1>2, GateNumbers

LEMMA GateInitInv == GateInit => GateInv
<1> SUFFICES ASSUME GateInit PROVE GateInv
  OBVIOUS
<1>1. Away \in Places /\ Away.at = "away"
  BY GateNumbers DEF Away, Places
<1>2. GateTypeOK
  <2>1. width \in [1..MaxGates -> Widths] /\ caller \in [Callers -> Places]
    BY <1>1 DEF GateInit, Widths
  <2>2. gate \in 0..MaxGates
    BY GateNumbers DEF GateInit
  <2>3. overlapped \in BOOLEAN
    BY DEF GateInit
  <2> QED
    BY <2>1, <2>2, <2>3, GateTypes
<1> QED
  BY <1>1, <1>2 DEF GateInit, GateInv

\* A wider semaphore takes the place of one that nobody has, or is the first.
LEMMA WidenedInv ==
    ASSUME GateInv, NEW n \in Widths, n # 0, Widened(n)
    PROVE  /\ gate' = gate + 1 /\ gate' \in 1..MaxGates /\ width' \in [1..MaxGates -> Widths]
           /\ \A g \in 1..gate : width'[g] = width[g]
           /\ width'[gate'] = n
           /\ Within(gate') = {}
<1>1. gate \in 0..MaxGates /\ width \in [1..MaxGates -> Widths] /\ caller \in [Callers -> Places]
  BY GateTypes DEF GateInv
<1>2. gate' = gate + 1 /\ gate' \in 1..MaxGates
  BY <1>1, GateNumbers DEF Widened
<1>3. \A c \in Callers : caller[c].at = "runs" => caller[c].of # gate'
  BY <1>1, <1>2 DEF GateInv
<1> QED
  BY <1>1, <1>2, <1>3 DEF Widened, Within

LEMMA SpawnGateInv == ASSUME GateInv, NEW c \in Callers, SpawnGate(c) PROVE GateInv'
<1>1. /\ gate \in 0..MaxGates /\ width \in [1..MaxGates -> Widths] /\ caller \in [Callers -> Places]
      /\ overlapped \in BOOLEAN
  BY GateTypes DEF GateInv
<1>2. /\ gate' \in 1..MaxGates /\ width' \in [1..MaxGates -> Widths]
      /\ gate = 0 \/ (gate' = gate /\ width' = width)
      /\ gate = 0 => gate' = 1 /\ width'[1] = Default
  <2>1. CASE gate = 0
    BY <1>1, <2>1, WidenedInv, GateNumbers DEF SpawnGate, FirstUse, Widths
  <2>2. CASE gate # 0
    BY <1>1, <2>2 DEF SpawnGate, FirstUse
  <2> QED
    BY <2>1, <2>2
<1>3. caller' = [caller EXCEPT ![c] = [caller[c] EXCEPT !.at = "waits", !.of = gate']]
  BY <1>1 DEF SpawnGate
<1>4. caller' \in [Callers -> Places]
  <2>1. [caller[c] EXCEPT !.at = "waits", !.of = gate'] \in Places
    <3>1. gate' \in 0..MaxGates
      BY <1>1, <1>2, GateNumbers
    <3> QED
      BY <1>1, <3>1 DEF Places
  <2> QED
    BY <1>1, <1>3, <2>1
<1>5. /\ caller'[c].at = "waits" /\ caller'[c].of = gate'
      /\ \A d \in Callers : d # c => caller'[d] = caller[d]
  BY <1>1, <1>3 DEF Places
<1>6. \A g \in Nat : Within(g)' = Within(g)
  BY <1>5 DEF Within, SpawnGate
<1>7. GateTypeOK'
  BY <1>1, <1>2, <1>4, GateTypes DEF SpawnGate, GateTypeOK, Places, Widths
<1>8. \A d \in Callers :
         caller'[d].at # "away" => caller'[d].of \in 1..gate' /\ caller'[d].calls < MaxCalls
  <2>1. caller'[c].calls = caller[c].calls /\ caller[c].calls < MaxCalls
    BY <1>1, <1>3 DEF SpawnGate, Places
  <2> QED
    BY <1>1, <1>2, <1>5, <2>1 DEF GateInv
<1>9. \A g \in 1..gate' : IsFiniteSet(Within(g)') /\ Cardinality(Within(g)') <= width'[g]
  <2>1. CASE gate = 0
    <3>1. gate' = 1 /\ width'[1] = Default /\ Within(1) = {}
      BY <1>1, <1>2, <2>1 DEF Within, GateInv
    <3> QED
      BY <1>6, <3>1, FS_EmptySet, GateNumbers
  <2>2. CASE gate # 0
    BY <1>1, <1>2, <1>6, <2>2 DEF GateInv
  <2> QED
    BY <2>1, <2>2
<1>10. ~overlapped' => \A d \in Callers : caller'[d].at # "away" => caller'[d].of = gate'
  BY <1>1, <1>2, <1>5 DEF GateInv, SpawnGate
<1> QED
  BY <1>7, <1>8, <1>9, <1>10 DEF GateInv

LEMMA ResolveInv == ASSUME GateInv, NEW n \in Pools, Resolve(n) PROVE GateInv'
<1>1. /\ gate \in 0..MaxGates /\ width \in [1..MaxGates -> Widths] /\ caller \in [Callers -> Places]
      /\ overlapped \in BOOLEAN /\ UNCHANGED caller
  BY GateTypes DEF GateInv, Resolve
<1>2. /\ gate' = gate + 1 /\ gate' \in 1..MaxGates /\ width' \in [1..MaxGates -> Widths]
      /\ \A g \in 1..gate : width'[g] = width[g]
      /\ width'[gate'] = n /\ Within(gate') = {}
  BY WidenedInv, GateNumbers DEF Resolve, Widths
<1>3. \A g \in Nat : Within(g)' = Within(g)
  BY <1>1 DEF Within
<1>4. overlapped' \in BOOLEAN /\ (~overlapped' => \A c \in Callers : caller[c].at = "away")
  BY <1>1 DEF Resolve
<1>5. GateTypeOK'
  BY <1>1, <1>2, <1>4 DEF GateTypeOK, Places, Widths
<1>6. \A g \in 1..gate' : IsFiniteSet(Within(g)') /\ Cardinality(Within(g)') <= width'[g]
  <2> TAKE g \in 1..gate'
  <2>1. CASE g = gate'
    <3>1. Within(g)' = {} /\ width'[g] = n /\ n \in Nat
      BY <1>2, <1>3, <2>1, GateNumbers
    <3> QED
      BY <3>1, FS_EmptySet
  <2>2. CASE g # gate'
    BY <1>1, <1>2, <1>3, <2>2 DEF GateInv
  <2> QED
    BY <2>1, <2>2
<1>7. \A c \in Callers :
         caller'[c].at # "away" => caller'[c].of \in 1..gate' /\ caller'[c].calls < MaxCalls
  BY <1>1, <1>2 DEF GateInv
<1> QED
  BY <1>1, <1>4, <1>5, <1>6, <1>7 DEF GateInv

LEMMA EnterInv == ASSUME GateInv, NEW c \in Callers, Enter(c) PROVE GateInv'
<1>1. /\ gate \in 0..MaxGates /\ width \in [1..MaxGates -> Widths] /\ caller \in [Callers -> Places]
      /\ UNCHANGED <<gate, width, overlapped>>
  BY GateTypes DEF GateInv, Enter
<1>2. /\ caller' \in [Callers -> Places]
      /\ caller'[c].at = "runs" /\ caller'[c].of = caller[c].of /\ caller[c].of \in 1..gate
      /\ caller'[c].calls = caller[c].calls /\ caller[c].calls < MaxCalls
      /\ \A d \in Callers : d # c => caller'[d] = caller[d]
  BY <1>1 DEF Enter, Places, GateInv
<1>3. ASSUME NEW g \in 1..gate
      PROVE  IsFiniteSet(Within(g)') /\ Cardinality(Within(g)') <= width[g]
  <2>1. CASE g = caller[c].of
    <3>1. Within(g)' = Within(g) \union {c} /\ c \notin Within(g)
      BY <1>2, <2>1 DEF Within, Enter
    <3>2. IsFiniteSet(Within(g)) /\ Cardinality(Within(g)) < width[g]
      BY <2>1 DEF Enter, GateInv
    <3>3. Cardinality(Within(g)') = Cardinality(Within(g)) + 1 /\ IsFiniteSet(Within(g)')
      BY <3>1, <3>2, FS_AddElement
    <3>4. Cardinality(Within(g)) \in Nat /\ width[g] \in Nat
      BY <3>2, FS_CardinalityType, WidthsAreNumbers DEF GateInv
    <3> QED
      BY <3>2, <3>3, <3>4
  <2>2. CASE g # caller[c].of
    <3>1. Within(g)' = Within(g)
      BY <1>2, <2>2 DEF Within, Enter
    <3> QED
      BY <3>1 DEF GateInv
  <2> QED
    BY <2>1, <2>2
<1>4. GateTypeOK'
  BY <1>1, <1>2 DEF GateTypeOK, GateInv, Places
<1>5. \A d \in Callers :
         caller'[d].at # "away" => caller'[d].of \in 1..gate' /\ caller'[d].calls < MaxCalls
  BY <1>1, <1>2 DEF GateInv
<1>6. ~overlapped' => \A d \in Callers : caller'[d].at # "away" => caller'[d].of = gate'
  BY <1>1, <1>2 DEF GateInv, Enter
<1> QED
  BY <1>1, <1>3, <1>4, <1>5, <1>6 DEF GateInv

\* A process that ends leaves room, whether its thread asks again or not.
LEMMA LeaveInv == ASSUME GateInv, NEW c \in Callers, Finish(c) \/ AskAgain(c) PROVE GateInv'
<1>1. /\ gate \in 0..MaxGates /\ width \in [1..MaxGates -> Widths] /\ caller \in [Callers -> Places]
      /\ UNCHANGED <<gate, width, overlapped>>
  BY GateTypes DEF GateInv, Finish, AskAgain
<1>2. /\ caller' \in [Callers -> Places] /\ caller'[c].at = "away"
      /\ \A d \in Callers : d # c => caller'[d] = caller[d]
  <2>1. caller[c] \in Places /\ caller[c].calls + 1 \in 0..MaxCalls
    BY <1>1, GateNumbers DEF Places, GateInv, Finish, AskAgain
  <2>2. CASE Finish(c)
    <3>1. /\ [Away EXCEPT !.calls = caller[c].calls + 1] \in Places
          /\ [Away EXCEPT !.calls = caller[c].calls + 1].at = "away"
      BY <2>1, GateNumbers DEF Away, Places
    <3> QED
      BY <1>1, <2>2, <3>1 DEF Finish
  <2>3. CASE AskAgain(c)
    <3>1. /\ [caller[c] EXCEPT !.at = "away", !.of = 0, !.try = 2] \in Places
          /\ [caller[c] EXCEPT !.at = "away", !.of = 0, !.try = 2].at = "away"
      <4>1. 0 \in 0..MaxGates
        BY GateNumbers
      <4> QED
        BY <2>1, <4>1 DEF Places
    <3>2. caller' = [caller EXCEPT ![c] = [caller[c] EXCEPT !.at = "away", !.of = 0, !.try = 2]]
      BY <1>1, <2>3 DEF AskAgain
    <3> QED
      BY <1>1, <3>1, <3>2
  <2> QED
    BY <2>2, <2>3
<1>3. ASSUME NEW g \in 1..gate
      PROVE  IsFiniteSet(Within(g)') /\ Cardinality(Within(g)') <= width[g]
  <2>1. Within(g)' \subseteq Within(g)
    BY <1>2 DEF Within
  <2>2. /\ IsFiniteSet(Within(g)) /\ Cardinality(Within(g)) <= width[g]
        /\ width[g] \in Nat
    BY WidthsAreNumbers DEF GateInv
  <2>3. /\ IsFiniteSet(Within(g)') /\ Cardinality(Within(g)') <= Cardinality(Within(g))
        /\ Cardinality(Within(g)) \in Nat /\ Cardinality(Within(g)') \in Nat
    BY <2>1, <2>2, FS_Subset, FS_CardinalityType
  <2> QED
    BY <2>2, <2>3
<1>4. GateTypeOK'
  BY <1>1, <1>2 DEF GateTypeOK, GateInv, Places
<1>5. \A d \in Callers :
         caller'[d].at # "away" => caller'[d].of \in 1..gate' /\ caller'[d].calls < MaxCalls
  BY <1>1, <1>2 DEF GateInv
<1>6. ~overlapped' => \A d \in Callers : caller'[d].at # "away" => caller'[d].of = gate'
  BY <1>1, <1>2 DEF GateInv
<1> QED
  BY <1>1, <1>3, <1>4, <1>5, <1>6 DEF GateInv

LEMMA GateStep == GateInv /\ [GateNext]_gateVars => GateInv'
<1>1. ASSUME GateInv, UNCHANGED gateVars PROVE GateInv'
  BY <1>1 DEF GateInv, GateTypeOK, gateVars, Within
<1> QED
  BY <1>1, ResolveInv, SpawnGateInv, EnterInv, LeaveInv DEF GateNext

LEMMA GateSuffices == GateInv => GateHolds
<1> SUFFICES ASSUME GateInv PROVE GateHolds
  OBVIOUS
<1> DEFINE old == {c \in Spawned : caller[c].of # gate}
<1>1. /\ gate \in 0..MaxGates /\ width \in [1..MaxGates -> Widths] /\ caller \in [Callers -> Places]
  BY GateTypes DEF GateInv
<1>2. Spawned \ old = Within(gate)
  BY DEF Spawned, Within
<1>3. Cardinality(Within(gate)) <= Size
  <2>1. CASE gate = 0
    <3>1. Within(gate) = {}
      BY <1>1, <2>1 DEF Within, GateInv
    <3> QED
      BY <2>1, <3>1, FS_EmptySet DEF Size
  <2>2. CASE gate # 0
    BY <1>1, <2>2, GateNumbers DEF GateInv, Size
  <2> QED
    BY <2>1, <2>2
<1>4. ~overlapped => Spawned = Within(gate)
  BY DEF Spawned, Within, GateInv
<1> QED
  BY <1>2, <1>3, <1>4 DEF GateHolds

\* However many threads complete at once and however often a pool widens the gate, no
\* more processes than its width are in the gate there is; the rest are those that the
\* last widening left behind.
THEOREM GateIsHeld == GateSpec => []GateHolds
BY GateInitInv, GateStep, GateSuffices, PTL DEF GateSpec

\* The gate keeps its types.
THEOREM GateTypeCorrect == GateSpec => []GateTypeOK
<1>1. GateInv => GateTypeOK
  BY DEF GateInv
<1> QED
  BY <1>1, GateInitInv, GateStep, PTL DEF GateSpec

-----------------------------------------------------------------------------
(* The dashboard's runner *)

\* One request at a time is in start; the process that runs is the last one started;
\* and the request that is about to start one found none running.
RunInv ==
    /\ RunTypeOK
    /\ \A t \in Requests : request[t] \in {"look", "spawn"} => lock = {t}
    /\ alive \subseteq {proc}
    /\ \A t \in Requests : request[t] = "spawn" => alive = {}

LEMMA RunInitInv == RunInit => RunInv
<1> SUFFICES ASSUME RunInit PROVE RunInv
  OBVIOUS
<1>1. MaxSpawned \in Nat
  BY RunControlAssumption
<1>2. RunTypeOK
  BY <1>1 DEF RunInit, RunTypeOK, Processes, PumpAt
<1> QED
  BY <1>2 DEF RunInit, RunInv

LEMMA RunStep == RunInv /\ [RunNext]_runVars => RunInv'
<1> SUFFICES ASSUME RunInv, [RunNext]_runVars PROVE RunInv'
  OBVIOUS
<1>1. /\ MaxSpawned \in Nat /\ proc \in 0..MaxSpawned /\ rc \in 0..MaxSpawned
      /\ spawned \in 0..MaxSpawned /\ lock \subseteq Requests
      /\ request \in [Requests -> {"off", "look", "spawn", "kill"}]
      /\ alive \subseteq Processes
      /\ pump \in [Processes -> [at : {"off", "begin", "read", "wait", "keep", "ended"},
                                 of : 0..MaxSpawned]]
  BY RunControlAssumption DEF RunInv, RunTypeOK
<1>2. ASSUME NEW t \in Requests, Acquire(t) PROVE RunInv'
  <2>1. lock = {} /\ lock' = {t} /\ request' = [request EXCEPT ![t] = "look"]
        /\ UNCHANGED <<proc, rc, spawned, alive, pump>>
    BY <1>2 DEF Acquire, To
  <2>2. RunTypeOK'
    BY <1>1, <2>1 DEF RunInv, RunTypeOK
  <2>3. \A u \in Requests : u # t => request'[u] \notin {"look", "spawn"}
    BY <1>1, <2>1 DEF RunInv
  <2> QED
    BY <1>1, <2>1, <2>2, <2>3 DEF RunInv
<1>3. ASSUME NEW t \in Requests, Refuse(t) \/ SpawnRaises(t) PROVE RunInv'
  <2>1. /\ request[t] \in {"look", "spawn"}
        /\ lock' = lock \ {t} /\ request' = [request EXCEPT ![t] = "off"]
        /\ UNCHANGED <<proc, rc, spawned, alive, pump>>
    BY <1>3 DEF Refuse, SpawnRaises, To
  <2>2. RunTypeOK'
    BY <1>1, <2>1 DEF RunInv, RunTypeOK
  <2>3. \A u \in Requests : request'[u] \notin {"look", "spawn"}
    BY <1>1, <2>1 DEF RunInv
  <2> QED
    BY <1>1, <2>1, <2>2, <2>3 DEF RunInv
<1>4. ASSUME NEW t \in Requests, Clear(t) PROVE RunInv'
  <2>1. /\ request[t] = "look" /\ proc \notin alive
        /\ rc' = 0 /\ request' = [request EXCEPT ![t] = "spawn"]
        /\ UNCHANGED <<proc, lock, spawned, alive, pump>>
    BY <1>4 DEF Clear, To, Running
  <2>2. RunTypeOK'
    BY <1>1, <2>1 DEF RunInv, RunTypeOK
  <2>3. alive = {}
    BY <2>1 DEF RunInv
  <2> QED
    BY <1>1, <2>1, <2>2, <2>3 DEF RunInv
<1>5. ASSUME NEW t \in Requests, Spawn(t) PROVE RunInv'
  <2>1. /\ request[t] = "spawn" /\ proc' = spawned + 1 /\ spawned' = spawned + 1
        /\ spawned + 1 \in Processes
        /\ alive' = {spawned + 1}
        /\ pump' = [pump EXCEPT ![spawned + 1] = [at |-> "begin", of |-> 0]]
        /\ lock' = lock \ {t} /\ request' = [request EXCEPT ![t] = "off"] /\ UNCHANGED rc
    <3>1. spawned + 1 \in Processes
      BY <1>1, <1>5 DEF Spawn, Processes
    <3>2. alive = {}
      BY <1>5 DEF Spawn, RunInv
    <3> QED
      BY <1>5, <3>1, <3>2 DEF Spawn, To, PumpAt
  <2>2. RunTypeOK'
    BY <1>1, <2>1 DEF RunTypeOK, Processes
  <2>3. \A u \in Requests : request'[u] \notin {"look", "spawn"}
    BY <1>1, <2>1 DEF RunInv
  <2> QED
    BY <1>1, <2>1, <2>2, <2>3 DEF RunInv
<1>6. ASSUME NEW t \in Requests, StopLooks(t) \/ StopKills(t) PROVE RunInv'
  <2>1. /\ request[t] \notin {"look", "spawn"}
        /\ request' \in [Requests -> {"off", "look", "spawn", "kill"}]
        /\ request'[t] \notin {"look", "spawn"}
        /\ \A u \in Requests : u # t => request'[u] = request[u]
        /\ alive' \subseteq alive
        /\ UNCHANGED <<proc, rc, lock, spawned, pump>>
    BY <1>1, <1>6 DEF StopLooks, StopKills, To
  <2>2. RunTypeOK'
    BY <1>1, <2>1 DEF RunTypeOK
  <2> QED
    BY <1>1, <2>1, <2>2 DEF RunInv
<1>7. ASSUME NEW n \in Processes, End(n) PROVE RunInv'
  <2>1. alive' \subseteq alive /\ UNCHANGED <<proc, rc, lock, request, spawned, pump>>
    BY <1>7 DEF End
  <2>2. RunTypeOK'
    BY <1>1, <2>1 DEF RunTypeOK
  <2> QED
    BY <1>1, <2>1, <2>2 DEF RunInv
<1>8. ASSUME NEW n \in Processes, PumpStep(n) PROVE RunInv'
  <2>1. /\ UNCHANGED <<proc, lock, request, spawned, alive>> /\ rc' \in 0..MaxSpawned
        /\ pump' \in [Processes -> [at : {"off", "begin", "read", "wait", "keep", "ended"},
                                    of : 0..MaxSpawned]]
    BY <1>1, <1>8 DEF PumpStep, PumpBegins, PumpEndsOutput, PumpWaits, PumpKeeps, PumpAt
  <2>2. RunTypeOK'
    BY <1>1, <2>1 DEF RunTypeOK
  <2> QED
    BY <1>1, <2>1, <2>2 DEF RunInv
<1>9. ASSUME UNCHANGED runVars PROVE RunInv'
  BY <1>9 DEF runVars, RunInv, RunTypeOK
<1> QED
  BY <1>2, <1>3, <1>4, <1>5, <1>6, <1>7, <1>8, <1>9 DEF RunNext, RequestStep

LEMMA RunSuffices == RunInv => OneAtATime
<1> SUFFICES ASSUME RunInv PROVE OneAtATime
  OBVIOUS
<1>1. alive = {} \/ alive = {proc}
  BY DEF RunInv
<1>2. Cardinality(alive) = 0 \/ Cardinality(alive) = 1
  BY <1>1, FS_EmptySet, FS_Singleton
<1> QED
  BY <1>2 DEF OneAtATime

\* However many requests to start and to stop come at once, on however many threads, the
\* dashboard never has two stages running.
THEOREM OneStageAtATime == RunSpec => []OneAtATime
BY RunInitInv, RunStep, RunSuffices, PTL DEF RunSpec

\* The runner keeps its types.
THEOREM RunTypeCorrect == RunSpec => []RunTypeOK
<1>1. RunInv => RunTypeOK
  BY DEF RunInv
<1> QED
  BY <1>1, RunInitInv, RunStep, PTL DEF RunSpec

-----------------------------------------------------------------------------
(* The vault *)

Process == [at : Ensuring \union {"off", "index", "name", "naming", "peek", "relay"},
            op : {"ensure", "rotate", "delete"}, site : Sites, names : SUBSET Sites,
            map : [Sites -> 0..MaxPasswords], secret : 0..MaxPasswords]

LEMMA VaultTypes ==
    VaultTypeOK <=> /\ backend \in {"keyring", "file"}
                    /\ stored \in [Sites -> 0..MaxPasswords] /\ torn \in BOOLEAN
                    /\ index \subseteq Sites
                    /\ account \in [Sites -> 0..Placeholder] /\ generated \in 0..MaxPasswords
                    /\ client \in [Clients -> Process]
                    /\ edits \in 0..MaxEdits /\ excused \subseteq Sites
BY DEF VaultTypeOK, Process

Kept(s) == stored[s] # 0 \/ s \in excused

\* What a process r that is about to write something relies on: the names it read have
\* passwords; a site that a command is about is excused; one that is past storing a
\* password has one, and one that is about to store the first finds none; a proxy types
\* the password there is; and what was loaded of the file is the store as it is, but for
\* the process's own change.
Relies(r) ==
    /\ \A s \in r.names : Kept(s)
    /\ r.op # "ensure" => r.site \in excused
    /\ r.at \in {"name", "naming"} => Kept(r.site)
    /\ r.at \in {"store", "save", "saving"} => stored[r.site] = 0 \/ r.site \in excused
    /\ r.secret # 0 => stored[r.site] = r.secret \/ r.site \in excused
    /\ r.at \in Loaded =>
          /\ backend = "file"
          /\ \A s \in Sites \ {r.site} : r.map[s] = stored[s] \/ s \in excused
          /\ r.map[r.site] # 0 \/ r.site \in excused

\* Two processes that may both store a password for a site excuse it, two that have
\* loaded the file both of theirs; and a file that cannot be read is being written, or
\* lost.
VaultInv ==
    /\ VaultTypeOK
    /\ NamedHavePasswords
    /\ \A c \in Clients : Relies(client[c])
    /\ \A c, d \in Clients :
          c # d /\ client[c].site = client[d].site /\ client[c].at \in Ensuring
                /\ client[d].at \in Ensuring => client[c].site \in excused
    /\ \A c, d \in Clients :
          c # d /\ client[c].at \in Loaded /\ client[d].at \in Loaded
                => client[c].site \in excused
    /\ torn => excused = Sites \/ \E c \in Clients : client[c].at = "saving"
    /\ AccountsOpen

LEMMA VaultNumbers == MaxPasswords \in Nat /\ MaxEdits \in Nat /\ Sites # {}
BY VaultAssumption

LEMMA EmptyIs == Empty \in [Sites -> 0..MaxPasswords] /\ \A s \in Sites : Empty[s] = 0
<1>1. 0 \in 0..MaxPasswords
  BY VaultNumbers
<1> QED
  BY <1>1 DEF Empty

\* A process that has just started, or ended, relies on nothing but what it is for.
LEMMA Starting ==
    ASSUME NEW place \in {"off", "ensure", "look", "peek", "relay"},
           NEW op \in {"ensure", "rotate", "delete"}, NEW s \in Sites,
           op # "ensure" => s \in excused
    PROVE  /\ At(place, op, s) \in Process /\ Relies(At(place, op, s))
           /\ At(place, op, s).at = place /\ At(place, op, s).site = s
           /\ At(place, op, s).op = op
<1>1. 0 \in 0..MaxPasswords
  BY VaultNumbers
<1> QED
  BY <1>1, EmptyIs DEF At, Process, Relies, Ensuring, Loaded

LEMMA OffIs == Off \in Process /\ Relies(Off) /\ Off.at = "off"
<1>1. (CHOOSE s \in Sites : TRUE) \in Sites
  BY VaultNumbers
<1> QED
  BY <1>1, Starting DEF Off

LEMMA VaultInitInv == VaultInit => VaultInv
<1> SUFFICES ASSUME VaultInit PROVE VaultInv
  OBVIOUS
<1>1. 0 \in 0..MaxPasswords /\ 0 \in 0..Placeholder /\ 0 \in 0..MaxEdits
  BY VaultNumbers DEF Placeholder
<1>2. /\ client = [c \in Clients |-> Off] /\ stored = Empty /\ account = Empty
      /\ index = {} /\ torn = FALSE /\ excused = {} /\ generated = 0 /\ edits = 0
      /\ backend \in {"keyring", "file"}
  BY DEF VaultInit
<1>3. Empty \in [Sites -> 0..Placeholder]
  BY <1>1 DEF Empty
<1>4. VaultTypeOK
  BY <1>1, <1>2, <1>3, EmptyIs, OffIs, VaultTypes
<1> QED
  BY <1>2, <1>4, EmptyIs, OffIs DEF VaultInv, NamedHavePasswords, AccountsOpen, Ensuring, Loaded

\* A process goes on to r, and leaves the store and the accounts alone.
LEMMA ClientMoves ==
    ASSUME VaultInv, NEW c \in Clients, NEW r \in Process,
           client' = [client EXCEPT ![c] = r],
           UNCHANGED <<backend, stored, account>>,
           generated' \in 0..MaxPasswords, edits' \in 0..MaxEdits,
           index' \subseteq Sites, \A s \in index' : Kept(s)',
           excused' \subseteq Sites, excused \subseteq excused',
           Relies(r)',
           r.at \in Ensuring =>
              \A d \in Clients \ {c} : client[d].site = r.site /\ client[d].at \in Ensuring
                                          => r.site \in excused',
           r.at \in Loaded =>
              \A d \in Clients \ {c} : client[d].at \in Loaded
                                          => {r.site, client[d].site} \subseteq excused',
           torn' \in BOOLEAN,
           torn' => \/ r.at = "saving" \/ excused' = Sites
                    \/ torn /\ client[c].at # "saving"
    PROVE  VaultInv'
<1>1. /\ backend \in {"keyring", "file"} /\ stored \in [Sites -> 0..MaxPasswords]
      /\ account \in [Sites -> 0..Placeholder] /\ client \in [Clients -> Process]
      /\ excused \subseteq Sites
  BY VaultTypes DEF VaultInv
<1>2. client' \in [Clients -> Process] /\ client'[c] = r
      /\ \A d \in Clients \ {c} : client'[d] = client[d]
  BY <1>1
<1>3. VaultTypeOK'
  BY <1>1, <1>2 DEF VaultTypeOK, Process, Placeholder
<1>4. ASSUME NEW d \in Clients PROVE Relies(client[d])'
  <2>1. CASE d = c
    BY <1>2, <2>1 DEF Relies, Kept
  <2>2. CASE d # c
    <3>1. client'[d] = client[d] /\ Relies(client[d])
      BY <1>2, <2>2 DEF VaultInv
    <3> QED
      BY <3>1 DEF Relies, Kept
  <2> QED
    BY <2>1, <2>2
<1>5. ASSUME NEW d \in Clients, NEW e \in Clients, d # e, client'[d].site = client'[e].site,
             client'[d].at \in Ensuring, client'[e].at \in Ensuring
      PROVE  client'[d].site \in excused'
  BY <1>2, <1>5 DEF VaultInv
<1>6. ASSUME NEW d \in Clients, NEW e \in Clients, d # e,
             client'[d].at \in Loaded, client'[e].at \in Loaded
      PROVE  client'[d].site \in excused'
  BY <1>2, <1>6 DEF VaultInv
<1>7. torn' => excused' = Sites \/ \E d \in Clients : client'[d].at = "saving"
  BY <1>1, <1>2 DEF VaultInv
<1>8. AccountsOpen'
  BY <1>7 DEF VaultInv, AccountsOpen
<1>9. NamedHavePasswords'
  BY DEF NamedHavePasswords, Kept
<1> QED
  BY <1>3, <1>4, <1>5, <1>6, <1>7, <1>8, <1>9 DEF VaultInv

\* A process changes the store, as it read it but for its own site.
LEMMA StoreChanges ==
    ASSUME VaultInv, NEW c \in Clients, client[c].at \in {"store", "saving"},
           client' = [client EXCEPT ![c] = HasStored(client[c])],
           UNCHANGED <<backend, index, account, edits>>,
           stored' \in [Sites -> 0..MaxPasswords], generated' \in 0..MaxPasswords,
           excused' \subseteq Sites, excused \subseteq excused',
           \A t \in Sites : t # client[c].site => stored'[t] = stored[t] \/ t \in excused',
           stored'[client[c].site] # 0 \/ client[c].site \in excused',
           \/ backend = "keyring"
           \/ stored' = stored
           \/ client[c].at = "saving",
           torn' \in BOOLEAN,
           torn' => excused' = Sites \/ (torn /\ client[c].at # "saving")
    PROVE  VaultInv'
<1> DEFINE s == client[c].site
           r == HasStored(client[c])
<1>1. /\ backend \in {"keyring", "file"} /\ stored \in [Sites -> 0..MaxPasswords]
      /\ account \in [Sites -> 0..Placeholder] /\ client \in [Clients -> Process]
      /\ index \subseteq Sites /\ edits \in 0..MaxEdits /\ excused \subseteq Sites
  BY VaultTypes DEF VaultInv
<1>2. client[c] \in Process /\ s \in Sites /\ Relies(client[c])
  BY <1>1 DEF Process, VaultInv
<1>3. /\ r \in Process /\ r.at \in {"name", "index"} /\ r.site = s
      /\ r.op = client[c].op /\ r.names = client[c].names /\ r.secret = client[c].secret
  BY <1>2, EmptyIs DEF HasStored, Process
<1> HIDE DEF r
<1>4. client' \in [Clients -> Process] /\ client'[c] = r
      /\ \A d \in Clients \ {c} : client'[d] = client[d]
  BY <1>1, <1>3 DEF r
<1>5. VaultTypeOK'
  BY <1>1, <1>4 DEF VaultTypeOK, Process, Placeholder
\* What was there is there still, unless it is excused; what is new was not there.
<1>6. /\ \A t \in Sites : Kept(t) => Kept(t)'
      /\ \A t \in Sites : stored[t] # 0 => stored'[t] = stored[t] \/ t \in excused'
  BY <1>2 DEF Relies, Kept
<1>7. ASSUME NEW d \in Clients PROVE Relies(client[d])'
  <2>1. CASE d = c
    <3>1. stored'[s] # 0 \/ s \in excused'
      OBVIOUS
    <3>2. \A t \in client[c].names : t \in Sites
      BY <1>2 DEF Process
    <3> QED
      BY <1>2, <1>3, <1>4, <1>6, <2>1, <3>1, <3>2 DEF Relies, Kept, Loaded, Process
  <2>2. CASE d # c
    <3>1. client'[d] = client[d] /\ Relies(client[d]) /\ client[d] \in Process
      BY <1>1, <1>4, <2>2 DEF VaultInv
    <3>2. /\ \A t \in client[d].names : t \in Sites
          /\ client[d].site \in Sites /\ client[d].secret \in 0..MaxPasswords
      BY <3>1 DEF Process
    <3>3. client[d].at \in {"store", "save", "saving"} /\ client[d].site = s => s \in excused
      BY <2>2 DEF VaultInv, Ensuring
    <3>4. client[d].at \in {"store", "save", "saving"}
             => stored'[client[d].site] = 0 \/ client[d].site \in excused'
      BY <3>1, <3>2, <3>3 DEF Relies
    <3>5. client[d].at \in Loaded =>
             /\ backend = "file"
             /\ \A t \in Sites \ {client[d].site} :
                   client[d].map[t] = stored'[t] \/ t \in excused'
      <4>1. CASE client[c].at = "saving"
        <5>1. client[d].at \in Loaded => s \in excused
          BY <2>2, <4>1 DEF VaultInv, Loaded
        <5> QED
          BY <3>1, <5>1 DEF Relies
      <4>2. CASE backend = "keyring" \/ stored' = stored
        BY <3>1, <4>2 DEF Relies
      <4> QED
        BY <4>1, <4>2
    <3>6. client[d].secret # 0 =>
             stored'[client[d].site] = client[d].secret \/ client[d].site \in excused'
      BY <1>6, <3>1, <3>2 DEF Relies
    <3>7. /\ \A t \in client[d].names : Kept(t)'
          /\ client[d].at \in {"name", "naming"} => Kept(client[d].site)'
      <4>1. /\ \A t \in client[d].names : Kept(t)
            /\ client[d].at \in {"name", "naming"} => Kept(client[d].site)
        BY <3>1 DEF Relies
      <4> QED
        BY <1>6, <3>1, <3>2, <4>1 DEF Kept
    <3> QED
      BY <3>1, <3>4, <3>5, <3>6, <3>7 DEF Relies, Kept
  <2> QED
    BY <2>1, <2>2
<1>8. ASSUME NEW d \in Clients, NEW e \in Clients, d # e, client'[d].site = client'[e].site,
             client'[d].at \in Ensuring, client'[e].at \in Ensuring
      PROVE  client'[d].site \in excused'
  BY <1>3, <1>4, <1>8 DEF VaultInv, Ensuring
<1>9. ASSUME NEW d \in Clients, NEW e \in Clients, d # e,
             client'[d].at \in Loaded, client'[e].at \in Loaded
      PROVE  client'[d].site \in excused'
  BY <1>3, <1>4, <1>9 DEF VaultInv, Loaded
<1>10. torn' => excused' = Sites \/ \E d \in Clients : client'[d].at = "saving"
  BY <1>1, <1>4 DEF VaultInv
<1>11. AccountsOpen'
  <2> SUFFICES ASSUME NEW t \in Sites, account[t] # 0, t \notin excused'
               PROVE  stored'[t] = account[t]
    BY <1>10 DEF AccountsOpen
  <2>1. stored[t] = account[t]
    BY DEF VaultInv, AccountsOpen
  <2> QED
    BY <1>6, <2>1
<1>12. NamedHavePasswords'
  BY <1>1, <1>6 DEF VaultInv, NamedHavePasswords, Kept
<1> QED
  BY <1>5, <1>7, <1>8, <1>9, <1>10, <1>11, <1>12 DEF VaultInv

LEMMA ClientStepInv == ASSUME VaultInv, NEW c \in Clients, ClientStep(c) PROVE VaultInv'
<1> DEFINE r == client[c]
<1>1. /\ backend \in {"keyring", "file"} /\ stored \in [Sites -> 0..MaxPasswords]
      /\ account \in [Sites -> 0..Placeholder] /\ client \in [Clients -> Process]
      /\ index \subseteq Sites /\ edits \in 0..MaxEdits /\ excused \subseteq Sites
      /\ torn \in BOOLEAN /\ generated \in 0..MaxPasswords
  BY VaultTypes DEF VaultInv
<1>2. /\ r \in Process /\ r.site \in Sites /\ r.names \subseteq Sites
      /\ r.op \in {"ensure", "rotate", "delete"} /\ r.map \in [Sites -> 0..MaxPasswords]
      /\ Relies(r)
  BY <1>1 DEF Process, VaultInv
<1>3. \A s \in index : Kept(s)
  BY DEF VaultInv, NamedHavePasswords, Kept
<1>4. /\ r.at \in Ensuring => \A d \in Clients \ {c} :
            client[d].site = r.site /\ client[d].at \in Ensuring => r.site \in excused
      /\ r.at \in Loaded => \A d \in Clients \ {c} :
            client[d].at \in Loaded => {r.site, client[d].site} \subseteq excused
  BY DEF VaultInv
<1>5. ASSUME NEW s \in Sites, StartProxy(c, s) PROVE VaultInv'
  <2> DEFINE q == At("ensure", "ensure", s)
  <2>1. /\ q \in Process /\ Relies(q)' /\ q.at = "ensure" /\ q.site = s
    <3>1. q \in Process /\ q.at = "ensure" /\ q.site = s
      BY Starting
    <3>2. Relies(q)'
      BY EmptyIs DEF Relies, At, Loaded
    <3> QED
      BY <3>1, <3>2
  <2>2. /\ client' = [client EXCEPT ![c] = q]
        /\ UNCHANGED <<backend, stored, torn, index, account, generated, edits>>
        /\ r.at = "off" /\ excused' \subseteq Sites /\ excused \subseteq excused'
    BY <1>1, <1>5 DEF StartProxy
  <2>3. \A d \in Clients : client[d].site = s /\ client[d].at \in Ensuring => s \in excused'
    BY <1>5 DEF StartProxy
  <2>4. \A t \in index' : Kept(t)'
    BY <1>3, <2>2 DEF Kept
  <2> HIDE DEF q
  <2> QED
    BY <1>1, <2>1, <2>2, <2>3, <2>4, ClientMoves DEF Loaded
<1>6. ASSUME NEW s \in Sites, NEW op \in {"rotate", "delete"}, Command(c, op, s)
      PROVE  VaultInv'
  <2> DEFINE q == At("look", op, s)
  <2>1. /\ client' = [client EXCEPT ![c] = q] /\ r.at = "off"
        /\ UNCHANGED <<backend, stored, torn, index, account, generated>>
        /\ excused' = excused \union {s} /\ edits' \in 0..MaxEdits
    BY <1>1, <1>6, VaultNumbers DEF Command
  <2>2. q \in Process /\ Relies(q)' /\ q.at = "look" /\ q.site = s
    <3>1. q \in Process /\ q.at = "look" /\ q.site = s
      <4>1. At("look", "ensure", s) \in Process
        BY Starting
      <4> QED
        BY <4>1, EmptyIs DEF At, Process
    <3>2. Relies(q)'
      BY <2>1, EmptyIs DEF Relies, At, Loaded
    <3> QED
      BY <3>1, <3>2
  <2>3. \A t \in index' : Kept(t)'
    BY <1>3, <2>1 DEF Kept
  <2> HIDE DEF q
  <2> QED
    BY <1>1, <2>1, <2>2, <2>3, ClientMoves DEF Loaded
\* The steps that leave the store and what is excused alone, and start nothing.
<1>7. ASSUME NEW q \in Process, client' = [client EXCEPT ![c] = q],
             UNCHANGED <<backend, stored, account, generated, edits, excused>>,
             index' \subseteq index \union r.names \union {r.site},
             r.site \in index' => r.site \in index \/ r.at = "naming",
             q = Off \/ q.site = r.site,
             q.at \in Ensuring => r.at \in Ensuring,
             q.at \in Loaded => r.at \in Loaded,
             Relies(q),
             torn' \in BOOLEAN, torn' => q.at = "saving" \/ (torn /\ r.at # "saving")
      PROVE  VaultInv'
  <2>1. Relies(q)'
    BY <1>7 DEF Relies, Kept
  <2>2. index' \subseteq Sites /\ \A t \in index' : Kept(t)'
    BY <1>1, <1>2, <1>3, <1>7 DEF Relies, Kept
  <2>3. Off.at \notin Ensuring /\ Off.at \notin Loaded
    BY OffIs DEF Ensuring, Loaded
  <2> QED
    BY <1>1, <1>4, <1>7, <2>1, <2>2, <2>3, ClientMoves
<1>8. CASE ReadsIndex(c)
  <2>1. PICK q \in Process : /\ client' = [client EXCEPT ![c] = q] /\ Relies(q)
                             /\ \/ q = Off
                                \/ /\ q.site = r.site /\ q.at \in {"look", "name"}
                                   /\ q.at = "look" => r.at = "ensure"
    <3>1. CASE r.at = "ensure"
      <4> DEFINE q == [r EXCEPT !.at = "look", !.names = index]
      <4>1. /\ q \in Process /\ q.at = "look" /\ q.site = r.site /\ q.op = r.op
            /\ q.names = index /\ q.secret = r.secret
        BY <1>1, <1>2 DEF Process, Ensuring
      <4>2. client' = [client EXCEPT ![c] = q]
        BY <1>1, <1>8, <3>1 DEF ReadsIndex
      <4> HIDE DEF q
      <4>3. Relies(q)
        BY <1>2, <1>3, <4>1 DEF Relies, Loaded
      <4> QED
        BY <3>1, <4>1, <4>2, <4>3
    <3>2. CASE r.at = "index" /\ r.site \notin index
      BY <1>8, <3>2, OffIs DEF ReadsIndex
    <3>3. CASE r.at = "index" /\ r.site \in index
      <4> DEFINE n == IF r.op = "delete" THEN index \ {r.site} ELSE index
                 q == [r EXCEPT !.at = "name", !.names = n]
      <4>1. n \subseteq index
        OBVIOUS
      <4> HIDE DEF n
      <4>2. /\ q \in Process /\ q.at = "name" /\ q.site = r.site /\ q.op = r.op
            /\ q.names = n /\ q.secret = r.secret
        BY <1>1, <1>2, <4>1 DEF Process
      <4>3. client' = [client EXCEPT ![c] = q]
        BY <1>1, <1>8, <3>3 DEF ReadsIndex, n
      <4> HIDE DEF q
      <4>4. Relies(q)
        BY <1>2, <1>3, <3>3, <4>1, <4>2 DEF Relies, Loaded
      <4> QED
        BY <4>2, <4>3, <4>4
    <3> QED
      BY <1>8, <3>1, <3>2, <3>3 DEF ReadsIndex
  <2>2. UNCHANGED <<backend, stored, torn, index, account, generated, edits, excused>>
        /\ r.at \in {"ensure", "index"}
    BY <1>8 DEF ReadsIndex
  <2> QED
    BY <1>1, <1>7, <2>1, <2>2, OffIs DEF Ensuring, Loaded
<1>9. CASE Looks(c)
  <2> DEFINE there == stored[r.site] # 0
             place == IF r.op = "ensure" /\ there THEN "name" ELSE "store"
  <2>1. /\ UNCHANGED <<backend, stored, torn, index, account, generated, edits, excused>>
        /\ r.at = "look"
    BY <1>9 DEF Looks
  <2>2. PICK q \in Process : /\ client' = [client EXCEPT ![c] = q] /\ Relies(q)
                             /\ q = Off \/ (q.site = r.site /\ q.at \in {"name", "store"})
    <3>1. CASE r.op = "rotate" /\ ~ there
      BY <1>9, <3>1, OffIs DEF Looks
    <3>2. CASE ~(r.op = "rotate" /\ ~ there)
      <4> DEFINE q == [r EXCEPT !.at = place]
      <4>1. place \in {"name", "store"} /\ (place = "name" => there)
            /\ (place = "store" => ~ there \/ r.op # "ensure")
        OBVIOUS
      <4>2. client' = [client EXCEPT ![c] = q]
        BY <1>1, <1>9, <3>2 DEF Looks
      <4> HIDE DEF place
      <4>3. /\ q \in Process /\ q.at = place /\ q.site = r.site /\ q.op = r.op
            /\ q.names = r.names /\ q.secret = r.secret
        BY <1>2, <4>1 DEF Process, Ensuring
      <4> HIDE DEF q
      <4>4. Relies(q)
        BY <1>2, <4>1, <4>3 DEF Relies, Loaded, Kept
      <4> QED
        BY <4>1, <4>2, <4>3, <4>4
    <3> QED
      BY <3>1, <3>2
  <2> HIDE DEF there, place
  <2> QED
    BY <1>1, <1>7, <2>1, <2>2, OffIs DEF Ensuring, Loaded
<1>10. CASE Saves(c)
  <2> DEFINE q == [r EXCEPT !.at = "saving"]
  <2>1. /\ q \in Process /\ q.at = "saving" /\ q.site = r.site /\ q.op = r.op
        /\ q.names = r.names /\ q.secret = r.secret /\ q.map = r.map
    BY <1>2 DEF Process, Ensuring
  <2>2. /\ client' = [client EXCEPT ![c] = q] /\ torn' = TRUE /\ r.at = "save"
        /\ UNCHANGED <<backend, stored, index, account, generated, edits, excused>>
    BY <1>1, <1>10 DEF Saves
  <2> HIDE DEF q
  <2>3. Relies(q)
    BY <1>2, <2>1, <2>2 DEF Relies, Loaded
  <2> QED
    BY <1>7, <2>1, <2>2, <2>3 DEF Ensuring, Loaded
<1>11. CASE Names(c)
  <2> DEFINE q == [r EXCEPT !.at = "naming"]
  <2>1. /\ q \in Process /\ q.at = "naming" /\ q.site = r.site /\ q.op = r.op
        /\ q.names = r.names /\ q.secret = r.secret
    BY <1>2 DEF Process
  <2>2. /\ client' = [client EXCEPT ![c] = q] /\ index' = {} /\ r.at = "name"
        /\ UNCHANGED <<backend, stored, torn, account, generated, edits, excused>>
    BY <1>1, <1>11 DEF Names
  <2> HIDE DEF q
  <2>3. Relies(q)
    BY <1>2, <2>1, <2>2 DEF Relies, Loaded
  <2> QED
    BY <1>1, <1>7, <2>1, <2>2, <2>3 DEF Ensuring, Loaded
<1>12. CASE Named(c)
  <2>1. PICK q \in Process : /\ client' = [client EXCEPT ![c] = q] /\ Relies(q)
                             /\ q = Off \/ (q.site = r.site /\ q.at = "peek")
    <3>1. CASE r.op = "ensure"
      <4> DEFINE q == At("peek", r.op, r.site)
      <4>1. q \in Process /\ Relies(q) /\ q.at = "peek" /\ q.site = r.site
        BY <1>2, <3>1, Starting
      <4>2. client' = [client EXCEPT ![c] = q]
        BY <1>12, <3>1 DEF Named
      <4> QED
        BY <4>1, <4>2
    <3>2. CASE r.op # "ensure"
      BY <1>12, <3>2, OffIs DEF Named
    <3> QED
      BY <3>1, <3>2
  <2>2. /\ UNCHANGED <<backend, stored, torn, account, generated, edits, excused>>
        /\ index' \subseteq r.names \union {r.site} /\ r.at = "naming"
    BY <1>12 DEF Named
  <2> QED
    BY <1>1, <1>7, <2>1, <2>2, OffIs DEF Ensuring, Loaded
<1>13. CASE Peek(c)
  <2> DEFINE q == [r EXCEPT !.at = "relay", !.secret = stored[r.site]]
  <2>1. /\ q \in Process /\ q.at = "relay" /\ q.site = r.site /\ q.op = r.op
        /\ q.names = r.names /\ q.secret = stored[r.site]
    BY <1>1, <1>2 DEF Process
  <2>2. /\ client' = [client EXCEPT ![c] = q] /\ r.at = "peek"
        /\ UNCHANGED <<backend, stored, torn, index, account, generated, edits, excused>>
    BY <1>1, <1>13 DEF Peek
  <2> HIDE DEF q
  <2>3. Relies(q)
    BY <1>2, <2>1, <2>2 DEF Relies, Loaded
  <2> QED
    BY <1>1, <1>7, <2>1, <2>2, <2>3 DEF Ensuring, Loaded
<1>14. CASE Refuses(c) \/ Stops(c)
  <2>1. PICK q \in Process : /\ client' = [client EXCEPT ![c] = q] /\ Relies(q)
                             /\ q = Off \/ (q.site = r.site /\ q.at = "relay")
    <3>1. CASE Refuses(c) /\ r.op = "ensure"
      <4> DEFINE q == At("relay", r.op, r.site)
      <4>1. q \in Process /\ Relies(q) /\ q.at = "relay" /\ q.site = r.site
        BY <1>2, <3>1, Starting
      <4>2. client' = [client EXCEPT ![c] = q]
        BY <3>1 DEF Refuses
      <4> QED
        BY <4>1, <4>2
    <3>2. CASE Refuses(c) /\ r.op # "ensure"
      BY <3>2, OffIs DEF Refuses
    <3>3. CASE Stops(c)
      BY <3>3, OffIs DEF Stops
    <3> QED
      BY <1>14, <3>1, <3>2, <3>3
  <2>2. /\ UNCHANGED <<backend, stored, torn, index, account, generated, edits>>
        /\ excused' = IF r.at = "saving" THEN Sites ELSE excused
    BY <1>14 DEF Refuses, Stops, Abandons
  <2>3. q.at \notin Ensuring /\ q.at \notin Loaded
    BY <2>1, OffIs DEF Ensuring, Loaded
  <2>4. Relies(q)'
    BY <1>1, <2>1, <2>2, <2>3 DEF Relies, Kept, Process
  <2>5. \A t \in index' : Kept(t)'
    BY <1>1, <1>3, <2>2 DEF Kept
  <2> QED
    BY <1>1, <2>1, <2>2, <2>3, <2>4, <2>5, ClientMoves
<1>15. CASE Stores(c)
  <2> DEFINE new == IF r.op = "delete" THEN 0 ELSE generated + 1
             changed == [stored EXCEPT ![r.site] = new]
             others == {d \in Clients : client[d].at \in Loaded}
  <2>1. /\ r.at = "store" /\ ~ torn
        /\ UNCHANGED <<backend, torn, index, account, edits>>
        /\ generated' \in 0..MaxPasswords /\ new \in 0..MaxPasswords
        /\ r.op # "delete" => new # 0
    BY <1>1, <1>15, VaultNumbers DEF Stores
  <2> HIDE DEF new
  <2>2. /\ changed \in [Sites -> 0..MaxPasswords] /\ changed[r.site] = new
        /\ \A t \in Sites \ {r.site} : changed[t] = stored[t]
    BY <1>1, <1>2, <2>1
  <2>3. \/ /\ backend = "keyring" \/ changed = stored
           /\ stored' = changed
           /\ client' = [client EXCEPT ![c] = HasStored(r)]
           /\ UNCHANGED excused
        \/ /\ backend = "file"
           /\ client' = [client EXCEPT ![c].at = "save", ![c].map = changed]
           /\ excused' = IF others = {} THEN excused
                         ELSE excused \union {r.site} \union {client[d].site : d \in others}
           /\ UNCHANGED stored
    BY <1>15 DEF Stores, new
  <2> HIDE DEF changed
  <2>4. new # 0 \/ r.site \in excused
    BY <1>2, <2>1 DEF Relies
  <2>5. CASE /\ backend = "keyring" \/ changed = stored
             /\ stored' = changed
             /\ client' = [client EXCEPT ![c] = HasStored(r)]
             /\ UNCHANGED excused
    BY <1>1, <2>1, <2>2, <2>4, <2>5, StoreChanges
  <2>6. CASE /\ backend = "file"
             /\ client' = [client EXCEPT ![c].at = "save", ![c].map = changed]
             /\ excused' = IF others = {} THEN excused
                           ELSE excused \union {r.site} \union {client[d].site : d \in others}
             /\ UNCHANGED stored
    <3>1. PICK q \in Process : /\ client' = [client EXCEPT ![c] = q]
                               /\ q.at = "save" /\ q.site = r.site /\ q.op = r.op
                               /\ q.names = r.names /\ q.secret = r.secret /\ q.map = changed
      <4> DEFINE q == [r EXCEPT !.at = "save", !.map = changed]
      <4>1. /\ q \in Process /\ q.at = "save" /\ q.site = r.site /\ q.op = r.op
            /\ q.names = r.names /\ q.secret = r.secret /\ q.map = changed
        BY <1>2, <2>2 DEF Process, Ensuring
      <4>2. client' = [client EXCEPT ![c] = q]
        BY <1>1, <2>6
      <4> QED
        BY <4>1, <4>2
    <3>2. /\ excused \subseteq excused' /\ excused' \subseteq Sites
          /\ \A d \in Clients : client[d].at \in Loaded
                => {r.site, client[d].site} \subseteq excused'
      <4>1. \A d \in Clients : client[d].site \in Sites
        BY <1>1 DEF Process
      <4> QED
        BY <1>1, <1>2, <2>6, <4>1
    <3>3. Relies(q)
      BY <1>2, <2>1, <2>2, <2>4, <2>6, <3>1 DEF Relies, Loaded
    <3>4. Relies(q)'
      BY <2>1, <2>6, <3>2, <3>3 DEF Relies, Kept
    <3>5. \A t \in index' : Kept(t)'
      BY <1>3, <2>1, <2>6, <3>2 DEF Kept
    <3>6. r.at \in Ensuring
      BY <2>1 DEF Ensuring
    <3>7. \A d \in Clients \ {c} :
             /\ client[d].site = q.site /\ client[d].at \in Ensuring => q.site \in excused'
             /\ client[d].at \in Loaded => {q.site, client[d].site} \subseteq excused'
      BY <1>4, <3>1, <3>2, <3>6
    <3>8. index' \subseteq Sites /\ edits' \in 0..MaxEdits /\ torn' \in BOOLEAN
          /\ (torn' => torn /\ r.at # "saving") /\ UNCHANGED <<backend, stored, account>>
      BY <1>1, <2>1, <2>6
    <3> QED
      BY <2>1, <3>1, <3>2, <3>4, <3>5, <3>7, <3>8, ClientMoves
  <2> QED
    BY <2>3, <2>5, <2>6
<1>16. CASE Saved(c)
  <2>1. /\ r.at = "saving" /\ stored' = r.map
        /\ client' = [client EXCEPT ![c] = HasStored(r)]
        /\ UNCHANGED <<backend, index, account, generated, edits>>
        /\ \/ torn' = FALSE /\ UNCHANGED excused
           \/ torn' = TRUE /\ excused' = Sites
    BY <1>1, <1>16 DEF Saved
  <2>2. /\ \A t \in Sites \ {r.site} : r.map[t] = stored[t] \/ t \in excused
        /\ r.map[r.site] # 0 \/ r.site \in excused
    BY <1>2, <2>1 DEF Relies, Loaded
  <2> QED
    BY <1>1, <1>2, <2>1, <2>2, StoreChanges
<1>17. CASE SignUp(c)
  <2> DEFINE s == r.site
  <2>1. /\ account' = [account EXCEPT ![s] = Typed(c)]
        /\ excused' = IF r.secret = 0 THEN excused \union {s} ELSE excused
        /\ UNCHANGED <<backend, stored, torn, index, generated, client, edits>>
    BY <1>17 DEF SignUp
  <2>2. Typed(c) \in 0..Placeholder /\ (r.secret # 0 => Typed(c) = r.secret)
    BY <1>2, VaultNumbers DEF Typed, Placeholder, Process
  <2>3. excused' \subseteq Sites /\ excused \subseteq excused'
    BY <1>1, <1>2, <2>1
  <2>4. VaultTypeOK'
    BY <1>1, <2>1, <2>2, <2>3 DEF VaultTypeOK, Process, Placeholder
  <2>5. torn => excused' = Sites \/ \E d \in Clients : client[d].at = "saving"
    BY <1>1, <2>3 DEF VaultInv
  <2>6. AccountsOpen'
    <3> SUFFICES ASSUME NEW t \in Sites, t \notin excused', account'[t] # 0
                 PROVE  stored[t] = account'[t]
      BY <2>1, <2>5 DEF AccountsOpen
    <3>1. CASE t = s
      BY <1>1, <1>2, <2>1, <2>2, <2>3, <3>1 DEF Relies
    <3>2. CASE t # s
      BY <1>1, <2>1, <2>3, <3>2 DEF VaultInv, AccountsOpen
    <3> QED
      BY <3>1, <3>2
  <2>7. ASSUME NEW d \in Clients PROVE Relies(client[d])'
    <3>1. Relies(client[d])
      BY DEF VaultInv
    <3> QED
      BY <2>1, <2>3, <3>1 DEF Relies, Kept
  <2> QED
    BY <2>1, <2>3, <2>4, <2>5, <2>6, <2>7 DEF VaultInv, NamedHavePasswords
<1> QED
  BY <1>5, <1>6, <1>8, <1>9, <1>10, <1>11, <1>12, <1>13, <1>14, <1>15, <1>16, <1>17
     DEF ClientStep

LEMMA VaultStep == VaultInv /\ [VaultNext]_vaultVars => VaultInv'
<1>1. ASSUME VaultInv, UNCHANGED vaultVars PROVE VaultInv'
  BY <1>1 DEF vaultVars, VaultInv, VaultTypeOK, NamedHavePasswords, AccountsOpen, Placeholder,
              Relies, Kept
<1> QED
  BY <1>1, ClientStepInv DEF VaultNext

\* Run after run, with proxies and commands for the same site or for others, and with any
\* of them killed at any step, an account opens with the password the vault has, in the
\* keyring and in the file that is loaded and written whole: unless the vault refused,
\* two runs made its first password at once, the human touched the site, or, in the
\* file, another change overlapped the site's or a write was cut off.  And although the
\* index is emptied and written whole, from what was read before, it never names a site
\* without a password.
THEOREM VaultIsKept == VaultSpec => []VaultHolds
<1>1. VaultInv => VaultHolds
  BY DEF VaultInv, VaultHolds
<1> QED
  BY <1>1, VaultInitInv, VaultStep, PTL DEF VaultSpec

\* The vault keeps its types.
THEOREM VaultTypeCorrect == VaultSpec => []VaultTypeOK
<1>1. VaultInv => VaultTypeOK
  BY DEF VaultInv
<1> QED
  BY <1>1, VaultInitInv, VaultStep, PTL DEF VaultSpec

-----------------------------------------------------------------------------
(* The answers archive that polls share *)

\* Nobody is ahead of the archive.  Between two parses that neither overlapped nor
\* raised, what is kept, or about to be, is of the version signed or of a later one.
AnswersInv ==
    /\ AnswersTypeOK
    /\ sig <= version /\ entries <= version
    /\ \A t \in Readers : reader[t].holds <= version
    /\ ~muddled =>
         /\ \A t, u \in Parsing : t = u
         /\ \A t \in Readers : reader[t].at = "store" => reader[t].holds >= sig
         /\ Parsing = {} => entries >= sig

Polls == [at : {"off", "compare", "parse", "store"}, holds : 0..MaxVersion]

LEMMA AnswersInitInv == AnswersInit => AnswersInv
<1> SUFFICES ASSUME AnswersInit PROVE AnswersInv
  OBVIOUS
<1>1. 0 \in 0..MaxVersion /\ 1 \in 1..MaxVersion
  BY AnswersAssumption
<1>2. ReaderAt("off", 0) \in Polls /\ ReaderAt("off", 0).at = "off" /\ ReaderAt("off", 0).holds = 0
  BY <1>1 DEF ReaderAt, Polls
<1>3. AnswersTypeOK
  BY <1>1, <1>2 DEF AnswersInit, AnswersTypeOK, Polls
<1>4. \A t \in Readers : reader[t].at = "off" /\ reader[t].holds = 0
  BY <1>2 DEF AnswersInit
<1>5. Parsing = {}
  BY <1>4 DEF Parsing
<1> QED
  BY <1>3, <1>4, <1>5 DEF AnswersInit, AnswersInv

LEMMA AnswersStep == AnswersInv /\ [AnswersNext]_answersVars => AnswersInv'
<1> SUFFICES ASSUME AnswersInv, [AnswersNext]_answersVars PROVE AnswersInv'
  OBVIOUS
<1>1. /\ MaxVersion \in Nat \ {0} /\ version \in 1..MaxVersion
      /\ sig \in 0..MaxVersion /\ entries \in 0..MaxVersion
      /\ reader \in [Readers -> Polls] /\ muddled \in BOOLEAN
  BY AnswersAssumption DEF AnswersInv, AnswersTypeOK, Polls
<1>2. \A t \in Readers : reader[t].holds \in 0..MaxVersion
  BY <1>1 DEF Polls
<1>3. CASE Change
  <2>1. /\ version' = version + 1 /\ version' \in 1..MaxVersion
        /\ UNCHANGED <<sig, entries, reader, muddled>>
    BY <1>1, <1>3 DEF Change
  <2>2. AnswersTypeOK' /\ Parsing' = Parsing
    BY <1>1, <2>1 DEF AnswersTypeOK, Polls, Parsing
  <2>3. \A t \in Readers : reader'[t].holds <= version'
    BY <1>1, <1>2, <2>1 DEF AnswersInv
  <2>4. sig' <= version' /\ entries' <= version'
    BY <1>1, <2>1 DEF AnswersInv
  <2> QED
    BY <2>1, <2>2, <2>3, <2>4 DEF AnswersInv
<1>4. ASSUME NEW t \in Readers, Stat(t) \/ Hit(t) PROVE AnswersInv'
  <2>1. PICK r \in Polls : /\ reader' = [reader EXCEPT ![t] = r]
                           /\ r.at \in {"off", "compare"} /\ r.holds <= version
    <3>1. \A place \in {"off", "compare"}, n \in 0..MaxVersion :
             /\ ReaderAt(place, n) \in Polls
             /\ ReaderAt(place, n).at = place /\ ReaderAt(place, n).holds = n
      BY DEF ReaderAt, Polls
    <3>2. CASE Stat(t)
      <4>1. version \in 0..MaxVersion /\ version <= version
        BY <1>1
      <4> QED
        BY <3>1, <3>2, <4>1 DEF Stat
    <3>3. CASE Hit(t)
      <4>1. 0 \in 0..MaxVersion /\ 0 <= version
        BY <1>1
      <4> QED
        BY <3>1, <3>3, <4>1 DEF Hit
    <3> QED
      BY <1>4, <3>2, <3>3
  <2>2. reader[t].at \in {"off", "compare"} /\ UNCHANGED <<version, sig, entries, muddled>>
    BY <1>4 DEF Stat, Hit
  <2>3. AnswersTypeOK' /\ Parsing' = Parsing
    BY <1>1, <2>1, <2>2 DEF AnswersTypeOK, Polls, Parsing
  <2> QED
    BY <1>1, <2>1, <2>2, <2>3 DEF AnswersInv
<1>5. ASSUME NEW t \in Readers, Claim(t) PROVE AnswersInv'
  <2>1. ReaderAt("parse", 0) \in Polls /\ ReaderAt("parse", 0).at = "parse"
        /\ ReaderAt("parse", 0).holds = 0
    BY <1>1 DEF ReaderAt, Polls
  <2>2. /\ sig' = reader[t].holds /\ muddled' = (Parsing # {})
        /\ reader' = [reader EXCEPT ![t] = ReaderAt("parse", 0)] /\ reader[t].at = "compare"
        /\ UNCHANGED <<version, entries>>
    BY <1>5 DEF Claim
  <2>3. AnswersTypeOK' /\ Parsing' = Parsing \union {t}
    BY <1>1, <1>2, <2>1, <2>2 DEF AnswersTypeOK, Polls, Parsing
  <2>4. Parsing = {} => \A u \in Readers : reader'[u].at # "store"
    BY <1>1, <2>1, <2>2 DEF Parsing
  <2>5. \A u \in Readers : reader'[u].holds <= version'
    BY <1>1, <2>1, <2>2 DEF AnswersInv
  <2>6. sig' <= version' /\ entries' <= version'
    BY <2>2 DEF AnswersInv
  <2> QED
    BY <2>2, <2>3, <2>4, <2>5, <2>6 DEF AnswersInv
<1>6. ASSUME NEW t \in Readers, Parse(t) PROVE AnswersInv'
  <2>1. ReaderAt("store", version) \in Polls /\ ReaderAt("store", version).at = "store"
        /\ ReaderAt("store", version).holds = version
    BY <1>1 DEF ReaderAt, Polls
  <2>2. /\ reader' = [reader EXCEPT ![t] = ReaderAt("store", version)] /\ reader[t].at = "parse"
        /\ UNCHANGED <<version, sig, entries, muddled>>
    BY <1>6 DEF Parse
  <2>3. AnswersTypeOK' /\ Parsing' = Parsing
    BY <1>1, <2>1, <2>2 DEF AnswersTypeOK, Polls, Parsing
  <2>4. \A u \in Readers : /\ reader'[u].holds <= version
                           /\ (~muddled /\ reader'[u].at = "store") => reader'[u].holds >= sig
    BY <1>1, <2>1, <2>2 DEF AnswersInv
  <2> QED
    BY <2>2, <2>3, <2>4 DEF AnswersInv
<1>7. ASSUME NEW t \in Readers, ParseRaises(t) PROVE AnswersInv'
  <2>1. ReaderAt("off", 0) \in Polls /\ ReaderAt("off", 0).holds = 0
    BY <1>1 DEF ReaderAt, Polls
  <2>2. /\ reader' = [reader EXCEPT ![t] = ReaderAt("off", 0)] /\ muddled'
        /\ UNCHANGED <<version, sig, entries>>
    BY <1>7 DEF ParseRaises
  <2>3. AnswersTypeOK'
    BY <1>1, <2>1, <2>2 DEF AnswersTypeOK, Polls
  <2> QED
    BY <1>1, <2>1, <2>2, <2>3 DEF AnswersInv
<1>8. ASSUME NEW t \in Readers, Store(t) PROVE AnswersInv'
  <2>1. ReaderAt("off", 0) \in Polls /\ ReaderAt("off", 0).at = "off"
        /\ ReaderAt("off", 0).holds = 0
    BY <1>1 DEF ReaderAt, Polls
  <2>2. /\ reader' = [reader EXCEPT ![t] = ReaderAt("off", 0)] /\ reader[t].at = "store"
        /\ entries' = reader[t].holds /\ UNCHANGED <<version, sig, muddled>>
    BY <1>8 DEF Store
  <2>3. AnswersTypeOK' /\ Parsing' = Parsing \ {t} /\ t \in Parsing
    BY <1>1, <1>2, <2>1, <2>2 DEF AnswersTypeOK, Polls, Parsing
  <2>4. \A u \in Readers : /\ reader'[u].holds <= version
                           /\ reader'[u].at = "store" => reader'[u] = reader[u]
    BY <1>1, <2>1, <2>2 DEF AnswersInv
  <2>5. entries' <= version /\ (~muddled => entries' >= sig)
    BY <2>2 DEF AnswersInv
  <2> QED
    BY <2>2, <2>3, <2>4, <2>5 DEF AnswersInv
<1>9. CASE UNCHANGED answersVars
  BY <1>9 DEF answersVars, AnswersInv, AnswersTypeOK, Parsing
<1> QED
  BY <1>3, <1>4, <1>5, <1>6, <1>7, <1>8, <1>9 DEF AnswersNext

\* However many polls are served at once, the answers that a poll takes from the cache
\* are those in the archive, unless two parses overlapped or one raised.
THEOREM AnswersAreFresh == AnswersSpec => []CurrentIsFresh
<1>1. AnswersInv => CurrentIsFresh
  BY DEF AnswersInv, AnswersTypeOK, CurrentIsFresh
<1> QED
  BY <1>1, AnswersInitInv, AnswersStep, PTL DEF AnswersSpec

\* The cache keeps its types.
THEOREM AnswersTypeCorrect == AnswersSpec => []AnswersTypeOK
<1>1. AnswersInv => AnswersTypeOK
  BY DEF AnswersInv
<1> QED
  BY <1>1, AnswersInitInv, AnswersStep, PTL DEF AnswersSpec

-----------------------------------------------------------------------------
(* The migrations *)

LEMMA FiveMigrations == Len(Creates) = 5 /\ Newest = 5 /\ Baseline = 1
BY DEF Creates, Newest, Baseline

LEMMA Statements ==
    \A n \in 1..5 : Len(Creates[n]) \in 1..7 /\ DOMAIN Creates[n] = 1..Len(Creates[n])
<1>1. /\ Creates[1] = CreatesBaseline /\ Creates[2] = CreatesEvents
      /\ Creates[3] = CreatesTaxonomy /\ Creates[4] = CreatesEmails /\ Creates[5] = CreatesArchive
  BY DEF Creates
<1>2. /\ Len(CreatesBaseline) = 7 /\ DOMAIN CreatesBaseline = 1..7
      /\ Len(CreatesEvents) = 4 /\ DOMAIN CreatesEvents = 1..4
      /\ Len(CreatesTaxonomy) = 5 /\ DOMAIN CreatesTaxonomy = 1..5
      /\ Len(CreatesEmails) = 3 /\ DOMAIN CreatesEmails = 1..3
      /\ Len(CreatesArchive) = 2 /\ DOMAIN CreatesArchive = 1..2
  BY DEF CreatesBaseline, CreatesEvents, CreatesTaxonomy, CreatesEmails, CreatesArchive
<1>3. \A n \in 1..5 : n = 1 \/ n = 2 \/ n = 3 \/ n = 4 \/ n = 5
  OBVIOUS
<1> QED
  BY <1>1, <1>2, <1>3

\* What a migration creates is in the schemas from it on.
LEMMA SchemaGrows ==
    /\ SchemaAt(0) = {}
    /\ \A n \in 0..4 : SchemaAt(n + 1) = SchemaAt(n) \union ToSet(Creates[n + 1])
    /\ \A n \in 0..5 : SchemaAt(n) \subseteq SchemaAt(5)
    /\ \A n \in 1..5 : "jobs" \in SchemaAt(n)
<1>1. \A n \in 0..4 : 1..(n + 1) = (1..n) \union {n + 1}
  OBVIOUS
<1>2. \A n \in 0..5 : 1..n \subseteq 1..5
  OBVIOUS
<1>3. "jobs" \in ToSet(Creates[1])
  BY DEF ToSet, Creates, CreatesBaseline
<1>4. 1..0 = {} /\ \A n \in 1..5 : 1 \in 1..n
  OBVIOUS
<1> QED
  BY <1>1, <1>2, <1>3, <1>4 DEF SchemaAt

-----------------------------------------------------------------------------
(* The inductive invariant *)

Launches == [at : {"idle", "stamp", "mark", "upgrade", "create", "open", "failed"},
             adopt : BOOLEAN, from : 0..Newest, next : 1..8]

\* What the row says there is, is there; so is what a process that adopts the database
\* takes for granted, and what one that migrates it has seen or made.  A database that
\* Alembic has not seen is empty, or has the baseline.
MigrationsInv ==
    /\ MigrationsTypeOK
    /\ \A n \in heads : SchemaAt(n) \subseteq schema
    /\ heads # {} => versioned
    /\ ~versioned /\ "jobs" \in schema => SchemaAt(Baseline) \subseteq schema
    /\ \A p \in Launchers :
          /\ launch[p].at \in {"mark", "create"} =>
                versioned /\ SchemaAt(launch[p].from) \subseteq schema
          /\ launch[p].at \in {"stamp", "mark"} => SchemaAt(Baseline) \subseteq schema
          /\ launch[p].at = "create" /\ Target(p) <= Newest =>
                \A k \in 1..(launch[p].next - 1) :
                    k \in DOMAIN Creates[Target(p)] => Creates[Target(p)][k] \in schema
          /\ launch[p].at = "open" => schema = SchemaAt(Newest)

LEMMA MigrationsInitInv == MigrationsInit => MigrationsInv
<1> SUFFICES ASSUME MigrationsInit PROVE MigrationsInv
  OBVIOUS
<1>1. Resting \in Launches /\ Resting.at = "idle"
  BY FiveMigrations DEF Resting, Launches
<1>2. /\ schema \subseteq SchemaAt(5) /\ heads \subseteq 1..5 /\ versioned \in BOOLEAN
      /\ \A n \in heads : SchemaAt(n) \subseteq schema
      /\ heads # {} => versioned
      /\ ~versioned /\ "jobs" \in schema => SchemaAt(1) \subseteq schema
  <2>1. CASE schema = {} /\ versioned = FALSE /\ heads = {}
    BY <2>1
  <2>2. CASE schema = SchemaAt(Baseline) /\ versioned = FALSE /\ heads = {}
    <3>1. SchemaAt(1) \subseteq SchemaAt(5)
      BY SchemaGrows
    <3>2. schema = SchemaAt(1) /\ versioned = FALSE /\ heads = {}
      BY <2>2, FiveMigrations
    <3> QED
      BY <3>1, <3>2
  <2>3. CASE \E n \in 1..Newest : schema = SchemaAt(n) /\ versioned = TRUE /\ heads = {n}
    BY <2>3, SchemaGrows, FiveMigrations
  <2> QED
    BY <2>1, <2>2, <2>3 DEF MigrationsInit
<1>3. launch \in [Launchers -> Launches] /\ \A p \in Launchers : launch[p].at = "idle"
  BY <1>1 DEF MigrationsInit
<1>4. kills \in 0..MaxKills /\ crowded \in BOOLEAN
  <2>1. 0 \in 0..MaxKills
    BY MigrationsAssumption
  <2> QED
    BY <2>1 DEF MigrationsInit
<1>5. MigrationsTypeOK
  BY <1>2, <1>3, <1>4, FiveMigrations DEF MigrationsTypeOK, Launches
<1> QED
  BY <1>2, <1>3, <1>5, FiveMigrations DEF MigrationsInv

\* A step of a process that adds to the schema at most, and moves the row to a revision
\* that the schema has.
LEMMA LaunchMoves ==
    ASSUME MigrationsInv, NEW p \in Launchers, NEW r \in Launches,
           launch' = [launch EXCEPT ![p] = r],
           schema \subseteq schema', schema' \subseteq SchemaAt(Newest),
           heads' \subseteq 1..Newest,
           \A n \in heads' : SchemaAt(n) \subseteq schema',
           versioned' \in BOOLEAN, versioned => versioned', heads' # {} => versioned',
           ~versioned' => schema' = schema,
           kills' \in 0..MaxKills, crowded' \in BOOLEAN,
           r.at \in {"mark", "create"} => versioned' /\ SchemaAt(r.from) \subseteq schema',
           r.at \in {"stamp", "mark"} => SchemaAt(Baseline) \subseteq schema',
           r.at = "create" /\ r.from + 1 <= Newest =>
              \A k \in 1..(r.next - 1) :
                  k \in DOMAIN Creates[r.from + 1] => Creates[r.from + 1][k] \in schema',
           r.at = "open" => schema' = SchemaAt(Newest)
    PROVE  MigrationsInv'
<1>1. launch \in [Launchers -> Launches]
  BY DEF MigrationsInv, MigrationsTypeOK, Launches
<1>2. launch' \in [Launchers -> Launches] /\ launch'[p] = r
      /\ \A q \in Launchers : q # p => launch'[q] = launch[q]
  BY <1>1
<1>3. MigrationsTypeOK'
  BY <1>2 DEF MigrationsTypeOK, Launches
<1>4. ~versioned' /\ "jobs" \in schema' => SchemaAt(Baseline) \subseteq schema'
  BY DEF MigrationsInv, MigrationsTypeOK
<1>5. ASSUME NEW q \in Launchers, q # p
      PROVE  /\ launch'[q].at \in {"mark", "create"} =>
                   versioned' /\ SchemaAt(launch'[q].from) \subseteq schema'
             /\ launch'[q].at \in {"stamp", "mark"} => SchemaAt(Baseline) \subseteq schema'
             /\ launch'[q].at = "create" /\ Target(q)' <= Newest =>
                   \A k \in 1..(launch'[q].next - 1) :
                       k \in DOMAIN Creates[Target(q)'] => Creates[Target(q)'][k] \in schema'
             /\ launch'[q].at = "open" => schema' = SchemaAt(Newest)
  <2>1. launch'[q] = launch[q] /\ Target(q)' = Target(q)
    BY <1>2, <1>5 DEF Target
  <2>2. launch[q].at = "open" => schema' = SchemaAt(Newest)
    BY DEF MigrationsInv
  <2> QED
    BY <2>1, <2>2 DEF MigrationsInv
<1>6. Target(p)' = r.from + 1
  BY <1>2 DEF Target
<1> QED
  BY <1>2, <1>3, <1>4, <1>5, <1>6 DEF MigrationsInv

\* Where nothing but the place of a process changes.
LEMMA OnlyMoves ==
    ASSUME MigrationsInv, NEW p \in Launchers, NEW r \in Launches,
           launch' = [launch EXCEPT ![p] = r],
           UNCHANGED schemaVars, kills' \in 0..MaxKills, crowded' \in BOOLEAN,
           r.at \in {"idle", "failed"} \/ (r.at = "stamp" /\ SchemaAt(Baseline) \subseteq schema)
               \/ r.at = "upgrade" \/ (r.at = "open" /\ schema = SchemaAt(Newest))
    PROVE  MigrationsInv'
<1>1. /\ schema \subseteq SchemaAt(Newest) /\ heads \subseteq 1..Newest /\ versioned \in BOOLEAN
      /\ \A n \in heads : SchemaAt(n) \subseteq schema
      /\ heads # {} => versioned
      /\ UNCHANGED <<schema, versioned, heads>>
  BY DEF MigrationsInv, MigrationsTypeOK, schemaVars
<1>2. r.at \notin {"mark", "create"}
  OBVIOUS
<1> QED
  BY <1>1, <1>2, LaunchMoves

LEMMA MigrationsStep == MigrationsInv /\ [MigrationsNext]_migrationVars => MigrationsInv'
<1> SUFFICES ASSUME MigrationsInv, [MigrationsNext]_migrationVars PROVE MigrationsInv'
  OBVIOUS
<1>1. /\ schema \subseteq SchemaAt(Newest) /\ heads \subseteq 1..Newest
      /\ versioned \in BOOLEAN /\ crowded \in BOOLEAN /\ kills \in 0..MaxKills
      /\ launch \in [Launchers -> Launches]
      /\ \A n \in heads : SchemaAt(n) \subseteq schema
      /\ heads # {} => versioned
  BY DEF MigrationsInv, MigrationsTypeOK, Launches
<1>2. \A p \in Launchers : \A at \in {"idle", "stamp", "mark", "upgrade", "create", "open", "failed"} :
         [launch[p] EXCEPT !.at = at] \in Launches /\ [launch[p] EXCEPT !.at = at].at = at
  BY <1>1 DEF Launches
<1>3. ASSUME NEW p \in Launchers, Inspect(p) PROVE MigrationsInv'
  <2> DEFINE r == [Resting EXCEPT !.at = IF pre_alembic THEN "stamp" ELSE "upgrade",
                                  !.adopt = pre_alembic]
  <2>1. r \in Launches /\ r.at = IF pre_alembic THEN "stamp" ELSE "upgrade"
    <3>1. pre_alembic \in BOOLEAN
      BY DEF pre_alembic
    <3>2. 0 \in 0..Newest /\ 1 \in 1..8
      BY FiveMigrations
    <3>3. Resting \in Launches
      BY <3>2 DEF Resting, Launches
    <3> QED
      BY <3>1, <3>3 DEF Launches
  <2>2. launch' = [launch EXCEPT ![p] = r] /\ UNCHANGED <<schemaVars, kills, crowded>>
    BY <1>3 DEF Inspect
  <2>3. pre_alembic => SchemaAt(Baseline) \subseteq schema
    BY DEF pre_alembic, MigrationsInv
  <2> HIDE DEF r
  <2> QED
    BY <1>1, <2>1, <2>2, <2>3, OnlyMoves
<1>4. ASSUME NEW p \in Launchers, ReadHeads(p) PROVE MigrationsInv'
  <2>1. CASE Cardinality(heads) > 1
    BY <1>1, <1>2, <1>4, <2>1, OnlyMoves DEF ReadHeads, Goto
  <2>2. CASE ~(Cardinality(heads) > 1)
    <3> DEFINE r == [launch[p] EXCEPT !.from = Rev(heads), !.next = 1,
                                      !.at = IF @ = "stamp" THEN "mark" ELSE "create"]
    <3>1. launch' = [launch EXCEPT ![p] = r] /\ versioned' = (versioned \/ heads = {})
          /\ UNCHANGED <<schema, heads, kills, crowded>>
      BY <1>1, <1>4, <2>2 DEF ReadHeads
    <3>2. Rev(heads) \in 0..Newest /\ SchemaAt(Rev(heads)) \subseteq schema
      <4>1. CASE heads = {}
        BY <4>1, SchemaGrows, FiveMigrations DEF Rev
      <4>2. CASE heads # {}
        <5>1. Rev(heads) \in heads
          BY <4>2 DEF Rev
        <5>2. Rev(heads) \in 1..5
          BY <1>1, <5>1, FiveMigrations
        <5>3. SchemaAt(Rev(heads)) \subseteq schema
          BY <1>1, <5>1
        <5> QED
          BY <5>2, <5>3, FiveMigrations
      <4> QED
        BY <4>1, <4>2
    <3>3. /\ r \in Launches /\ r.from = Rev(heads) /\ r.next = 1 /\ r.at \in {"mark", "create"}
          /\ r.at = "mark" => launch[p].at = "stamp"
      <4>1. launch[p] \in Launches /\ 1 \in 1..8
        BY <1>1
      <4> QED
        BY <3>2, <4>1 DEF Launches
    <3>4. versioned' = TRUE
      BY <1>1, <3>1
    <3>5. r.at = "mark" => SchemaAt(Baseline) \subseteq schema
      BY <3>3 DEF MigrationsInv
    <3>6. 1..(r.next - 1) = {}
      BY <3>3
    <3> HIDE DEF r
    <3> QED
      BY <1>1, <3>1, <3>2, <3>3, <3>4, <3>5, <3>6, LaunchMoves
  <2> QED
    BY <2>1, <2>2
<1>5. ASSUME NEW p \in Launchers, NEW n \in 1..Newest, NEW then \in {"upgrade", "create"},
             MoveRow(p, n, then), launch[p].at \in {"mark", "create"},
             SchemaAt(n) \subseteq schema,
             UNCHANGED <<schema, versioned, kills>>, crowded' \in BOOLEAN
      PROVE  MigrationsInv'
  <2> DEFINE old == launch[p].from
  <2>1. CASE (old = 0 /\ n \in heads) \/ (old # 0 /\ old \notin heads)
    <3>1. UNCHANGED schemaVars /\ launch' = [launch EXCEPT ![p] = [launch[p] EXCEPT !.at = "failed"]]
      BY <1>1, <1>5, <2>1 DEF MoveRow, Goto, schemaVars
    <3> QED
      BY <1>1, <1>2, <1>5, <3>1, OnlyMoves
  <2>2. CASE ~((old = 0 /\ n \in heads) \/ (old # 0 /\ old \notin heads))
    <3> DEFINE r == [launch[p] EXCEPT !.at = then, !.from = n, !.next = 1]
    <3>1. heads' = (heads \ {old}) \union {n} /\ launch' = [launch EXCEPT ![p] = r]
      BY <1>1, <1>5, <2>2 DEF MoveRow
    <3>2. /\ r \in Launches /\ r.from = n /\ r.next = 1 /\ r.at = then
      <4>1. launch[p] \in Launches /\ 1 \in 1..8 /\ n \in 0..Newest
        BY <1>1, <1>5, FiveMigrations
      <4>2. then \in {"upgrade", "create"}
        OBVIOUS
      <4> QED
        BY <4>1, <4>2 DEF Launches
    <3>3. versioned /\ versioned' /\ schema' = schema /\ kills' = kills
      BY <1>5 DEF MigrationsInv
    <3>4. heads' \subseteq 1..Newest /\ \A m \in heads' : SchemaAt(m) \subseteq schema
      BY <1>1, <1>5, <3>1
    <3>5. 1..(r.next - 1) = {} /\ r.at \notin {"stamp", "mark", "open"}
      BY <1>5, <3>2
    <3> HIDE DEF r
    <3> QED
      BY <1>1, <1>5, <3>1, <3>2, <3>3, <3>4, <3>5, LaunchMoves
  <2> QED
    BY <2>1, <2>2
<1>6. ASSUME NEW p \in Launchers, Stamp(p) PROVE MigrationsInv'
  <2>1. /\ launch[p].at = "mark" /\ UNCHANGED <<schema, versioned, kills>>
        /\ crowded' \in BOOLEAN /\ SchemaAt(Baseline) \subseteq schema /\ Baseline \in 1..Newest
    BY <1>1, <1>6, FiveMigrations DEF Stamp, MigrationsInv
  <2>2. CASE launch[p].from = Baseline
    <3>1. UNCHANGED schemaVars /\ launch' = [launch EXCEPT ![p] = [launch[p] EXCEPT !.at = "upgrade"]]
      BY <1>1, <1>6, <2>2 DEF Stamp, Goto, schemaVars
    <3> QED
      BY <1>1, <1>2, <2>1, <3>1, OnlyMoves
  <2>3. CASE launch[p].from # Baseline
    <3>1. MoveRow(p, Baseline, "upgrade")
      BY <1>6, <2>3 DEF Stamp
    <3> QED
      BY <1>5, <2>1, <3>1
  <2> QED
    BY <2>2, <2>3
<1>7. ASSUME NEW p \in Launchers, Create(p) \/ Advance(p)
      PROVE  /\ launch[p].at = "create" /\ Target(p) \in 1..5 /\ launch[p].from \in 0..4
             /\ Target(p) = launch[p].from + 1 /\ launch[p].next \in 1..8
             /\ Len(Creates[Target(p)]) \in 1..7
             /\ DOMAIN Creates[Target(p)] = 1..Len(Creates[Target(p)])
             /\ SchemaAt(Target(p)) = SchemaAt(launch[p].from) \union ToSet(Creates[Target(p)])
             /\ SchemaAt(Target(p)) \subseteq SchemaAt(Newest)
             /\ versioned /\ SchemaAt(launch[p].from) \subseteq schema
             /\ \A k \in 1..(launch[p].next - 1) :
                    k \in DOMAIN Creates[Target(p)] => Creates[Target(p)][k] \in schema
  <2>1. /\ launch[p].at = "create" /\ Target(p) <= Newest
        /\ launch[p].from \in 0..5 /\ launch[p].next \in 1..8
    BY <1>1, <1>7, FiveMigrations DEF Create, Advance, Launches
  <2>2. launch[p].from \in 0..4 /\ Target(p) \in 1..5 /\ Target(p) = launch[p].from + 1
    BY <2>1, FiveMigrations DEF Target
  <2> QED
    BY <2>1, <2>2, Statements, SchemaGrows, FiveMigrations DEF MigrationsInv
<1>8. ASSUME NEW p \in Launchers, Create(p) PROVE MigrationsInv'
  <2> DEFINE object == Creates[Target(p)][launch[p].next]
  <2>1. launch[p].next \in DOMAIN Creates[Target(p)] /\ launch[p].next + 1 \in 1..8
    BY <1>7, <1>8 DEF Create
  <2>2. object \in SchemaAt(Target(p))
    BY <1>7, <1>8, <2>1 DEF ToSet
  <2>3. CASE object \in schema
    <3>1. UNCHANGED schemaVars /\ launch' = [launch EXCEPT ![p] = [launch[p] EXCEPT !.at = "failed"]]
          /\ UNCHANGED <<kills, crowded>>
      BY <1>1, <1>8, <2>3 DEF Create, Goto, schemaVars
    <3> QED
      BY <1>1, <1>2, <3>1, OnlyMoves
  <2>4. CASE object \notin schema
    <3> DEFINE r == [launch[p] EXCEPT !.next = launch[p].next + 1]
    <3>1. /\ schema' = schema \union {object} /\ launch' = [launch EXCEPT ![p] = r]
          /\ UNCHANGED <<versioned, heads, kills, crowded>>
      BY <1>1, <1>8, <2>4 DEF Create
    <3>2. r \in Launches /\ r.next = launch[p].next + 1 /\ r.from = launch[p].from /\ r.at = "create"
      BY <1>1, <1>7, <1>8, <2>1 DEF Launches
    <3>3. ASSUME NEW k \in 1..(r.next - 1), k \in DOMAIN Creates[r.from + 1]
          PROVE  Creates[r.from + 1][k] \in schema'
      <4>1. k \in 1..(launch[p].next - 1) \/ k = launch[p].next
        BY <1>7, <1>8, <3>2
      <4>2. r.from + 1 = Target(p)
        BY <1>7, <1>8, <3>2
      <4>3. k \in 1..(launch[p].next - 1) => Creates[Target(p)][k] \in schema
        BY <1>7, <1>8, <3>3, <4>2
      <4> QED
        BY <3>1, <4>1, <4>2, <4>3
    <3>4. schema' \subseteq SchemaAt(Newest)
      BY <1>1, <1>7, <1>8, <2>2, <3>1
    <3>5. versioned' /\ SchemaAt(r.from) \subseteq schema'
      BY <1>7, <1>8, <3>1, <3>2
    <3> HIDE DEF r, object
    <3> QED
      BY <1>1, <3>1, <3>2, <3>3, <3>4, <3>5, LaunchMoves
  <2> QED
    BY <2>3, <2>4
<1>9. ASSUME NEW p \in Launchers, Advance(p) PROVE MigrationsInv'
  <2>1. launch[p].next > Len(Creates[Target(p)]) /\ MoveRow(p, Target(p), "create")
        /\ UNCHANGED <<schema, versioned, kills, crowded>>
    BY <1>9 DEF Advance
  <2>2. \A k \in DOMAIN Creates[Target(p)] : k \in 1..(launch[p].next - 1)
    BY <1>7, <1>9, <2>1
  <2>3. ToSet(Creates[Target(p)]) \subseteq schema
    BY <1>7, <1>9, <2>2 DEF ToSet
  <2>4. SchemaAt(Target(p)) \subseteq schema
    BY <1>7, <1>9, <2>3
  <2> QED
    BY <1>1, <1>5, <1>7, <1>9, <2>1, <2>4, FiveMigrations
<1>10. ASSUME NEW p \in Launchers, Opened(p) PROVE MigrationsInv'
  <2>1. launch[p].at = "create" /\ launch[p].from \in 0..5 /\ launch[p].from + 1 > 5
        /\ launch' = [launch EXCEPT ![p] = [launch[p] EXCEPT !.at = "open"]]
        /\ UNCHANGED <<schemaVars, kills, crowded>>
    BY <1>1, <1>10, FiveMigrations DEF Opened, Goto, Target, Launches
  <2>2. launch[p].from = 5
    BY <2>1
  <2>3. schema = SchemaAt(Newest)
    BY <1>1, <2>1, <2>2, FiveMigrations DEF MigrationsInv
  <2> QED
    BY <1>1, <1>2, <2>1, <2>3, OnlyMoves
<1>11. ASSUME NEW p \in Launchers, Exit(p) PROVE MigrationsInv'
  BY <1>1, <1>2, <1>11, OnlyMoves DEF Exit, Goto
<1>12. ASSUME NEW p \in Launchers, Kill(p) PROVE MigrationsInv'
  <2>1. kills' \in 0..MaxKills
    BY <1>1, <1>12, MigrationsAssumption DEF Kill
  <2> QED
    BY <1>1, <1>2, <1>12, <2>1, OnlyMoves DEF Kill, Goto
<1>13. CASE UNCHANGED migrationVars
  BY <1>13 DEF migrationVars, schemaVars, MigrationsInv, MigrationsTypeOK, Target
<1> QED
  BY <1>3, <1>4, <1>6, <1>8, <1>9, <1>10, <1>11, <1>12, <1>13 DEF MigrationsNext, LaunchStep

\* However many processes bring the database up to date at once, wherever one of them is
\* killed, and whatever state the database was in, a command that goes on has the schema
\* of the newest migration.
THEOREM OpenedIsComplete == MigrationsSpec => []OpenIsComplete
<1>1. MigrationsInv => OpenIsComplete
  BY DEF MigrationsInv, OpenIsComplete
<1> QED
  BY <1>1, MigrationsInitInv, MigrationsStep, PTL DEF MigrationsSpec

\* Opening the database keeps its types: there is never an object that no migration makes.
THEOREM MigrationsTypeCorrect == MigrationsSpec => []MigrationsTypeOK
<1>1. MigrationsInv => MigrationsTypeOK
  BY DEF MigrationsInv
<1> QED
  BY <1>1, MigrationsInitInv, MigrationsStep, PTL DEF MigrationsSpec

-----------------------------------------------------------------------------
(***************************************************************************)
(* Opening the database again.  Without a death in the middle, at most one *)
(* process gets beyond the first statement of a migration: the others fail *)
(* at it.  And without a second adoption the row says what there is, but   *)
(* for the statements that one process has made so far.                    *)
(***************************************************************************)

\* The schema at revision r, and the first k statements of the next migration.
Built(r, k) == SchemaAt(r) \union {Creates[r + 1][i] : i \in 1..k}

Working(p) == launch[p].at = "create" /\ launch[p].next > 1

\* Alembic knows the database: it is at revision r, and somebody who made k statements
\* of the next migration is going on.
Clean(r, k) ==
    /\ heads = IF r = 0 THEN {} ELSE {r}
    /\ schema = Built(r, k)
    /\ k > 0 => r <= 4 /\ k <= Len(Creates[r + 1])
    /\ versioned \/ schema = {}
    /\ k > 0 => \E p \in Launchers : Working(p)
    /\ \A p \in Launchers : launch[p].at = "create" => launch[p].from <= r
    /\ \A p \in Launchers : Working(p) => k > 0 /\ launch[p].from = r /\ launch[p].next = k + 1
    /\ \A p, q \in Launchers : Working(p) /\ Working(q) => p = q
    /\ \A p \in Launchers : launch[p].at \in {"stamp", "mark"} => r # 0

\* Nobody has adopted the database yet, and who made the version table is about to.
Unadopted ==
    /\ schema = SchemaAt(Baseline) /\ heads = {}
    /\ versioned => \E p \in Launchers : launch[p].at = "mark"
    /\ \A p \in Launchers :
          /\ launch[p].at = "upgrade" => versioned
          /\ launch[p].at \in {"mark", "create"} => launch[p].from = 0 /\ launch[p].next = 1

Undisturbed == kills = 0 /\ ~crowded

Reopens == Undisturbed => Unadopted \/ \E r \in 0..5, k \in 0..7 : Clean(r, k)

\* The objects of all migrations are different: their numbers in the order they are
\* made are.
Number(o) ==
    CASE o = "jobs" -> 11 [] o = "jobs.url_hash#" -> 12 [] o = "jobs.company#" -> 13
      [] o = "jobs.status#" -> 14 [] o = "applications" -> 15
      [] o = "applications.job_id#" -> 16 [] o = "run_logs" -> 17
      [] o = "job_events" -> 21 [] o = "job_events.job_id#" -> 22
      [] o = "job_events.at#" -> 23 [] o = "jobs.notes" -> 24
      [] o = "jobs.role_family" -> 31 [] o = "jobs.seniority" -> 32
      [] o = "jobs.work_model" -> 33 [] o = "jobs.employer_tier" -> 34
      [] o = "jobs.role_family#" -> 35
      [] o = "email_messages" -> 41 [] o = "email_messages.job_id#" -> 42
      [] o = "email_messages.gmail_msg_id#" -> 43
      [] o = "jobs.archived_at" -> 51 [] o = "jobs.archived_at#" -> 52
      [] OTHER -> 0

LEMMA Numbered ==
    \A n \in 1..5 : \A i \in 1..Len(Creates[n]) : Number(Creates[n][i]) = 10 * n + i
<1>0. /\ Creates[1] = CreatesBaseline /\ Creates[2] = CreatesEvents
      /\ Creates[3] = CreatesTaxonomy /\ Creates[4] = CreatesEmails /\ Creates[5] = CreatesArchive
  BY DEF Creates
<1>1. \A i \in 1..Len(CreatesBaseline) : Number(CreatesBaseline[i]) = 10 + i
  <2>1. /\ Len(CreatesBaseline) = 7
        /\ Number(CreatesBaseline[1]) = 11 /\ Number(CreatesBaseline[2]) = 12
        /\ Number(CreatesBaseline[3]) = 13 /\ Number(CreatesBaseline[4]) = 14
        /\ Number(CreatesBaseline[5]) = 15 /\ Number(CreatesBaseline[6]) = 16
        /\ Number(CreatesBaseline[7]) = 17
    BY DEF CreatesBaseline, Number
  <2> QED
    BY <2>1
<1>2. \A i \in 1..Len(CreatesEvents) : Number(CreatesEvents[i]) = 20 + i
  <2>1. /\ Len(CreatesEvents) = 4
        /\ Number(CreatesEvents[1]) = 21 /\ Number(CreatesEvents[2]) = 22
        /\ Number(CreatesEvents[3]) = 23 /\ Number(CreatesEvents[4]) = 24
    BY DEF CreatesEvents, Number
  <2> QED
    BY <2>1
<1>3. \A i \in 1..Len(CreatesTaxonomy) : Number(CreatesTaxonomy[i]) = 30 + i
  <2>1. /\ Len(CreatesTaxonomy) = 5
        /\ Number(CreatesTaxonomy[1]) = 31 /\ Number(CreatesTaxonomy[2]) = 32
        /\ Number(CreatesTaxonomy[3]) = 33 /\ Number(CreatesTaxonomy[4]) = 34
        /\ Number(CreatesTaxonomy[5]) = 35
    BY DEF CreatesTaxonomy, Number
  <2> QED
    BY <2>1
<1>4. \A i \in 1..Len(CreatesEmails) : Number(CreatesEmails[i]) = 40 + i
  <2>1. /\ Len(CreatesEmails) = 3
        /\ Number(CreatesEmails[1]) = 41 /\ Number(CreatesEmails[2]) = 42
        /\ Number(CreatesEmails[3]) = 43
    BY DEF CreatesEmails, Number
  <2> QED
    BY <2>1
<1>5. \A i \in 1..Len(CreatesArchive) : Number(CreatesArchive[i]) = 50 + i
  <2>1. /\ Len(CreatesArchive) = 2
        /\ Number(CreatesArchive[1]) = 51 /\ Number(CreatesArchive[2]) = 52
    BY DEF CreatesArchive, Number
  <2> QED
    BY <2>1
<1> SUFFICES ASSUME NEW n \in 1..5, NEW i \in 1..Len(Creates[n])
             PROVE  Number(Creates[n][i]) = 10 * n + i
  OBVIOUS
<1>6. n = 1 \/ n = 2 \/ n = 3 \/ n = 4 \/ n = 5
  OBVIOUS
<1> HIDE DEF Number
<1> QED
  BY <1>0, <1>1, <1>2, <1>3, <1>4, <1>5, <1>6

\* A statement that is yet to come has not been made.
LEMMA NotMadeYet ==
    ASSUME NEW r \in 0..4, NEW k \in 0..7, k < Len(Creates[r + 1])
    PROVE  Creates[r + 1][k + 1] \notin Built(r, k)
<1> DEFINE o == Creates[r + 1][k + 1]
<1>1. Len(Creates[r + 1]) \in 1..7 /\ r + 1 \in 1..5 /\ k + 1 \in 1..Len(Creates[r + 1])
  BY Statements
<1>2. Number(o) = 10 * (r + 1) + (k + 1)
  BY <1>1, Numbered
<1>3. ASSUME NEW i \in 1..k PROVE Creates[r + 1][i] # o
  <2>1. Number(Creates[r + 1][i]) = 10 * (r + 1) + i
    <3>1. i \in 1..Len(Creates[r + 1])
      BY <1>1
    <3> QED
      BY <1>1, <3>1, Numbered
  <2>2. 10 * (r + 1) + i # 10 * (r + 1) + (k + 1)
    OBVIOUS
  <2> HIDE DEF o
  <2> QED
    BY <1>2, <2>1, <2>2
<1>4. ASSUME NEW m \in 1..r, NEW i \in DOMAIN Creates[m] PROVE Creates[m][i] # o
  <2>1. m \in 1..5 /\ i \in 1..Len(Creates[m]) /\ Len(Creates[m]) \in 1..7
    BY Statements
  <2>2. Number(Creates[m][i]) = 10 * m + i
    BY <2>1, Numbered
  <2>3. 10 * m + i # 10 * (r + 1) + (k + 1)
    BY <1>1, <2>1
  <2> HIDE DEF o
  <2> QED
    BY <1>2, <2>2, <2>3
<1> HIDE DEF o
<1>5. o \notin SchemaAt(r)
  BY <1>4 DEF SchemaAt, ToSet
<1> QED
  BY <1>3, <1>5 DEF Built, o

LEMMA BuiltGrows ==
    /\ \A r : Built(r, 0) = SchemaAt(r)
    /\ \A r, k : k \in Nat => Built(r, k + 1) = Built(r, k) \union {Creates[r + 1][k + 1]}
    /\ \A r \in 0..4 : Built(r, Len(Creates[r + 1])) = SchemaAt(r + 1)
    /\ \A k : \A r \in 0..5, m \in 1..5 : m <= r => Creates[m][1] \in Built(r, k)
    /\ \A r : \A k \in 1..7 : Creates[r + 1][1] \in Built(r, k)
<1>1. 1..0 = {} /\ \A k \in Nat : 1..(k + 1) = (1..k) \union {k + 1}
  OBVIOUS
<1>2. ASSUME NEW r \in 0..4 PROVE Built(r, Len(Creates[r + 1])) = SchemaAt(r + 1)
  <2>1. r + 1 \in 1..5
    OBVIOUS
  <2>2. DOMAIN Creates[r + 1] = 1..Len(Creates[r + 1])
    BY <2>1, Statements
  <2>3. ToSet(Creates[r + 1]) = {Creates[r + 1][i] : i \in 1..Len(Creates[r + 1])}
    BY <2>2 DEF ToSet
  <2> QED
    BY <2>3, SchemaGrows DEF Built
<1>3. ASSUME NEW r \in 0..5, NEW m \in 1..5, NEW k, m <= r
      PROVE  Creates[m][1] \in Built(r, k)
  <2>1. 1 \in DOMAIN Creates[m] /\ m \in 1..r
    BY <1>3, Statements
  <2> QED
    BY <2>1 DEF Built, SchemaAt, ToSet
<1>4. \A k \in 1..7 : 1 \in 1..k
  OBVIOUS
<1>5. \A r : Built(r, 0) = SchemaAt(r)
  BY <1>1 DEF Built
<1>6. ASSUME NEW r, NEW k \in Nat
      PROVE  Built(r, k + 1) = Built(r, k) \union {Creates[r + 1][k + 1]}
  BY <1>1 DEF Built
<1>7. \A r : \A k \in 1..7 : Creates[r + 1][1] \in Built(r, k)
  BY <1>4 DEF Built
<1> QED
  BY <1>2, <1>3, <1>5, <1>6, <1>7

LEMMA WithinSeven ==
    \A len \in 1..7 : \A n \in 1..8 : /\ n <= len => n \in 1..7
                                     /\ n > len => n > 1
  OBVIOUS

\* A process that has made no statement moves on without making one.
LEMMA CleanMoves ==
    ASSUME MigrationsInv, NEW r \in 0..5, NEW k \in 0..7, Clean(r, k), NEW p \in Launchers,
           NEW x, launch' = [launch EXCEPT ![p] = x], UNCHANGED <<schema, heads>>,
           versioned => versioned', ~Working(p),
           x.at = "create" => x.from <= r /\ x.next = 1,
           x.at \in {"stamp", "mark"} => r # 0
    PROVE  Clean(r, k)'
<1>1. launch'[p] = x /\ \A q \in Launchers : q # p => launch'[q] = launch[q]
  BY DEF MigrationsInv, MigrationsTypeOK
<1>2. ~Working(p)' /\ \A q \in Launchers : q # p => (Working(q)' <=> Working(q))
  BY <1>1 DEF Working
<1>3. k > 0 => \E q \in Launchers : Working(q)'
  BY <1>2 DEF Clean
<1>4. \A q \in Launchers : launch'[q].at = "create" => launch'[q].from <= r
  BY <1>1 DEF Clean
<1>5. \A q \in Launchers : Working(q)' => k > 0 /\ launch'[q].from = r /\ launch'[q].next = k + 1
  BY <1>1, <1>2 DEF Clean
<1>6. \A q, s \in Launchers : Working(q)' /\ Working(s)' => q = s
  BY <1>2 DEF Clean
<1>7. \A q \in Launchers : launch'[q].at \in {"stamp", "mark"} => r # 0
  BY <1>1 DEF Clean
<1>8. /\ heads' = IF r = 0 THEN {} ELSE {r}
      /\ schema' = Built(r, k)
      /\ k > 0 => r <= 4 /\ k <= Len(Creates[r + 1])
      /\ versioned' \/ schema' = {}
  BY DEF Clean
<1> QED
  BY <1>3, <1>4, <1>5, <1>6, <1>7, <1>8 DEF Clean

\* A process that does not adopt the database moves on before it is adopted.
LEMMA UnadoptedMoves ==
    ASSUME MigrationsInv, Unadopted, NEW p \in Launchers,
           NEW x, launch' = [launch EXCEPT ![p] = x], UNCHANGED <<schema, heads, versioned>>,
           launch[p].at # "mark", x.at \notin {"mark", "create"}, x.at = "upgrade" => versioned
    PROVE  Unadopted'
<1>1. launch'[p] = x /\ \A q \in Launchers : q # p => launch'[q] = launch[q]
  BY DEF MigrationsInv, MigrationsTypeOK
<1>2. versioned' => \E q \in Launchers : launch'[q].at = "mark"
  BY <1>1 DEF Unadopted
<1>3. \A q \in Launchers :
          /\ launch'[q].at = "upgrade" => versioned'
          /\ launch'[q].at \in {"mark", "create"} => launch'[q].from = 0 /\ launch'[q].next = 1
  BY <1>1 DEF Unadopted
<1> QED
  BY <1>2, <1>3 DEF Unadopted

\* A statement of a migration: the first to make one is the only one to go on.
LEMMA CreateReopens ==
    ASSUME MigrationsInv, NEW r \in 0..5, NEW k \in 0..7, Clean(r, k), NEW p \in Launchers,
           Create(p)
    PROVE  \E m \in 0..7 : Clean(r, m)'
<1> DEFINE from == launch[p].from
           next == launch[p].next
           object == Creates[from + 1][next]
<1>1. /\ launch[p].at = "create" /\ from \in 0..4 /\ next \in 1..8 /\ from <= r
      /\ next <= Len(Creates[from + 1]) /\ Len(Creates[from + 1]) \in 1..7
      /\ launch \in [Launchers -> Launches] /\ launch[p] \in Launches
  <2>1. launch \in [Launchers -> Launches] /\ launch[p] \in Launches
    BY DEF MigrationsInv, MigrationsTypeOK, Launches
  <2>2. launch[p].at = "create" /\ from + 1 <= 5 /\ next <= Len(Creates[from + 1])
    BY FiveMigrations DEF Create, Target
  <2>3. from \in 0..5 /\ next \in 1..8
    BY <2>1, FiveMigrations DEF Launches
  <2>4. from <= r
    BY <2>2 DEF Clean
  <2>5. from \in 0..4 /\ from + 1 \in 1..5
    BY <2>2, <2>3
  <2>6. Len(Creates[from + 1]) \in 1..7
    BY <2>5, Statements
  <2> QED
    BY <2>1, <2>2, <2>3, <2>4, <2>5, <2>6
<1>2. /\ UNCHANGED <<versioned, heads>> /\ schema = Built(r, k)
      /\ \/ object \in schema /\ schema' = schema
            /\ launch' = [launch EXCEPT ![p] = [launch[p] EXCEPT !.at = "failed"]]
         \/ object \notin schema /\ schema' = schema \union {object}
            /\ launch' = [launch EXCEPT ![p] = [launch[p] EXCEPT !.next = next + 1]]
  BY <1>1 DEF Create, Goto, Target, Clean
<1>3. ASSUME ~Working(p), ~(from = r /\ k = 0)
      PROVE  Clean(r, k)'
  <2>1. next = 1
    BY <1>1, <1>3 DEF Working
  <2>2. object \in Built(r, k)
    <3>1. CASE from < r
      <4>1. from + 1 \in 1..5 /\ from + 1 <= r
        BY <1>1, <3>1
      <4> QED
        BY <2>1, <4>1, BuiltGrows
    <3>2. CASE from = r /\ k # 0
      <4>1. k \in 1..7
        BY <3>2
      <4> QED
        BY <2>1, <3>2, <4>1, BuiltGrows
    <3> QED
      BY <1>1, <1>3, <3>1, <3>2
  <2> DEFINE x == [launch[p] EXCEPT !.at = "failed"]
  <2>3. x.at = "failed"
    BY <1>1 DEF Launches
  <2>4. launch' = [launch EXCEPT ![p] = x] /\ UNCHANGED <<schema, heads, versioned>>
    BY <1>2, <2>2
  <2> HIDE DEF x
  <2> QED
    BY <1>3, <2>3, <2>4, CleanMoves
<1>4. ASSUME Working(p) \/ (from = r /\ k = 0)
      PROVE  k + 1 \in 0..7 /\ Clean(r, k + 1)'
  <2>1. from = r /\ next = k + 1 /\ k + 1 \in 1..7 /\ r \in 0..4
    <3>1. CASE Working(p)
      <4>1. from = r /\ next = k + 1 /\ r <= 4
        BY <3>1 DEF Clean
      <4>2. next \in 1..7
        <5> HIDE DEF next, from
        <5> DEFINE len == Len(Creates[from + 1])
        <5>1. len \in 1..7 /\ next \in 1..8 /\ next <= len
          BY <1>1
        <5> HIDE DEF len
        <5> QED
          BY <5>1, WithinSeven
      <4> HIDE DEF next, from
      <4> QED
        BY <4>1, <4>2
    <3>2. CASE ~Working(p) /\ from = r /\ k = 0
      <4>1. next = 1
        BY <1>1, <3>2 DEF Working
      <4> HIDE DEF next, from
      <4> QED
        BY <1>1, <3>2, <4>1
    <3> QED
      BY <1>4, <3>1, <3>2
  <2>2. object \notin schema /\ object = Creates[r + 1][k + 1] /\ k + 1 <= Len(Creates[r + 1])
    <3>1. k < Len(Creates[r + 1]) /\ object = Creates[r + 1][k + 1]
      BY <1>1, <2>1
    <3>2. object \notin Built(r, k)
      BY <2>1, <3>1, NotMadeYet
    <3> QED
      BY <1>1, <1>2, <2>1, <3>1, <3>2
  <2> DEFINE x == [launch[p] EXCEPT !.next = k + 2]
  <2>3. x.at = "create" /\ x.from = r /\ x.next = k + 2
    BY <1>1, <2>1 DEF Launches
  <2>4. launch' = [launch EXCEPT ![p] = x] /\ schema' = schema \union {object}
    <3>1. next + 1 = k + 2
      BY <2>1
    <3> QED
      BY <1>2, <2>2, <3>1
  <2> HIDE DEF x, object, from, next
  <2>5. launch'[p] = x /\ \A q \in Launchers : q # p => launch'[q] = launch[q]
    BY <1>1, <2>4
  <2>6. schema' = Built(r, k + 1)
    <3>1. Built(r, k + 1) = Built(r, k) \union {Creates[r + 1][k + 1]}
      <4>1. k \in Nat
        OBVIOUS
      <4> HIDE DEF Built
      <4> QED
        BY <4>1, BuiltGrows
    <3> QED
      BY <1>2, <2>2, <2>4, <3>1
  <2>7. \A q \in Launchers : q # p => ~Working(q)
    <3>1. CASE Working(p)
      BY <3>1 DEF Clean
    <3>2. CASE k = 0
      BY <3>2 DEF Clean
    <3> QED
      BY <1>4, <3>1, <3>2
  <2>8. Working(p)' /\ \A q \in Launchers : q # p => ~Working(q)'
    <3>1. k + 2 > 1
      OBVIOUS
    <3> QED
      BY <2>3, <2>5, <2>7, <3>1 DEF Working
  <2>9. versioned
    BY <1>1 DEF MigrationsInv
  <2>10. \A q \in Launchers : /\ launch'[q].at = "create" => launch'[q].from <= r
                              /\ launch'[q].at \in {"stamp", "mark"} => r # 0
    BY <2>1, <2>3, <2>5 DEF Clean
  <2>11. k + 1 > 0 /\ launch'[p].from = r /\ launch'[p].next = (k + 1) + 1 /\ r <= 4
         /\ k + 1 \in 0..7
    BY <2>1, <2>3, <2>5
  <2>12. heads' = IF r = 0 THEN {} ELSE {r}
    BY <1>2 DEF Clean
  <2> QED
    BY <1>2, <2>2, <2>6, <2>8, <2>9, <2>10, <2>11, <2>12 DEF Clean
<1> QED
  BY <1>3, <1>4

\* The row moves on after the last statement, by the process that made them.
LEMMA AdvanceReopens ==
    ASSUME MigrationsInv, NEW r \in 0..5, NEW k \in 0..7, Clean(r, k), NEW p \in Launchers,
           Advance(p)
    PROVE  r + 1 \in 0..5 /\ Clean(r + 1, 0)'
<1>1. /\ launch[p].at = "create" /\ launch[p].from \in 0..4 /\ launch[p].next \in 1..8
      /\ launch[p].next > Len(Creates[launch[p].from + 1])
      /\ Len(Creates[launch[p].from + 1]) \in 1..7
      /\ MoveRow(p, launch[p].from + 1, "create") /\ UNCHANGED <<schema, versioned>>
      /\ launch \in [Launchers -> Launches] /\ launch[p] \in Launches
  <2>1. launch \in [Launchers -> Launches] /\ launch[p] \in Launches
    BY DEF MigrationsInv, MigrationsTypeOK, Launches
  <2>2. /\ launch[p].at = "create" /\ launch[p].from + 1 <= 5
        /\ launch[p].next > Len(Creates[launch[p].from + 1])
        /\ MoveRow(p, launch[p].from + 1, "create") /\ UNCHANGED <<schema, versioned>>
    BY FiveMigrations DEF Advance, Target
  <2>3. launch[p].from \in 0..5 /\ launch[p].next \in 1..8
    BY <2>1, FiveMigrations DEF Launches
  <2>4. launch[p].from \in 0..4 /\ launch[p].from + 1 \in 1..5
    BY <2>2, <2>3
  <2> QED
    BY <2>1, <2>2, <2>3, <2>4, Statements
<1>2. Working(p)
  <2>1. launch[p].next > 1
    <3> DEFINE len == Len(Creates[launch[p].from + 1])
               next == launch[p].next
    <3>1. len \in 1..7 /\ next \in 1..8 /\ next > len
      BY <1>1
    <3> HIDE DEF len, next
    <3>2. next > 1
      BY <3>1, WithinSeven
    <3> QED
      BY <3>2 DEF next
  <2> QED
    BY <1>1, <2>1 DEF Working
<1>3. launch[p].from = r /\ launch[p].next = k + 1 /\ k > 0 /\ r \in 0..4
      /\ k = Len(Creates[r + 1])
  <2>1. launch[p].from = r /\ launch[p].next = k + 1 /\ k > 0 /\ k <= Len(Creates[r + 1])
    BY <1>2 DEF Clean
  <2> QED
    BY <1>1, <2>1
<1>4. schema' = Built(r + 1, 0)
  <2>1. schema = Built(r, k)
    BY DEF Clean
  <2> QED
    BY <1>1, <1>3, <2>1, BuiltGrows
<1> DEFINE x == [launch[p] EXCEPT !.at = "create", !.from = r + 1, !.next = 1]
<1>5. launch' = [launch EXCEPT ![p] = x] /\ heads' = {r + 1}
  <2>1. heads = IF r = 0 THEN {} ELSE {r}
    BY DEF Clean
  <2>2. ~((r = 0 /\ r + 1 \in heads) \/ (r # 0 /\ r \notin heads))
    BY <2>1
  <2>3. (heads \ {r}) \union {r + 1} = {r + 1}
    BY <2>1
  <2> QED
    BY <1>1, <1>3, <2>2, <2>3 DEF MoveRow
<1>6. x.at = "create" /\ x.from = r + 1 /\ x.next = 1
  BY <1>1 DEF Launches
<1> HIDE DEF x
<1>7. launch'[p] = x /\ \A q \in Launchers : q # p => launch'[q] = launch[q]
  BY <1>1, <1>5
<1>8. \A q \in Launchers : ~Working(q)'
  <2>1. \A q \in Launchers : q # p => ~Working(q)
    BY <1>2 DEF Clean
  <2> QED
    BY <1>6, <1>7, <2>1 DEF Working
<1>9. \A q \in Launchers : launch'[q].at = "create" => launch'[q].from <= r + 1
  <2> SUFFICES ASSUME NEW q \in Launchers, launch'[q].at = "create"
               PROVE  launch'[q].from <= r + 1
    OBVIOUS
  <2>1. CASE q = p
    BY <1>6, <1>7, <2>1
  <2>2. CASE q # p
    <3>1. launch[q].at = "create" /\ launch'[q].from = launch[q].from
      BY <1>7, <2>2
    <3>2. launch[q].from <= r
      BY <3>1 DEF Clean
    <3>3. launch[q].from \in 0..5
      BY <1>1, FiveMigrations DEF Launches
    <3> QED
      BY <3>1, <3>2, <3>3
  <2> QED
    BY <2>1, <2>2
<1>10. versioned'
  BY <1>1 DEF MigrationsInv
<1>11. r + 1 # 0 /\ r + 1 \in 0..5
  BY <1>3
<1> QED
  BY <1>4, <1>5, <1>8, <1>9, <1>10, <1>11 DEF Clean

LEMMA CleanReopens ==
    ASSUME MigrationsInv, NEW r \in 0..5, NEW k \in 0..7, Clean(r, k), Undisturbed,
           Undisturbed', [MigrationsNext]_migrationVars
    PROVE  \E s \in 0..5, m \in 0..7 : Clean(s, m)'
<1>0. /\ launch \in [Launchers -> Launches] /\ kills \in Nat /\ versioned \in BOOLEAN
  BY MigrationsAssumption DEF MigrationsInv, MigrationsTypeOK, Launches
<1>a. \A p \in Launchers, at \in {"idle", "upgrade", "open", "failed"} :
         [launch[p] EXCEPT !.at = at].at = at
  BY <1>0 DEF Launches
<1>1. ASSUME NEW p \in Launchers, ~Working(p), NEW at \in {"idle", "upgrade", "open", "failed"},
             Goto(p, at), UNCHANGED <<schema, heads, versioned>>
      PROVE  Clean(r, k)'
  <2> DEFINE x == [launch[p] EXCEPT !.at = at]
  <2>1. x.at = at
    BY <1>a
  <2>2. launch' = [launch EXCEPT ![p] = x]
    BY <1>0, <1>1 DEF Goto
  <2> HIDE DEF x
  <2> QED
    BY <1>1, <2>1, <2>2, CleanMoves
<1>2. ASSUME NEW p \in Launchers, Inspect(p) PROVE Clean(r, k)'
  <2>1. ~pre_alembic /\ ~Working(p)
    BY <1>2 DEF pre_alembic, Clean, Inspect, Working
  <2> DEFINE x == [Resting EXCEPT !.at = IF pre_alembic THEN "stamp" ELSE "upgrade",
                                  !.adopt = pre_alembic]
  <2>2. launch' = [launch EXCEPT ![p] = x] /\ UNCHANGED <<schema, heads, versioned>>
    BY <1>2 DEF Inspect, schemaVars
  <2>3. x.at = "upgrade"
    BY <2>1 DEF Resting
  <2> HIDE DEF x
  <2> QED
    BY <2>1, <2>2, <2>3, CleanMoves
<1>3. ASSUME NEW p \in Launchers, ReadHeads(p) PROVE Clean(r, k)'
  <2>1. launch[p].at \in {"stamp", "upgrade"} /\ ~Working(p)
    BY <1>3 DEF ReadHeads, Working
  <2>2. CASE Cardinality(heads) > 1
    BY <1>1, <1>3, <2>1, <2>2 DEF ReadHeads, schemaVars
  <2>3. CASE ~(Cardinality(heads) > 1)
    <3> DEFINE x == [launch[p] EXCEPT !.from = Rev(heads), !.next = 1,
                                      !.at = IF @ = "stamp" THEN "mark" ELSE "create"]
    <3>1. launch' = [launch EXCEPT ![p] = x] /\ UNCHANGED <<schema, heads>>
          /\ (versioned => versioned')
      BY <1>0, <1>3, <2>3 DEF ReadHeads
    <3>2. Rev(heads) <= r
      <4>1. CASE r = 0
        BY <4>1 DEF Clean, Rev
      <4>2. CASE r # 0
        <5>1. heads = {r}
          BY <4>2 DEF Clean
        <5>2. Rev(heads) = r
          BY <5>1 DEF Rev
        <5> QED
          BY <5>2
      <4> QED
        BY <4>1, <4>2
    <3>3. /\ x.from = Rev(heads) /\ x.next = 1 /\ x.at \in {"mark", "create"}
          /\ x.at = "mark" => launch[p].at = "stamp"
      BY <1>0, <2>1 DEF Launches
    <3>4. x.at \in {"stamp", "mark"} => r # 0
      BY <3>3 DEF Clean
    <3> HIDE DEF x
    <3> QED
      BY <2>1, <3>1, <3>2, <3>3, <3>4, CleanMoves
  <2> QED
    BY <2>2, <2>3
<1>4. ASSUME NEW p \in Launchers, Stamp(p) PROVE FALSE
  <2>1. r # 0
    BY <1>4 DEF Stamp, Clean
  <2>2. heads # {}
    BY <2>1 DEF Clean
  <2> QED
    BY <1>4, <2>2 DEF Stamp, Undisturbed
<1>5. ASSUME NEW p \in Launchers, Opened(p) PROVE Clean(r, k)'
  <2>1. launch[p].at = "create" /\ launch[p].from + 1 > 5
    BY <1>5, FiveMigrations DEF Opened, Target
  <2>2. ~Working(p)
    <3>1. Working(p) => launch[p].from = r /\ r <= 4
      BY DEF Clean
    <3> QED
      BY <2>1, <3>1
  <2> QED
    BY <1>1, <1>5, <2>2 DEF Opened, schemaVars
<1>6. ASSUME NEW p \in Launchers, Exit(p) PROVE Clean(r, k)'
  BY <1>1, <1>6 DEF Exit, schemaVars, Working
<1>7. ASSUME NEW p \in Launchers, Kill(p) PROVE FALSE
  BY <1>0, <1>7 DEF Kill, Undisturbed
<1>8. ASSUME UNCHANGED migrationVars PROVE Clean(r, k)'
  BY <1>8 DEF migrationVars, schemaVars, Clean, Working
<1>9. ASSUME NEW p \in Launchers, Advance(p) PROVE \E s \in 0..5 : Clean(s, 0)'
  BY <1>9, AdvanceReopens
<1> QED
  BY <1>2, <1>3, <1>4, <1>5, <1>6, <1>7, <1>8, <1>9, CreateReopens
     DEF MigrationsNext, LaunchStep

LEMMA UnadoptedReopens ==
    ASSUME MigrationsInv, Unadopted, Undisturbed, Undisturbed', [MigrationsNext]_migrationVars
    PROVE  Unadopted' \/ Clean(1, 0)'
<1>0. /\ launch \in [Launchers -> Launches] /\ kills \in Nat /\ versioned \in BOOLEAN
      /\ schema = SchemaAt(1) /\ "jobs" \in schema /\ heads = {}
  BY MigrationsAssumption, FiveMigrations, SchemaGrows
     DEF MigrationsInv, MigrationsTypeOK, Launches, Unadopted
<1>a. \A p \in Launchers, at \in {"idle", "failed"} : [launch[p] EXCEPT !.at = at].at = at
  BY <1>0 DEF Launches
<1>1. ASSUME NEW p \in Launchers, NEW at \in {"idle", "failed"}, Goto(p, at),
             launch[p].at # "mark", UNCHANGED <<schema, heads, versioned>>
      PROVE  Unadopted'
  <2> DEFINE x == [launch[p] EXCEPT !.at = at]
  <2>1. x.at = at
    BY <1>a
  <2>2. launch' = [launch EXCEPT ![p] = x]
    BY <1>0, <1>1 DEF Goto
  <2> HIDE DEF x
  <2> QED
    BY <1>1, <2>1, <2>2, UnadoptedMoves
<1>2. ASSUME NEW p \in Launchers, Inspect(p) PROVE Unadopted'
  <2> DEFINE x == [Resting EXCEPT !.at = IF pre_alembic THEN "stamp" ELSE "upgrade",
                                  !.adopt = pre_alembic]
  <2>1. launch' = [launch EXCEPT ![p] = x] /\ UNCHANGED <<schema, heads, versioned>>
        /\ launch[p].at = "idle"
    BY <1>2 DEF Inspect, schemaVars
  <2>2. x.at \in {"stamp", "upgrade"} /\ (x.at = "upgrade" => versioned)
    BY <1>0 DEF Resting, pre_alembic
  <2> HIDE DEF x
  <2> QED
    BY <2>1, <2>2, UnadoptedMoves
<1>3. ASSUME NEW p \in Launchers, ReadHeads(p) PROVE Unadopted'
  <2> DEFINE x == [launch[p] EXCEPT !.from = 0, !.next = 1,
                                    !.at = IF @ = "stamp" THEN "mark" ELSE "create"]
  <2>1. /\ launch[p].at \in {"stamp", "upgrade"} /\ versioned' /\ UNCHANGED <<schema, heads>>
        /\ launch' = [launch EXCEPT ![p] = x]
    <3>1. ~(Cardinality(heads) > 1) /\ Rev(heads) = 0
      BY <1>0, FS_EmptySet DEF Rev
    <3> QED
      BY <1>0, <1>3, <3>1 DEF ReadHeads
  <2>2. /\ x.from = 0 /\ x.next = 1
        /\ x.at = IF launch[p].at = "stamp" THEN "mark" ELSE "create"
    BY <1>0 DEF Launches
  <2> HIDE DEF x
  <2>3. launch'[p] = x /\ \A q \in Launchers : q # p => launch'[q] = launch[q]
    BY <1>0, <2>1
  <2>4. \E q \in Launchers : launch'[q].at = "mark"
    <3>1. CASE launch[p].at = "stamp"
      BY <2>2, <2>3, <3>1
    <3>2. CASE launch[p].at = "upgrade"
      <4>1. PICK q \in Launchers : launch[q].at = "mark"
        BY <3>2 DEF Unadopted
      <4> QED
        BY <2>3, <3>2, <4>1
    <3> QED
      BY <2>1, <3>1, <3>2
  <2>5. \A q \in Launchers :
            launch'[q].at \in {"mark", "create"} => launch'[q].from = 0 /\ launch'[q].next = 1
    BY <2>2, <2>3 DEF Unadopted
  <2> QED
    BY <2>1, <2>4, <2>5 DEF Unadopted
<1>4. ASSUME NEW p \in Launchers, Stamp(p) PROVE Clean(1, 0)'
  <2>1. /\ launch[p].at = "mark" /\ launch[p].from = 0 /\ versioned
        /\ UNCHANGED <<schema, versioned>>
    BY <1>4 DEF Stamp, Unadopted, MigrationsInv
  <2> DEFINE x == [launch[p] EXCEPT !.at = "upgrade", !.from = 1, !.next = 1]
  <2>2. launch' = [launch EXCEPT ![p] = x] /\ heads' = {1}
    <3>1. MoveRow(p, 1, "upgrade")
      BY <1>4, <2>1, FiveMigrations DEF Stamp
    <3>2. (heads \ {0}) \union {1} = {1} /\ 1 \notin heads
      BY <1>0
    <3> QED
      BY <2>1, <3>1, <3>2 DEF MoveRow
  <2>3. x.at = "upgrade"
    BY <1>0 DEF Launches
  <2> HIDE DEF x
  <2>4. launch'[p] = x /\ \A q \in Launchers : q # p => launch'[q] = launch[q]
    BY <1>0, <2>2
  <2>5. \A q \in Launchers : /\ launch'[q].at = "create" => launch'[q].from <= 1
                             /\ ~Working(q)'
    <3> SUFFICES ASSUME NEW q \in Launchers, launch'[q].at = "create"
                 PROVE  launch'[q].from <= 1 /\ ~(launch'[q].next > 1)
      BY DEF Working
    <3>1. launch'[q].from = 0 /\ launch'[q].next = 1
      BY <2>3, <2>4 DEF Unadopted
    <3> QED
      BY <3>1
  <2>6. schema' = Built(1, 0)
    BY <1>0, <2>1, BuiltGrows
  <2> QED
    BY <2>1, <2>2, <2>5, <2>6 DEF Clean
<1>5. ASSUME NEW p \in Launchers, Create(p) PROVE Unadopted'
  <2>1. /\ launch[p].at = "create" /\ launch[p].from = 0 /\ launch[p].next = 1
        /\ UNCHANGED <<heads, versioned>>
    BY <1>5 DEF Create, Unadopted
  <2>2. Creates[Target(p)][launch[p].next] \in schema
    <3>1. Creates[1][1] \in Built(1, 0)
      BY BuiltGrows
    <3> QED
      BY <1>0, <2>1, <3>1, BuiltGrows DEF Target
  <2>3. Goto(p, "failed") /\ UNCHANGED schema
    BY <1>5, <2>2 DEF Create
  <2> QED
    BY <1>1, <2>1, <2>3
<1>6. ASSUME NEW p \in Launchers, Advance(p) PROVE FALSE
  <2>1. launch[p].from = 0 /\ launch[p].next = 1 /\ launch[p].next > Len(Creates[Target(p)])
    BY <1>6 DEF Advance, Unadopted
  <2>2. Len(Creates[Target(p)]) \in 1..7
    BY <2>1, Statements DEF Target
  <2> DEFINE len == Len(Creates[Target(p)])
             next == launch[p].next
  <2>3. len \in 1..7 /\ next \in 1..8 /\ next = 1 /\ next > len
    BY <2>1, <2>2
  <2> HIDE DEF len, next
  <2> QED
    BY <2>3
<1>7. ASSUME NEW p \in Launchers, Opened(p) PROVE FALSE
  <2>1. launch[p].from = 0
    BY <1>7 DEF Opened, Unadopted
  <2> QED
    BY <1>7, <2>1, FiveMigrations DEF Opened, Target
<1>8. ASSUME NEW p \in Launchers, Exit(p) PROVE Unadopted'
  BY <1>1, <1>8 DEF Exit, schemaVars
<1>9. ASSUME NEW p \in Launchers, Kill(p) PROVE FALSE
  BY <1>0, <1>9 DEF Kill, Undisturbed
<1>10. ASSUME UNCHANGED migrationVars PROVE Unadopted'
  BY <1>10 DEF migrationVars, schemaVars, Unadopted
<1> QED
  BY <1>2, <1>3, <1>4, <1>5, <1>6, <1>7, <1>8, <1>9, <1>10 DEF MigrationsNext, LaunchStep

LEMMA ReopensStep == MigrationsInv /\ Reopens /\ [MigrationsNext]_migrationVars => Reopens'
<1> SUFFICES ASSUME MigrationsInv, Reopens, [MigrationsNext]_migrationVars, Undisturbed'
             PROVE  Unadopted' \/ \E r \in 0..5, k \in 0..7 : Clean(r, k)'
  BY DEF Reopens
<1>1. Undisturbed
  <2>1. kills \in Nat /\ crowded \in BOOLEAN
    BY MigrationsAssumption DEF MigrationsInv, MigrationsTypeOK
  <2>2. kills' = kills \/ kills' = kills + 1
    BY DEF MigrationsNext, LaunchStep, Inspect, ReadHeads, Stamp, Create, Advance, Opened,
           Exit, Kill, migrationVars
  <2>3. crowded => crowded'
    BY DEF MigrationsNext, LaunchStep, Inspect, ReadHeads, Stamp, Create, Advance, Opened,
           Exit, Kill, migrationVars
  <2> QED
    BY <2>1, <2>2, <2>3 DEF Undisturbed
<1>2. Unadopted \/ \E r \in 0..5, k \in 0..7 : Clean(r, k)
  BY <1>1 DEF Reopens
<1>3. CASE Unadopted
  <2>1. 1 \in 0..5 /\ 0 \in 0..7
    OBVIOUS
  <2> QED
    BY <1>1, <1>3, <2>1, UnadoptedReopens
<1>4. ASSUME NEW r \in 0..5, NEW k \in 0..7, Clean(r, k)
      PROVE  \E s \in 0..5, m \in 0..7 : Clean(s, m)'
  BY <1>1, <1>4, CleanReopens
<1> QED
  BY <1>2, <1>3, <1>4

LEMMA ReopensInit == MigrationsInit => Reopens
<1> SUFFICES ASSUME MigrationsInit
             PROVE  Unadopted \/ \E r \in 0..5, k \in 0..7 : Clean(r, k)
  BY DEF Reopens
<1>1. \A p \in Launchers : launch[p].at = "idle"
  BY DEF MigrationsInit, Resting
<1>2. ASSUME NEW r \in 0..5, schema = SchemaAt(r), heads = IF r = 0 THEN {} ELSE {r},
             versioned \/ schema = {}
      PROVE  Clean(r, 0) /\ 0 \in 0..7
  BY <1>1, <1>2, BuiltGrows DEF Clean, Working
<1>3. CASE schema = {} /\ versioned = FALSE /\ heads = {}
  <2>1. schema = SchemaAt(0) /\ 0 \in 0..5
    BY <1>3, SchemaGrows
  <2> QED
    BY <1>2, <1>3, <2>1
<1>4. CASE schema = SchemaAt(Baseline) /\ versioned = FALSE /\ heads = {}
  BY <1>1, <1>4 DEF Unadopted
<1>5. CASE \E n \in 1..Newest : schema = SchemaAt(n) /\ versioned = TRUE /\ heads = {n}
  <2>1. PICK n \in 1..5 : schema = SchemaAt(n) /\ versioned = TRUE /\ heads = {n}
    BY <1>5, FiveMigrations
  <2>2. n \in 0..5 /\ n # 0
    OBVIOUS
  <2> QED
    BY <1>2, <2>1, <2>2
<1> QED
  BY <1>3, <1>4, <1>5 DEF MigrationsInit

\* However many launches race, between launches the database can be opened again, unless
\* one of them died in the middle or two of them adopted it.
THEOREM OpensAlwaysAgain == MigrationsSpec => []OpensAgain
<1>1. MigrationsInv /\ Reopens => OpensAgain
  <2> SUFFICES ASSUME MigrationsInv, Reopens, \A p \in Launchers : launch[p].at = "idle",
                      kills = 0, ~crowded
               PROVE  Launchable
    BY DEF OpensAgain
  <2>1. Unadopted \/ \E r \in 0..5, k \in 0..7 : Clean(r, k)
    BY DEF Reopens, Undisturbed
  <2>2. CASE Unadopted
    <3>1. ~versioned /\ schema = SchemaAt(Baseline) /\ heads = {} /\ "jobs" \in schema
      BY <2>2, SchemaGrows, FiveMigrations DEF Unadopted
    <3>2. Cardinality(heads) <= 1
      <4>1. Cardinality({}) = 0
        BY FS_EmptySet
      <4> QED
        BY <3>1, <4>1
    <3> QED
      BY <3>1, <3>2 DEF Launchable
  <2>3. ASSUME NEW r \in 0..5, NEW k \in 0..7, Clean(r, k) PROVE Launchable
    <3>1. k = 0
      BY <2>3 DEF Clean, Working
    <3>2. schema = SchemaAt(r) /\ (versioned \/ schema = {})
      BY <2>3, <3>1, BuiltGrows DEF Clean
    <3>3. Rev(heads) = r /\ Cardinality(heads) <= 1
      <4>1. CASE r = 0
        <5>1. heads = {} /\ Cardinality({}) = 0
          BY <2>3, <4>1, FS_EmptySet DEF Clean
        <5> QED
          BY <4>1, <5>1 DEF Rev
      <4>2. CASE r # 0
        <5>1. heads = {r} /\ Cardinality({r}) = 1
          BY <2>3, <4>2, FS_Singleton DEF Clean
        <5> QED
          BY <5>1 DEF Rev
      <4> QED
        BY <4>1, <4>2
    <3> QED
      BY <3>2, <3>3 DEF Launchable
  <2> QED
    BY <2>1, <2>2, <2>3
<1> QED
  BY <1>1, MigrationsInitInv, MigrationsStep, ReopensInit, ReopensStep, PTL
     DEF MigrationsSpec

-----------------------------------------------------------------------------
(* The picks of a drive *)

Above(S, j) == {i \in S : Outranks(i, j)}

PoolTypes ==
    \A j \in Ids : pool[j].name \in DOMAIN Key /\ pool[j].title \in Int

FromRows == pool \in Seq(Rows)

LEMMA RowsComeTyped == PickSpec => []FromRows
<1>1. PickInit => FromRows
  BY DEF PickInit, FromRows
<1>2. FromRows /\ [Post]_pickVars => FromRows'
  BY DEF Post, pickVars, FromRows
<1> QED
  BY <1>1, <1>2, PTL DEF PickSpec

LEMMA PoolIsTyped ==
    FromRows => PoolTypes /\ Ids \subseteq Int /\ IsFiniteSet(Ids)
<1> SUFFICES ASSUME FromRows PROVE PoolTypes /\ Ids \subseteq Int /\ IsFiniteSet(Ids)
  OBVIOUS
<1>1. Ids = 1..Len(pool) /\ Len(pool) \in Nat /\ \A j \in Ids : pool[j] \in Rows
  BY DEF Ids, FromRows
<1>2. IsFiniteSet(1..Len(pool))
  BY <1>1, FS_Interval
<1>3. Ids \subseteq Int
  BY <1>1
<1>4. PoolTypes
  BY <1>1, PickAssumption DEF PoolTypes
<1> QED
  BY <1>1, <1>2, <1>3, <1>4

\* Of two candidates one is ahead of the other, and so on down.
LEMMA Ranking ==
    ASSUME PoolTypes, Ids \subseteq Int, NEW i \in Ids, NEW j \in Ids, NEW k \in Ids
    PROVE  /\ ~Outranks(i, i)
           /\ i # j => Outranks(i, j) \/ Outranks(j, i)
           /\ Outranks(k, i) /\ Outranks(i, j) => Outranks(k, j)
<1> DEFINE t(x) == pool[x].title
           c(x) == CityRank(pool[x].place)
<1>1. t(i) \in Int /\ t(j) \in Int /\ t(k) \in Int /\ i \in Int /\ j \in Int /\ k \in Int
  BY DEF PoolTypes
<1>2. \A place : CityRank(place) \in Int
  <2> SUFFICES ASSUME NEW place PROVE CityRank(place) \in Int
    OBVIOUS
  <2>1. CityRank(place) \in {0, 1, 2, 3}
    BY DEF CityRank
  <2> QED
    BY <2>1
<1>3. c(i) \in Int /\ c(j) \in Int /\ c(k) \in Int
  BY <1>2
<1>4. \A x, y : Outranks(x, y) <=>
          t(x) > t(y) \/ (t(x) = t(y) /\ (c(x) > c(y) \/ (c(x) = c(y) /\ x > y)))
  BY DEF Outranks
<1> HIDE DEF t, c
<1>5. ~Outranks(i, i)
  BY <1>1, <1>3, <1>4
<1>6. i # j => Outranks(i, j) \/ Outranks(j, i)
  BY <1>1, <1>3, <1>4
<1>7. Outranks(k, i) /\ Outranks(i, j) => Outranks(k, j)
  BY <1>1, <1>3, <1>4
<1> QED
  BY <1>5, <1>6, <1>7

\* No two candidates have the same number of others ahead of them.
LEMMA RanksDiffer ==
    ASSUME PoolTypes, Ids \subseteq Int, IsFiniteSet(Ids), NEW S \in SUBSET Ids,
           NEW i \in S, NEW j \in S, Outranks(i, j)
    PROVE  Cardinality(Above(S, i)) < Cardinality(Above(S, j))
<1>1. IsFiniteSet(Above(S, j)) /\ Above(S, i) \subseteq Above(S, j)
  <2>1. Above(S, j) \subseteq Ids
    BY DEF Above
  <2>2. IsFiniteSet(Above(S, j))
    BY <2>1, FS_Subset
  <2>3. ASSUME NEW k \in S, Outranks(k, i) PROVE Outranks(k, j)
    BY <2>3, Ranking
  <2> QED
    BY <2>2, <2>3 DEF Above
<1>2. i \in Above(S, j) /\ i \notin Above(S, i)
  BY Ranking DEF Above
<1>3. /\ IsFiniteSet(Above(S, i))
      /\ Cardinality(Above(S, i)) <= Cardinality(Above(S, j))
      /\ Cardinality(Above(S, j)) # Cardinality(Above(S, i))
  BY <1>1, <1>2, FS_Subset
<1> QED
  BY <1>1, <1>3, FS_CardinalityType

\* The first n are at most n.
LEMMA TopIsBounded ==
    ASSUME PoolTypes, Ids \subseteq Int, IsFiniteSet(Ids), NEW S \in SUBSET Ids, NEW n \in Int
    PROVE  /\ IsFiniteSet(Top(S, n))
           /\ Top(S, n) # {} => Cardinality(Top(S, n)) <= n
<1> DEFINE T == Top(S, n)
<1>1. T = {j \in S : Cardinality(Above(S, j)) < n}
  BY DEF Top, Above
<1>2. \A j \in S : IsFiniteSet(Above(S, j)) /\ Cardinality(Above(S, j)) \in Nat
  <2> SUFFICES ASSUME NEW j \in S PROVE IsFiniteSet(Above(S, j)) /\ Cardinality(Above(S, j)) \in Nat
    OBVIOUS
  <2>1. Above(S, j) \subseteq Ids
    BY DEF Above
  <2> QED
    BY <2>1, FS_Subset, FS_CardinalityType
<1> HIDE DEF T
<1>3. T \subseteq S /\ IsFiniteSet(T)
  BY <1>1, FS_Subset
<1>4. ASSUME T # {} PROVE Cardinality(T) <= n
  <2>1. n \in Nat /\ n > 0
    <3>1. PICK j \in S : Cardinality(Above(S, j)) < n
      BY <1>1, <1>4
    <3> QED
      BY <1>2, <3>1
  <2> DEFINE rank == [j \in T |-> Cardinality(Above(S, j))]
  <2>2. rank \in [T -> 0..(n - 1)]
    <3> SUFFICES ASSUME NEW j \in T PROVE Cardinality(Above(S, j)) \in 0..(n - 1)
      OBVIOUS
    <3>1. Cardinality(Above(S, j)) \in Nat /\ Cardinality(Above(S, j)) < n
      BY <1>1, <1>2
    <3> QED
      BY <2>1, <3>1
  <2>3. ASSUME NEW i \in T, NEW j \in T, i # j PROVE rank[i] # rank[j]
    <3>1. i \in S /\ j \in S /\ Cardinality(Above(S, i)) \in Nat /\ Cardinality(Above(S, j)) \in Nat
      BY <1>2, <1>3
    <3>2. Outranks(i, j) \/ Outranks(j, i)
      BY <2>3, <3>1, Ranking
    <3>3. \/ Cardinality(Above(S, i)) < Cardinality(Above(S, j))
          \/ Cardinality(Above(S, j)) < Cardinality(Above(S, i))
      BY <3>1, <3>2, RanksDiffer
    <3> QED
      BY <3>1, <3>3
  <2>4. rank \in Injection(T, 0..(n - 1))
    BY <2>2, <2>3 DEF Injection, IsInjective
  <2>5. IsFiniteSet(0..(n - 1)) /\ Cardinality(0..(n - 1)) = n
    <3>1. 0 \in Int /\ n - 1 \in Int /\ ~(0 > n - 1) /\ (n - 1) - 0 + 1 = n
      BY <2>1
    <3> QED
      BY <3>1, FS_Interval
  <2> HIDE DEF rank
  <2>6. Cardinality(T) <= Cardinality(0..(n - 1))
    BY <2>4, <2>5, FS_Injection
  <2> QED
    BY <2>5, <2>6
<1> QED
  BY <1>3, <1>4 DEF T

\* Whatever jobs come on file, and whatever the script is asked, a pick takes no employer
\* past its cap, nor one that just said no under another spelling of a name with a key.
THEOREM EmployersAreAlwaysSpared == PickSpec => []EmployersAreSpared
<1>1. PoolTypes /\ Ids \subseteq Int /\ IsFiniteSet(Ids) => EmployersAreSpared
  <2> SUFFICES ASSUME PoolTypes, Ids \subseteq Int, IsFiniteSet(Ids), NEW j \in Picks
               PROVE  /\ Applied(pool[j].name) + Cardinality(Picks \cap OfName(pool[j].name))
                             <= PER_COMPANY_CAP
                      /\ Key[pool[j].name] # "" =>
                             \A i \in OfKey(Key[pool[j].name]) :
                                 ~(pool[i].status = "rejected" /\ pool[i].age = "new")
    BY DEF EmployersAreSpared
  <2> DEFINE name == pool[j].name
             Its == {i \in Eligible : pool[i].name = name}
             Taken == Picks \cap OfName(name)
             Best == Top(Its, Slots(name))
  <2>1. Eligible \subseteq Ids /\ Its \subseteq Ids
    BY DEF Eligible, Among
  <2>2. Picks \subseteq Capped
    BY DEF Picks, FilterLive, Top
  <2>3. \A i \in Capped : i \in Eligible /\ i \in Top({k \in Eligible : pool[k].name = pool[i].name},
                                                    Slots(pool[i].name))
    BY DEF Capped, Top
  <2>4. Taken \subseteq Best /\ j \in Taken
    <3>1. ASSUME NEW i \in Taken PROVE i \in Best
      <4>1. i \in Picks /\ pool[i].name = name
        BY DEF OfName
      <4> QED
        BY <2>2, <2>3, <4>1
    <3>2. j \in Taken
      BY <2>1, <2>2, <2>3 DEF OfName
    <3> QED
      BY <3>1, <3>2
  <2>5. Applied(name) \in Nat
    <3>1. Among(OfName(name), {"applied", "rejected"}) \subseteq Ids
      BY DEF Among, OfName
    <3> QED
      BY <3>1, FS_Subset, FS_CardinalityType DEF Applied
  <2>6. Slots(name) = PER_COMPANY_CAP - Applied(name) /\ PER_COMPANY_CAP \in Int
    BY PickAssumption DEF Slots
  <2>7. Applied(name) + Cardinality(Taken) <= PER_COMPANY_CAP
    <3>0. Slots(name) \in Int
      BY <2>5, <2>6
    <3>1. IsFiniteSet(Best) /\ Cardinality(Best) <= Slots(name)
      <4> HIDE DEF Its, Taken
      <4> QED
        BY <2>1, <2>4, <3>0, TopIsBounded
    <3> HIDE DEF Taken, Best
    <3>2. Cardinality(Taken) <= Cardinality(Best) /\ Cardinality(Taken) \in Nat
          /\ Cardinality(Best) \in Nat
      BY <2>4, <3>1, FS_Subset, FS_CardinalityType
    <3> DEFINE a == Applied(name)  t == Cardinality(Taken)  b == Cardinality(Best)
               s == Slots(name)
    <3>3. a \in Nat /\ t \in Nat /\ b \in Nat /\ t <= b /\ b <= s /\ s = PER_COMPANY_CAP - a
          /\ PER_COMPANY_CAP \in Int
      BY <2>5, <2>6, <3>1, <3>2
    <3> HIDE DEF a, t, b, s
    <3>4. a + t <= PER_COMPANY_CAP
      BY <3>3
    <3> QED
      BY <3>4 DEF a, t
  <2>8. ASSUME Key[name] # "", NEW i \in OfKey(Key[name])
        PROVE  ~(pool[i].status = "rejected" /\ pool[i].age = "new")
    <3>1. ~Blocked(Key[name])
      BY <2>2, <2>3 DEF Eligible
    <3> QED
      BY <2>8, <3>1 DEF Blocked, Among
  <2> QED
    BY <2>7, <2>8
<1> QED
  BY <1>1, RowsComeTyped, PoolIsTyped, PTL

-----------------------------------------------------------------------------
(* What a job is applied with *)

Work == [stage : Stages \union {"none"}, at : {"idle", "ask", "kept", "render", "commit"},
         try : {1, 2}, resume : Resumes \union {NoResume},
         letter : Letters \union {NoLetter},
         verdict : {"none", "tailored", "covered", "set aside"}]

Prepared == {"tailored", "covered"}

\* What may be rendered: of a master, a selection of it.
Sound(f) ==
    f \in Resumes /\ (selects => f.facts \subseteq Facts /\ Facts \ Optional \subseteq f.facts)

\* What a worker with the record r holds has been checked, and its verdict is that of
\* its stage, given after the files were written.
Held(r) ==
    /\ r.at = "commit" => r.verdict # "none"
    /\ r.at = "commit" /\ r.verdict = "tailored" => r.stage = "tailor" /\ Sound(resume)
    /\ r.at = "commit" /\ r.verdict = "covered" => r.stage = "cover" /\ letter # NoLetter
    /\ r.at = "kept" => r.stage = "tailor"
    /\ r.at \in {"kept", "render"} /\ r.stage = "tailor" => Sound(r.resume)
    /\ r.at = "render" /\ r.stage = "cover" => r.letter \in Letters /\ ~r.letter.overclaims
    /\ "tailor" \notin crossed /\ r.stage = "tailor" =>
         /\ r.at = "render" => kept = r.resume
         /\ r.at = "commit" /\ r.verdict = "tailored" => kept = resume

\* The job is where its files say, as far as no human vouched for them.
Tailor == status \in Prepared /\ "tailor" \notin vouched
Cover == status = "covered" /\ "cover" \notin vouched

\* Of two workers at a stage both are the same, unless two have crossed.
Alone(stage) ==
    \A u, v \in Workers : worker[u].stage = stage /\ worker[v].stage = stage => u = v

\* Nobody works at a stage that the job is past, and nobody works beside another, unless
\* two have, or a human moved the job: so the last to write the files is the one that
\* moved it.
MaterialsInv ==
    /\ MaterialsTypeOK
    /\ \A w \in Workers : Held(worker[w])
    /\ letter # NoLetter => letter \in Letters /\ ~letter.overclaims
    /\ resume # NoResume => Sound(resume)
    /\ Tailor => Sound(resume)
    /\ Cover => letter # NoLetter
    /\ "tailor" \notin crossed =>
         /\ Alone("tailor")
         /\ Tailor => kept = resume /\ \A w \in Workers : worker[w].stage # "tailor"
    /\ "cover" \notin crossed =>
         /\ Alone("cover")
         /\ Cover => \A w \in Workers : worker[w].stage # "cover"
         /\ Cover /\ checked => letter.talk = "unseen"

LEMMA NoFiles ==
    /\ NoResume \notin Resumes /\ NoLetter \notin Letters
    /\ NoLetter.overclaims = FALSE
<1>1. NoResume.summary = "no file" /\ \A f \in Resumes : f.summary # "no file"
  BY DEF Resumes, NoResume
<1>2. NoLetter.talk = "no file" /\ \A l \in Letters : l.talk # "no file"
  BY DEF Letters, NoLetter
<1>3. NoLetter.overclaims = FALSE
  BY DEF NoLetter
<1> QED
  BY <1>1, <1>2, <1>3

LEMMA NoWorkHeld == NoWork \in Work /\ NoWork.stage = "none" /\ NoWork.at = "idle" /\ Held(NoWork)
BY DEF NoWork, Work, Held

LEMMA MaterialsInitInv == MaterialsInit => MaterialsInv
<1> SUFFICES ASSUME MaterialsInit PROVE MaterialsInv
  OBVIOUS
<1>1. worker \in [Workers -> Work] /\ \A w \in Workers : worker[w] = NoWork
  BY NoWorkHeld DEF MaterialsInit
<1>2. marks \in 0..MaxMarks
  BY MaterialsAssumption DEF MaterialsInit
<1>3. MaterialsTypeOK
  BY <1>1, <1>2 DEF MaterialsInit, MaterialsTypeOK, Work, Statuses
<1>4. ~Tailor /\ ~Cover
  BY DEF MaterialsInit, Tailor, Cover, Prepared
<1> QED
  BY <1>1, <1>3, <1>4, NoWorkHeld DEF MaterialsInit, MaterialsInv, Alone

\* A step of a worker that touches nothing but what it holds.
LEMMA WorkerMoves ==
    ASSUME MaterialsInv, NEW w \in Workers, NEW r \in Work,
           worker' = [worker EXCEPT ![w] = r],
           r.stage \in {worker[w].stage, "none"}, Held(r),
           UNCHANGED <<status, selects, filesVars, checker, checked, crossed, vouched, marks>>
    PROVE  MaterialsInv'
<1>1. worker \in [Workers -> Work] /\ UNCHANGED <<resume, kept, letter>>
  BY DEF MaterialsInv, MaterialsTypeOK, Work, filesVars
<1>2. worker' \in [Workers -> Work] /\ worker'[w] = r
      /\ \A v \in Workers : v # w => worker'[v] = worker[v]
  BY <1>1
<1>3. MaterialsTypeOK'
  BY <1>1, <1>2 DEF MaterialsInv, MaterialsTypeOK, Work
<1>4. \A v \in Workers : Held(worker'[v])
  BY <1>2 DEF MaterialsInv
<1>5. \A v \in Workers : Held(worker[v])'
  BY <1>1, <1>4 DEF Held, Sound
<1> QED
  BY <1>1, <1>2, <1>3, <1>5 DEF MaterialsInv, Sound, Tailor, Cover, Alone

LEMMA DoneHeld ==
    ASSUME MaterialsTypeOK, NEW w \in Workers, NEW to \in {"set aside"}
    PROVE  LET r == [NoWork EXCEPT !.stage = worker[w].stage, !.at = "commit", !.verdict = to]
           IN  r \in Work /\ r.stage = worker[w].stage /\ Held(r)
<1>1. worker[w] \in Work /\ NoWork \in Work
  BY NoWorkHeld DEF MaterialsTypeOK, Work
<1> QED
  BY <1>1 DEF Work, Held

LEMMA AskTailorInv == ASSUME MaterialsInv, NEW w \in Workers, AskTailor(w) PROVE MaterialsInv'
<1>1. /\ worker \in [Workers -> Work] /\ worker[w] \in Work
      /\ worker[w].stage = "tailor" /\ worker[w].at = "ask"
      /\ UNCHANGED <<status, selects, filesVars, checker, checked, crossed, vouched, marks>>
  BY DEF MaterialsInv, MaterialsTypeOK, Work, AskTailor, Works
<1>2. PICK a \in Replies :
         worker' = CASE TakeReply(w, a) /\ a.form # "prose" ->
                            [worker EXCEPT ![w].at = "kept", ![w].resume = Tailored(a)]
                     [] TakeReply(w, a) /\ a.form = "prose" -> Done(w, "set aside")
                     [] OTHER -> IF worker[w].try = 1 THEN [worker EXCEPT ![w].try = 2]
                                 ELSE Done(w, "set aside")
  BY DEF AskTailor
<1>3. a.facts \subseteq Facts \union Inventions /\ a.summary \in {"base", "written"}
  BY RepliesAssumption DEF AllReplies
<1>4. CASE TakeReply(w, a) /\ a.form # "prose"
  <2> DEFINE r == [worker[w] EXCEPT !.at = "kept", !.resume = Tailored(a)]
  <2>1. Sound(Tailored(a)) /\ Tailored(a) \in Resumes
    <3>1. Tailored(a) \in Resumes
      BY <1>3 DEF Tailored, Resumes
    <3>2. selects => /\ Tailored(a).facts \subseteq Facts
                     /\ Facts \ Optional \subseteq Tailored(a).facts
      BY <1>4, MaterialsAssumption DEF Tailored, TakeReply, Accepted, SelectionAccepted
    <3> QED
      BY <3>1, <3>2 DEF Sound
  <2>2. r \in Work /\ r.at = "kept" /\ r.stage = "tailor" /\ r.resume = Tailored(a)
    BY <1>1, <2>1 DEF Work
  <2>3. worker' = [worker EXCEPT ![w] = r]
    BY <1>1, <1>2, <1>4
  <2>4. Held(r)
    BY <2>1, <2>2 DEF Held
  <2> HIDE DEF r
  <2> QED
    BY <1>1, <2>2, <2>3, <2>4, WorkerMoves
<1>5. CASE worker' = Done(w, "set aside")
  BY <1>1, <1>5, DoneHeld, WorkerMoves DEF Done, MaterialsInv
<1>6. CASE ~TakeReply(w, a) /\ worker[w].try = 1
  <2> DEFINE r == [worker[w] EXCEPT !.try = 2]
  <2>1. r \in Work /\ r.at = "ask" /\ r.stage = "tailor" /\ Held(r)
    BY <1>1 DEF Work, Held
  <2>2. worker' = [worker EXCEPT ![w] = r]
    BY <1>1, <1>2, <1>6
  <2> HIDE DEF r
  <2> QED
    BY <1>1, <2>1, <2>2, WorkerMoves
<1> QED
  BY <1>2, <1>4, <1>5, <1>6

LEMMA AskLetterInv == ASSUME MaterialsInv, NEW w \in Workers, AskLetter(w) PROVE MaterialsInv'
<1>1. /\ worker \in [Workers -> Work] /\ worker[w] \in Work
      /\ worker[w].stage = "cover" /\ worker[w].at = "ask"
      /\ UNCHANGED <<status, selects, filesVars, checker, checked, crossed, vouched, marks>>
  BY DEF MaterialsInv, MaterialsTypeOK, Work, AskLetter, Works
<1>2. PICK l \in Letters :
         worker' = CASE ~Overclaims(l) ->
                            [worker EXCEPT ![w].at = "render", ![w].letter = l]
                     [] Overclaims(l) /\ worker[w].try = 1 -> [worker EXCEPT ![w].try = 2]
                     [] OTHER -> Done(w, "set aside")
  BY DEF AskLetter
<1>3. CASE ~Overclaims(l)
  <2> DEFINE r == [worker[w] EXCEPT !.at = "render", !.letter = l]
  <2>1. l \in Letters /\ ~l.overclaims
    BY <1>3 DEF Overclaims
  <2>2. r \in Work /\ r.at = "render" /\ r.stage = "cover" /\ r.letter = l
    BY <1>1, <2>1 DEF Work
  <2>3. worker' = [worker EXCEPT ![w] = r]
    BY <1>1, <1>2, <1>3
  <2>4. Held(r)
    BY <2>1, <2>2 DEF Held
  <2> HIDE DEF r
  <2> QED
    BY <1>1, <2>2, <2>3, <2>4, WorkerMoves
<1>4. CASE worker' = Done(w, "set aside")
  BY <1>1, <1>4, DoneHeld, WorkerMoves DEF Done, MaterialsInv
<1>5. CASE Overclaims(l) /\ worker[w].try = 1
  <2> DEFINE r == [worker[w] EXCEPT !.try = 2]
  <2>1. r \in Work /\ r.at = "ask" /\ r.stage = "cover" /\ Held(r)
    BY <1>1 DEF Work, Held
  <2>2. worker' = [worker EXCEPT ![w] = r]
    BY <1>1, <1>2, <1>5
  <2> HIDE DEF r
  <2> QED
    BY <1>1, <2>1, <2>2, WorkerMoves
<1> QED
  BY <1>2, <1>3, <1>4, <1>5

LEMMA GiveUpInv == ASSUME MaterialsInv, NEW w \in Workers, GiveUp(w) PROVE MaterialsInv'
BY DoneHeld, WorkerMoves DEF GiveUp, Done, MaterialsInv

LEMMA DieInv == ASSUME MaterialsInv, NEW w \in Workers, Die(w) PROVE MaterialsInv'
BY NoWorkHeld, WorkerMoves DEF Die

LEMMA ReadJobInv ==
    ASSUME MaterialsInv, NEW w \in Workers, NEW stage \in Stages, ReadJob(w, stage)
    PROVE  MaterialsInv'
<1> DEFINE r == [NoWork EXCEPT !.stage = stage, !.at = "ask"]
<1>1. /\ worker \in [Workers -> Work] /\ status = Expects(stage)
      /\ worker' = [worker EXCEPT ![w] = r]
      /\ UNCHANGED <<status, selects, resume, kept, letter, checker, checked, vouched, marks>>
      /\ crossed' = IF \E v \in Workers : worker[v].stage = stage
                    THEN crossed \union {stage} ELSE crossed
  BY DEF MaterialsInv, MaterialsTypeOK, Work, ReadJob, filesVars
<1>2. r \in Work /\ r.stage = stage /\ r.at = "ask"
  BY NoWorkHeld DEF Work
<1> HIDE DEF r
<1>3. worker' \in [Workers -> Work] /\ worker'[w] = r
      /\ \A v \in Workers : v # w => worker'[v] = worker[v]
  BY <1>1, <1>2
<1>4. crossed \subseteq crossed' /\ crossed' \subseteq Stages
      /\ (stage \notin crossed' => \A v \in Workers : worker[v].stage # stage)
      /\ (stage \notin crossed' => stage \notin crossed)
  BY <1>1 DEF MaterialsInv, MaterialsTypeOK
<1>5. MaterialsTypeOK'
  BY <1>1, <1>3, <1>4 DEF MaterialsInv, MaterialsTypeOK, Work
<1>6. \A v \in Workers : Held(worker[v])'
  BY <1>1, <1>2, <1>3, <1>4 DEF MaterialsInv, Held, Sound
<1>7. /\ stage = "tailor" => status = "scored"
      /\ stage = "cover" => status = "tailored"
      /\ stage = "tailor" \/ stage = "cover"
  BY <1>1 DEF Expects, Stages
<1>8. (Tailor' <=> Tailor) /\ (Cover' <=> Cover)
  BY <1>1 DEF Tailor, Cover
<1>9. "tailor" \notin crossed' =>
         /\ Alone("tailor")'
         /\ Tailor' => kept' = resume' /\ \A v \in Workers : worker'[v].stage # "tailor"
  <2>1. "tailor" \notin crossed' => Alone("tailor")'
    BY <1>2, <1>3, <1>4, <1>7 DEF MaterialsInv, Alone
  <2>2. Tailor => stage # "tailor"
    BY <1>7 DEF Tailor, Prepared
  <2> QED
    BY <1>1, <1>2, <1>3, <1>4, <1>8, <2>1, <2>2 DEF MaterialsInv
<1>10. "cover" \notin crossed' =>
         /\ Alone("cover")'
         /\ Cover' => \A v \in Workers : worker'[v].stage # "cover"
         /\ Cover' /\ checked' => letter'.talk = "unseen"
  <2>1. "cover" \notin crossed' => Alone("cover")'
    BY <1>2, <1>3, <1>4, <1>7 DEF MaterialsInv, Alone
  <2>2. Cover => stage # "cover"
    BY <1>7 DEF Cover
  <2> QED
    BY <1>1, <1>2, <1>3, <1>4, <1>8, <2>1, <2>2 DEF MaterialsInv
<1>11. Sound(resume)' <=> Sound(resume)
  BY <1>1 DEF Sound
<1> QED
  BY <1>1, <1>5, <1>6, <1>8, <1>9, <1>10, <1>11 DEF MaterialsInv

\* A write of a file by the worker w, which then holds r.  What others hold is still
\* good: a résumé is replaced by a sound one, a letter by one that was checked, and who
\* is alone at a stage is the only one that its files matter to.
LEMMA WriteInv ==
    ASSUME MaterialsInv, NEW w \in Workers, NEW r \in Work,
           worker' = [worker EXCEPT ![w] = r], r.stage = worker[w].stage,
           UNCHANGED <<status, selects, checker, checked, crossed, vouched, marks>>,
           resume' \in Resumes \union {NoResume}, kept' \in Resumes \union {NoResume},
           letter' \in Letters \union {NoLetter},
           resume' = resume \/ Sound(resume'),
           (resume' = resume /\ kept' = kept) \/ worker[w].stage = "tailor",
           letter' = letter \/ (/\ letter' # NoLetter /\ ~letter'.overclaims
                                /\ worker[w].stage = "cover"),
           Held(r)'
    PROVE  MaterialsInv'
<1>1. worker \in [Workers -> Work] /\ worker' \in [Workers -> Work] /\ worker'[w] = r
      /\ \A v \in Workers : v # w => worker'[v] = worker[v]
  BY DEF MaterialsInv, MaterialsTypeOK, Work
<1>2. MaterialsTypeOK'
  BY <1>1 DEF MaterialsInv, MaterialsTypeOK, Work
<1>3. ASSUME NEW f PROVE Sound(f)' <=> Sound(f)
  BY DEF Sound
<1>4. Sound(resume) => Sound(resume')
  OBVIOUS
<1>5. ASSUME NEW v \in Workers, v # w PROVE Held(worker[v])'
  <2>1. worker'[v] = worker[v] /\ Held(worker[v])
    BY <1>1, <1>5 DEF MaterialsInv
  <2>2. letter # NoLetter => letter' # NoLetter
    OBVIOUS
  <2>3. "tailor" \notin crossed /\ worker[v].stage = "tailor" => resume' = resume /\ kept' = kept
    BY <1>5 DEF MaterialsInv, Alone
  <2>4. Sound(resume)' <=> Sound(resume')
    BY DEF Sound
  <2>5. Sound(worker[v].resume)' <=> Sound(worker[v].resume)
    BY <2>1 DEF Sound
  <2> QED
    BY <1>4, <2>1, <2>2, <2>3, <2>4, <2>5 DEF Held
<1>6. \A v \in Workers : Held(worker[v])'
  <2>1. Held(worker[w])'
    BY <1>1 DEF Held, Sound
  <2> QED
    BY <1>5, <2>1
<1>7. letter' # NoLetter => letter' \in Letters /\ ~letter'.overclaims
  BY DEF MaterialsInv
<1>8. (Tailor' <=> Tailor) /\ (Cover' <=> Cover)
  BY DEF Tailor, Cover
<1>9. (resume' # NoResume => Sound(resume)') /\ (Tailor' => Sound(resume)')
  <2>1. Sound(resume)' <=> Sound(resume')
    BY DEF Sound
  <2>2. Sound(resume) => Sound(resume')
    OBVIOUS
  <2> QED
    BY <1>8, <2>1, <2>2 DEF MaterialsInv
<1>10. Cover' => letter' # NoLetter
  BY <1>8 DEF MaterialsInv
<1>11. Alone("tailor")' <=> Alone("tailor")
  BY <1>1 DEF Alone
<1>12. Alone("cover")' <=> Alone("cover")
  BY <1>1 DEF Alone
<1>13. "tailor" \notin crossed' =>
         /\ Alone("tailor")'
         /\ Tailor' => kept' = resume' /\ \A v \in Workers : worker'[v].stage # "tailor"
  BY <1>1, <1>8, <1>11 DEF MaterialsInv
<1>14. "cover" \notin crossed' =>
         /\ Alone("cover")'
         /\ Cover' => \A v \in Workers : worker'[v].stage # "cover"
         /\ Cover' /\ checked' => letter'.talk = "unseen"
  BY <1>1, <1>8, <1>12 DEF MaterialsInv
<1> QED
  BY <1>2, <1>6, <1>7, <1>9, <1>10, <1>13, <1>14 DEF MaterialsInv

LEMMA WriteKeptInv == ASSUME MaterialsInv, NEW w \in Workers, WriteKept(w) PROVE MaterialsInv'
<1>1. /\ worker[w] \in Work /\ worker[w].stage = "tailor" /\ worker[w].at = "kept"
      /\ Sound(worker[w].resume)
      /\ worker' = [worker EXCEPT ![w] = [worker[w] EXCEPT !.at = "render"]]
      /\ kept' = worker[w].resume
      /\ UNCHANGED <<status, selects, resume, letter, checker, checked, crossed, vouched, marks>>
  BY DEF MaterialsInv, MaterialsTypeOK, Work, WriteKept, Works, Held
<1>2. PICK r \in Work :
         /\ worker' = [worker EXCEPT ![w] = r]
         /\ r.stage = "tailor" /\ r.at = "render" /\ r.resume = worker[w].resume
  <2>1. [worker[w] EXCEPT !.at = "render"] \in Work
    BY <1>1 DEF Work
  <2> QED
    BY <1>1, <2>1 DEF Work
<1>3. Held(r)'
  BY <1>1, <1>2 DEF Held, Sound
<1>4. /\ resume' \in Resumes \union {NoResume} /\ kept' \in Resumes \union {NoResume}
      /\ letter' \in Letters \union {NoLetter}
  BY <1>1 DEF MaterialsInv, MaterialsTypeOK, Work, Sound
<1> QED
  BY <1>1, <1>2, <1>3, <1>4, WriteInv

LEMMA RenderResumeInv ==
    ASSUME MaterialsInv, NEW w \in Workers, RenderResume(w) PROVE MaterialsInv'
<1>1. /\ worker[w] \in Work /\ worker[w].stage = "tailor" /\ worker[w].at = "render"
      /\ Held(worker[w])
      /\ worker' = [worker EXCEPT ![w] =
                       [NoWork EXCEPT !.stage = worker[w].stage, !.at = "commit", !.verdict = "tailored"]]
      /\ resume' = worker[w].resume
      /\ UNCHANGED <<status, selects, kept, letter, checker, checked, crossed, vouched, marks>>
  BY DEF MaterialsInv, MaterialsTypeOK, Work, RenderResume, Works, Done
<1>2. PICK r \in Work :
         /\ worker' = [worker EXCEPT ![w] = r]
         /\ r.stage = "tailor" /\ r.at = "commit" /\ r.verdict = "tailored"
  <2>1. [NoWork EXCEPT !.stage = worker[w].stage, !.at = "commit", !.verdict = "tailored"] \in Work
    BY <1>1, NoWorkHeld DEF Work
  <2> QED
    BY <1>1, <2>1, NoWorkHeld DEF Work
<1>3. Sound(resume') /\ Sound(resume)' /\ ("tailor" \notin crossed => kept' = resume')
  BY <1>1 DEF Held, Sound
<1>4. Held(r)'
  BY <1>1, <1>2, <1>3 DEF Held
<1>5. /\ resume' \in Resumes \union {NoResume} /\ kept' \in Resumes \union {NoResume}
      /\ letter' \in Letters \union {NoLetter}
  BY <1>1 DEF MaterialsInv, MaterialsTypeOK, Work, Sound, Held
<1> QED
  BY <1>1, <1>2, <1>3, <1>4, <1>5, WriteInv

LEMMA RenderLetterInv ==
    ASSUME MaterialsInv, NEW w \in Workers, RenderLetter(w) PROVE MaterialsInv'
<1>1. /\ worker[w] \in Work /\ worker[w].stage = "cover" /\ worker[w].at = "render"
      /\ Held(worker[w])
      /\ worker' = [worker EXCEPT ![w] =
                       [NoWork EXCEPT !.stage = worker[w].stage, !.at = "commit", !.verdict = "covered"]]
      /\ letter' = worker[w].letter
      /\ UNCHANGED <<status, selects, resume, kept, checker, checked, crossed, vouched, marks>>
  BY DEF MaterialsInv, MaterialsTypeOK, Work, RenderLetter, Works, Done
<1>2. PICK r \in Work :
         /\ worker' = [worker EXCEPT ![w] = r]
         /\ r.stage = "cover" /\ r.at = "commit" /\ r.verdict = "covered"
  <2>1. [NoWork EXCEPT !.stage = worker[w].stage, !.at = "commit", !.verdict = "covered"] \in Work
    BY <1>1, NoWorkHeld DEF Work
  <2> QED
    BY <1>1, <2>1, NoWorkHeld DEF Work
<1>3. letter' \in Letters /\ letter' # NoLetter /\ ~letter'.overclaims
  BY <1>1, NoFiles DEF Held
<1>4. Held(r)'
  BY <1>1, <1>2, <1>3 DEF Held
<1>5. /\ resume' \in Resumes \union {NoResume} /\ kept' \in Resumes \union {NoResume}
      /\ letter' \in Letters \union {NoLetter}
  BY <1>1, <1>3 DEF MaterialsInv, MaterialsTypeOK
<1> QED
  BY <1>1, <1>2, <1>3, <1>4, <1>5, WriteInv

LEMMA CommitStageInv ==
    ASSUME MaterialsInv, NEW w \in Workers, CommitStage(w) PROVE MaterialsInv'
<1> DEFINE moves == status = Expects(worker[w].stage)
           ends == moves /\ worker[w].verdict = Produces(worker[w].stage)
<1>1. /\ worker \in [Workers -> Work] /\ worker[w] \in Work /\ Held(worker[w])
      /\ worker[w].at = "commit" /\ worker' = [worker EXCEPT ![w] = NoWork]
      /\ status' = IF moves THEN worker[w].verdict ELSE status
      /\ checked' = (checked /\ ~moves)
      /\ vouched' = IF ends THEN vouched \ {worker[w].stage} ELSE vouched
      /\ UNCHANGED <<selects, resume, kept, letter, checker, crossed, marks>>
  BY DEF MaterialsInv, MaterialsTypeOK, Work, CommitStage, filesVars
<1>2. /\ worker' \in [Workers -> Work] /\ worker'[w].stage = "none"
      /\ \A v \in Workers : worker'[v].stage # "none" => v # w /\ worker'[v] = worker[v]
  BY <1>1, NoWorkHeld
<1>3. worker[w].verdict \in {"tailored", "covered", "set aside"}
  BY <1>1 DEF Held, Work
<1>4. MaterialsTypeOK'
  <2>1. status' \in Statuses /\ vouched' \subseteq Stages /\ checked' \in BOOLEAN
    BY <1>1, <1>3 DEF MaterialsInv, MaterialsTypeOK, Statuses
  <2> QED
    BY <1>1, <1>2, <2>1 DEF MaterialsInv, MaterialsTypeOK, Work
<1>5. \A v \in Workers : Held(worker[v])'
  <2>1. \A v \in Workers : Held(worker'[v])
    BY <1>1, NoWorkHeld DEF MaterialsInv
  <2> QED
    BY <1>1, <2>1 DEF Held, Sound
<1>6. moves => \/ status' = "set aside"
               \/ /\ status' = "tailored" /\ worker[w].stage = "tailor" /\ Sound(resume)
                  /\ vouched' = vouched \ {"tailor"}
                  /\ "tailor" \notin crossed => kept = resume
               \/ /\ status' = "covered" /\ worker[w].stage = "cover" /\ letter # NoLetter
                  /\ status = "tailored" /\ vouched' = vouched \ {"cover"}
  <2> SUFFICES ASSUME moves PROVE
             \/ status' = "set aside"
             \/ /\ status' = "tailored" /\ worker[w].stage = "tailor" /\ Sound(resume)
                /\ vouched' = vouched \ {"tailor"}
                /\ "tailor" \notin crossed => kept = resume
             \/ /\ status' = "covered" /\ worker[w].stage = "cover" /\ letter # NoLetter
                /\ status = "tailored" /\ vouched' = vouched \ {"cover"}
    OBVIOUS
  <2>1. CASE worker[w].verdict = "tailored"
    BY <1>1, <2>1 DEF Held, Produces
  <2>2. CASE worker[w].verdict = "covered"
    BY <1>1, <2>2 DEF Held, Produces, Expects
  <2>3. CASE worker[w].verdict = "set aside"
    BY <1>1, <2>3
  <2> QED
    BY <1>3, <2>1, <2>2, <2>3
<1>7. ~moves => status' = status /\ checked' = checked /\ vouched' = vouched
  <2>1. checked \in BOOLEAN
    BY DEF MaterialsInv, MaterialsTypeOK
  <2> QED
    BY <1>1, <2>1
<1>8. moves => checked' = FALSE
  BY <1>1
<1> HIDE DEF moves, ends
<1>9. /\ Tailor' => Tailor \/ (/\ worker[w].stage = "tailor" /\ Sound(resume)
                               /\ "tailor" \notin crossed => kept = resume)
      /\ Cover' => \/ Cover /\ checked' = checked
                   \/ worker[w].stage = "cover" /\ letter # NoLetter /\ ~checked'
  <2>1. CASE moves
    BY <1>6, <1>8, <2>1 DEF Tailor, Cover, Prepared
  <2>2. CASE ~moves
    BY <1>7, <2>2 DEF Tailor, Cover
  <2> QED
    BY <2>1, <2>2
<1>10. Alone("tailor") => Alone("tailor")'
  BY <1>2 DEF Alone
<1>11. Alone("cover") => Alone("cover")'
  BY <1>2 DEF Alone
<1>12. "tailor" \notin crossed' =>
         /\ Alone("tailor")'
         /\ Tailor' => kept' = resume' /\ \A v \in Workers : worker'[v].stage # "tailor"
  <2> SUFFICES ASSUME "tailor" \notin crossed
               PROVE  /\ Alone("tailor")'
                      /\ Tailor' => kept = resume /\ \A v \in Workers : worker'[v].stage # "tailor"
    BY <1>1
  <2>1. Alone("tailor") /\ Alone("tailor")'
    BY <1>10 DEF MaterialsInv
  <2>2. worker[w].stage = "tailor" => \A v \in Workers : worker'[v].stage # "tailor"
    BY <1>2, <2>1 DEF Alone
  <2>3. (\A v \in Workers : worker[v].stage # "tailor")
            => \A v \in Workers : worker'[v].stage # "tailor"
    BY <1>2
  <2> QED
    BY <1>9, <2>1, <2>2, <2>3 DEF MaterialsInv
<1>13. "cover" \notin crossed' =>
         /\ Alone("cover")'
         /\ Cover' => \A v \in Workers : worker'[v].stage # "cover"
         /\ Cover' /\ checked' => letter'.talk = "unseen"
  <2> SUFFICES ASSUME "cover" \notin crossed
               PROVE  /\ Alone("cover")'
                      /\ Cover' => \A v \in Workers : worker'[v].stage # "cover"
                      /\ Cover' /\ checked' => letter.talk = "unseen"
    BY <1>1
  <2>1. Alone("cover") /\ Alone("cover")'
    BY <1>11 DEF MaterialsInv
  <2>2. worker[w].stage = "cover" => \A v \in Workers : worker'[v].stage # "cover"
    BY <1>2, <2>1 DEF Alone
  <2>3. (\A v \in Workers : worker[v].stage # "cover")
            => \A v \in Workers : worker'[v].stage # "cover"
    BY <1>2
  <2> QED
    BY <1>9, <2>1, <2>2, <2>3 DEF MaterialsInv
<1>14. Sound(resume)' <=> Sound(resume)
  BY <1>1 DEF Sound
<1> QED
  BY <1>1, <1>4, <1>5, <1>9, <1>12, <1>13, <1>14 DEF MaterialsInv

\* verify_letters and the human leave the files and the workers alone, and put the job
\* nowhere that its files are not of it but where a human vouches for them.
LEMMA JobMoves ==
    ASSUME MaterialsInv, UNCHANGED <<selects, filesVars, worker, crossed>>,
           status' \in Statuses, checker' \in {"off", "loaded", "offender"},
           checked' \in BOOLEAN, vouched' \subseteq Stages, marks' \in 0..MaxMarks,
           Tailor' => Tailor, Cover' => Cover,
           Cover' /\ checked' /\ "cover" \notin crossed => letter.talk = "unseen"
    PROVE  MaterialsInv'
<1>1. UNCHANGED <<resume, kept, letter, worker, selects, crossed>>
  BY DEF filesVars
<1>2. MaterialsTypeOK'
  BY <1>1 DEF MaterialsInv, MaterialsTypeOK
<1>3. \A v \in Workers : Held(worker[v])'
  BY <1>1 DEF MaterialsInv, Held, Sound
<1>4. Sound(resume)' <=> Sound(resume)
  BY <1>1 DEF Sound
<1>5. (Alone("tailor")' <=> Alone("tailor")) /\ (Alone("cover")' <=> Alone("cover"))
  BY <1>1 DEF Alone
<1> QED
  BY <1>1, <1>2, <1>3, <1>4, <1>5 DEF MaterialsInv

LEMMA MaterialsStep == MaterialsInv /\ [MaterialsNext]_materialVars => MaterialsInv'
<1> SUFFICES ASSUME MaterialsInv, [MaterialsNext]_materialVars PROVE MaterialsInv'
  OBVIOUS
<1>1. /\ status \in Statuses /\ vouched \subseteq Stages
      /\ letter \in Letters \union {NoLetter} /\ marks \in 0..MaxMarks /\ MaxMarks \in Nat
      /\ checker \in {"off", "loaded", "offender"} /\ checked \in BOOLEAN
      /\ Cover => letter # NoLetter
      /\ "cover" \notin crossed /\ Cover /\ checked => letter.talk = "unseen"
  BY MaterialsAssumption DEF MaterialsInv, MaterialsTypeOK
<1>2. CASE VerifyLoads
  <2>1. (Tailor' <=> Tailor) /\ (Cover' <=> Cover)
    BY <1>2 DEF VerifyLoads, Tailor, Cover
  <2> QED
    BY <1>1, <1>2, <2>1, JobMoves DEF VerifyLoads
<1>3. CASE VerifyReads
  <2>1. (Tailor' <=> Tailor) /\ (Cover' <=> Cover)
    BY <1>3 DEF VerifyReads, Tailor, Cover
  <2>2. Cover /\ ~Suspicious(letter) => letter.talk = "unseen"
    <3>1. \A l \in Letters : l.talk \in {"unseen", "telling"}
      BY DEF Letters
    <3> QED
      BY <1>1, <3>1 DEF Suspicious
  <2>3. (~Suspicious(letter)) \in BOOLEAN
    OBVIOUS
  <2>4. checked' = (~Suspicious(letter)) /\ checker' \in {"off", "loaded", "offender"}
        /\ UNCHANGED <<status, selects, filesVars, worker, crossed, vouched, marks>>
    BY <1>3 DEF VerifyReads
  <2> QED
    BY <1>1, <2>1, <2>2, <2>3, <2>4, JobMoves
<1>4. CASE VerifyRoutes
  <2>1. status' = "set aside" /\ "set aside" \in Statuses /\ ~Tailor' /\ ~Cover'
    BY <1>4 DEF VerifyRoutes, Prepared, Statuses, Tailor, Cover
  <2> QED
    BY <1>1, <1>4, <2>1, JobMoves DEF VerifyRoutes
<1>5. CASE Mark
  <2>1. marks' \in 0..MaxMarks
    BY <1>1, <1>5 DEF Mark
  <2>2. /\ status' \in Statuses /\ status' # status /\ checked' = FALSE
        /\ vouched \subseteq vouched' /\ vouched' \subseteq Stages
        /\ status' = "tailored" => "tailor" \in vouched'
        /\ status' = "covered" => vouched' = Stages
        /\ UNCHANGED <<selects, filesVars, worker, checker, crossed>>
    BY <1>1, <1>5 DEF Mark, Stages
  <2>3. ~Tailor' /\ ~Cover'
    BY <2>2 DEF Tailor, Cover, Prepared, Stages
  <2> QED
    BY <1>1, <2>1, <2>2, <2>3, JobMoves
<1>6. CASE UNCHANGED materialVars
  BY <1>6 DEF materialVars, filesVars, MaterialsInv, MaterialsTypeOK, Held, Sound, Tailor, Cover,
              Alone
<1> QED
  BY <1>2, <1>3, <1>4, <1>5, <1>6, ReadJobInv, GiveUpInv, CommitStageInv, DieInv, AskTailorInv,
     WriteKeptInv, RenderResumeInv, AskLetterInv, RenderLetterInv DEF MaterialsNext

\* The files of a job have been through the checks there are, for any number of workers
\* that write them outside of the compare-and-set and die at any step, and whatever a
\* human marks: of a master, the facts of a résumé are a selection, a letter claims no
\* language too much, a job is tailored or covered without files only on a human's word,
\* and what verify_letters passed stays what it would pass, unless two workers wrote
\* letters at once or one did under a human's mark.
THEOREM FilesAreChecked == MaterialsSpec => []FilesWereChecked
<1>1. MaterialsInv => ResumeWasChecked
  BY NoFiles DEF MaterialsInv, ResumeWasChecked, Sound, Tailor, Prepared
<1>2. MaterialsInv => LetterWasChecked /\ PassedStaysClean
  BY NoFiles DEF MaterialsInv, LetterWasChecked, PassedStaysClean, Cover
<1> QED
  BY <1>1, <1>2, MaterialsInitInv, MaterialsStep, PTL DEF MaterialsSpec, FilesWereChecked

\* The selection that a résumé is attested by is the one it was rendered from, its summary
\* included, unless two workers tailored at once, one is at it, or a human said that the
\* job is tailored.
THEOREM AttestedIsRendered == MaterialsSpec => []KeptIsRendered
<1>1. MaterialsInv => KeptIsRendered
  BY NoFiles DEF MaterialsInv, KeptIsRendered, Unverified, Claims, Sound, Tailor, Prepared
<1> QED
  BY <1>1, MaterialsInitInv, MaterialsStep, PTL DEF MaterialsSpec

\* The files keep their types.
THEOREM MaterialsTypeCorrect == MaterialsSpec => []MaterialsTypeOK
<1>1. MaterialsInv => MaterialsTypeOK
  BY DEF MaterialsInv
<1> QED
  BY <1>1, MaterialsInitInv, MaterialsStep, PTL DEF MaterialsSpec

-----------------------------------------------------------------------------
(* Enrich *)

Values == Tiers \union {"", "teaser", "listing"}

EnrichInv == EnrichTypeOK /\ NothingIsLost

LEMMA EnrichInitInv == EnrichInit => EnrichInv
<1> SUFFICES ASSUME EnrichInit PROVE EnrichInv
  OBVIOUS
<1>1. row \in [Fields -> Values]
  <2>1. Nothing \in [Fields -> Values]
    BY DEF Nothing, Values
  <2>2. PICK d \in {"", "teaser", "listing"}, l \in {"", "listing"} :
           row = [Nothing EXCEPT !.description = d, !.location = l]
    BY DEF EnrichInit
  <2>3. d \in Values /\ l \in Values
    BY DEF Values
  <2> QED
    BY <2>1, <2>2, <2>3
<1>2. rounds \in 0..MaxRounds
  BY EnrichAssumption DEF EnrichInit
<1>3. EnrichTypeOK
  BY <1>1, <1>2, EnrichAssumption DEF EnrichInit, EnrichTypeOK, Values
<1> QED
  BY <1>3 DEF EnrichInit, EnrichInv, NothingIsLost, BlankOnlyIfUnread, KnownStays

\* Whatever a page holds, the cascade finds a description if one of the tiers does.
LEMMA CascadeFinds ==
    ASSUME NEW p \in Pages, NEW held \in BOOLEAN
    PROVE  /\ Cascade(p, held) \in [Fields -> Tiers \union {""}]
           /\ ~held /\ Cascade(p, held)["description"] = "" =>
                 \A t \in Tiers : "description" \notin p[t]
<1>1. ASSUME NEW t \in Tiers PROVE Tier(t, p) \in [Fields -> Tiers \union {""}]
  BY DEF Tier
<1>2. Nothing \in [Fields -> Tiers \union {""}]
  BY DEF Nothing
<1>3. ASSUME NEW m \in [Fields -> Tiers \union {""}], NEW n \in [Fields -> Tiers \union {""}]
      PROVE  /\ Merged(m, n) \in [Fields -> Tiers \union {""}]
             /\ \A f \in Fields : Merged(m, n)[f] = IF m[f] = "" THEN n[f] ELSE m[f]
  BY DEF Merged
<1>4. "description" \in Fields /\ "jsonld" \in Tiers /\ "selectors" \in Tiers /\ "llm" \in Tiers
      /\ "" \notin Tiers
  BY DEF Fields, Tiers
<1> DEFINE a == IF held THEN Nothing ELSE Jsonld(p)
           b == IF a["description"] = "" THEN Merged(a, Selected(p)) ELSE a
<1>5. a \in [Fields -> Tiers \union {""}] /\ Selected(p) \in [Fields -> Tiers \union {""}]
      /\ Asked(p) \in [Fields -> Tiers \union {""}]
  BY <1>1, <1>2, <1>4 DEF Jsonld, Selected, Asked
<1>6. b \in [Fields -> Tiers \union {""}]
      /\ b["description"] = IF a["description"] = "" THEN Selected(p)["description"]
                            ELSE a["description"]
  BY <1>3, <1>4, <1>5
<1>7. Cascade(p, held) = IF b["description"] = "" THEN Merged(b, Asked(p)) ELSE b
  BY DEF Cascade
<1> HIDE DEF a, b
<1>8. /\ Cascade(p, held) \in [Fields -> Tiers \union {""}]
      /\ Cascade(p, held)["description"] =
            IF b["description"] = "" THEN Asked(p)["description"] ELSE b["description"]
  <2>1. CASE b["description"] = ""
    <3>1. Cascade(p, held) = Merged(b, Asked(p))
      BY <1>7, <2>1
    <3>2. /\ Merged(b, Asked(p)) \in [Fields -> Tiers \union {""}]
          /\ Merged(b, Asked(p))["description"] = Asked(p)["description"]
      BY <1>3, <1>4, <1>5, <1>6, <2>1
    <3> QED
      BY <2>1, <3>1, <3>2
  <2>2. CASE b["description"] # ""
    <3>1. Cascade(p, held) = b
      BY <1>7, <2>2
    <3> QED
      BY <1>6, <2>2, <3>1
  <2> QED
    BY <2>1, <2>2
<1>9. ASSUME NEW t \in Tiers PROVE Tier(t, p)["description"] = "" => "description" \notin p[t]
  BY <1>4 DEF Tier
<1>10. ~held /\ Cascade(p, held)["description"] = "" =>
          /\ Jsonld(p)["description"] = "" /\ Selected(p)["description"] = ""
          /\ Asked(p)["description"] = ""
  <2>1. ~held => a = Jsonld(p)
    BY DEF a
  <2> QED
    BY <1>6, <1>8, <2>1
<1>11. \A t \in Tiers : t = "jsonld" \/ t = "selectors" \/ t = "llm"
  BY DEF Tiers
<1> QED
  BY <1>4, <1>8, <1>9, <1>10, <1>11 DEF Jsonld, Selected, Asked

LEMMA EnrichJobInv == ASSUME EnrichInv, EnrichJob PROVE EnrichInv'
<1>1. /\ row \in [Fields -> Values] /\ known' = row /\ enriched' = TRUE
      /\ rounds \in 0..MaxRounds /\ rounds < MaxRounds /\ rounds' = rounds + 1
      /\ MaxRounds \in Nat
  BY EnrichAssumption DEF EnrichInv, EnrichTypeOK, Values, EnrichJob
<1> DEFINE found(p) == Cascade(p, Stored(row))
           m(p) == IF Stored(row) THEN [found(p) EXCEPT !.description = row.description]
                   ELSE found(p)
<1>2. PICK p \in Pages : row' = AppliedTo(row, m(p)) /\ page' = p
  BY DEF EnrichJob
<1>3. /\ "description" \in Fields /\ "location" \in Fields /\ "salary" \in Fields
      /\ "" \notin Tiers /\ "teaser" \notin Tiers /\ Tiers \subseteq Values /\ "" \in Values
  BY DEF Fields, Tiers, Values
<1>4. Stored(row) \in BOOLEAN /\ (Stored(row) <=> row["description"] \notin {"", "teaser"})
  BY DEF Stored
<1>5. /\ found(p) \in [Fields -> Tiers \union {""}]
      /\ ~Stored(row) /\ found(p)["description"] = "" =>
            \A t \in Tiers : "description" \notin p[t]
  BY <1>4, CascadeFinds
<1> HIDE DEF found
<1>6. /\ m(p) \in [Fields -> Values]
      /\ Stored(row) => m(p)["description"] = row["description"]
      /\ ~Stored(row) => m(p) = found(p)
  BY <1>1, <1>3, <1>5
<1> HIDE DEF m
<1>7. /\ row' \in [Fields -> Values]
      /\ row'["description"] = IF m(p)["description"] = "" THEN row["description"]
                               ELSE m(p)["description"]
      /\ \A f \in {"location", "salary"} : row[f] # "" => row'[f] = row[f]
  <2>1. \A f \in Fields : /\ Merged(m(p), row)[f] = IF m(p)[f] = "" THEN row[f] ELSE m(p)[f]
                          /\ Merged(row, m(p))[f] = IF row[f] = "" THEN m(p)[f] ELSE row[f]
    BY DEF Merged
  <2>2. \A f \in Fields : Merged(m(p), row)[f] \in Values /\ Merged(row, m(p))[f] \in Values
    BY <1>1, <1>6, <2>1
  <2>3. row' = [f \in Fields |-> IF f \in {"description", "requirements"}
                                 THEN Merged(m(p), row)[f] ELSE Merged(row, m(p))[f]]
    BY <1>2 DEF AppliedTo
  <2>4. row' \in [Fields -> Values]
    BY <2>2, <2>3
  <2>5. row'["description"] = Merged(m(p), row)["description"]
    BY <1>3, <2>3
  <2>6. \A f \in {"location", "salary"} : row'[f] = Merged(row, m(p))[f]
    BY <1>3, <2>3
  <2> QED
    BY <1>3, <2>1, <2>4, <2>5, <2>6
<1>8. EnrichTypeOK'
  <2>1. rounds' \in 0..MaxRounds
    BY <1>1
  <2> QED
    BY <1>1, <1>2, <1>7, <2>1 DEF EnrichTypeOK, Values
<1>9. row'["description"] \in {"", "teaser"} => \A t \in Tiers : "description" \notin page'[t]
  <2>1. CASE Stored(row)
    BY <1>4, <1>6, <1>7, <2>1
  <2>2. CASE ~Stored(row)
    <3>1. m(p)["description"] = found(p)["description"] /\ found(p)["description"] \in Tiers \union {""}
      BY <1>3, <1>5, <1>6, <2>2
    <3> QED
      BY <1>2, <1>3, <1>5, <1>7, <2>2, <3>1
  <2> QED
    BY <2>1, <2>2
<1>10. Stored(row) => row'["description"] = row["description"]
  BY <1>6, <1>7
<1>11. BlankOnlyIfUnread'
  BY <1>1, <1>9 DEF BlankOnlyIfUnread
<1>12. KnownStays'
  BY <1>1, <1>7, <1>10 DEF KnownStays, Stored
<1> QED
  BY <1>8, <1>11, <1>12 DEF EnrichInv, NothingIsLost

LEMMA EnrichStep == EnrichInv /\ [EnrichNext]_enrichVars => EnrichInv'
<1> SUFFICES ASSUME EnrichInv, [EnrichNext]_enrichVars PROVE EnrichInv'
  OBVIOUS
<1>1. CASE FetchFails
  <2>1. rounds' \in 0..MaxRounds
    <3>1. rounds \in 0..MaxRounds /\ rounds < MaxRounds /\ rounds' = rounds + 1
      BY <1>1 DEF EnrichInv, EnrichTypeOK, FetchFails
    <3>2. MaxRounds \in Nat
      BY EnrichAssumption
    <3> QED
      BY <3>1, <3>2
  <2> QED
    BY <1>1, <2>1 DEF FetchFails, EnrichInv, EnrichTypeOK, NothingIsLost, BlankOnlyIfUnread,
                      KnownStays, Stored
<1>2. CASE SendBack
  BY <1>2 DEF SendBack, EnrichInv, EnrichTypeOK, NothingIsLost, BlankOnlyIfUnread, KnownStays
<1>3. CASE UNCHANGED enrichVars
  BY <1>3 DEF enrichVars, EnrichInv, EnrichTypeOK, NothingIsLost, BlankOnlyIfUnread,
              KnownStays, Stored
<1> QED
  BY <1>1, <1>2, <1>3, EnrichJobInv DEF EnrichNext

\* Whatever the pages hold, the tiers neither miss a description that one of them would
\* have found nor give up what was known before.
THEOREM CascadeLosesNothing == EnrichSpec => []NothingIsLost
<1>1. EnrichInv => NothingIsLost
  BY DEF EnrichInv
<1> QED
  BY <1>1, EnrichInitInv, EnrichStep, PTL DEF EnrichSpec

\* Enriching a job keeps its types.
THEOREM EnrichTypeCorrect == EnrichSpec => []EnrichTypeOK
<1>1. EnrichInv => EnrichTypeOK
  BY DEF EnrichInv
<1> QED
  BY <1>1, EnrichInitInv, EnrichStep, PTL DEF EnrichSpec
=============================================================================
