-------------------------- MODULE Automation_proofs --------------------------
(***************************************************************************)
(* Proofs about Automation, for any jobs, employers, markets and limits.   *)
(***************************************************************************)
EXTENDS Automation, FiniteSetTheorems, TLAPS

Statuses == {"new", "open", "covered", "out", "dry_run_completed", "applied"}
MOST == TARGET + OVERSHOOT
DriveStates == [at : {"off", "pick", "drive", "done"}, ids : SUBSET Jobs, left : 0..MOST]
RunStates == [on : BOOLEAN, queue : SUBSET Jobs, canaries : 0..AllDry]

LEMMA Limits ==
    /\ TARGET \in Nat /\ OVERSHOOT \in Nat /\ MOST \in Nat
    /\ FirstN \in 0..AllDry /\ AllDry \in Nat /\ MaxDisturbances \in Nat
BY AutomationAssumption DEF MOST, AllDry

LEMMA Types ==
    TypeOK <=>
        /\ status \in [Jobs -> Statuses]
        /\ submitted \subseteq Jobs /\ sent \subseteq submitted /\ real \in Nat
        /\ producer \in {"count", "discover", "prepare"}
        /\ cycle \in {"off", "drive", "apply"}
        /\ drive \in [Drives -> DriveStates]
        /\ consumer \in [up : BOOLEAN, at : {"poll", "start"}]
        /\ run \in [1..2 -> RunStates]
        /\ disturbances \in 0..MaxDisturbances /\ cycles \in 0..MaxDisturbances
        /\ careless \in BOOLEAN
BY DEF TypeOK, Statuses, DriveStates, RunStates, MOST

LEMMA InitTypes == Init => TypeOK
<1> SUFFICES ASSUME Init PROVE TypeOK
  OBVIOUS
<1>1. Off \in RunStates /\ NoDrive \in DriveStates
  BY Limits DEF Off, NoDrive, RunStates, DriveStates
<1>2. run \in [1..2 -> RunStates] /\ drive \in [Drives -> DriveStates]
  BY <1>1 DEF Init
<1>3. status \in [Jobs -> Statuses]
  BY DEF Init, Statuses
<1>4. disturbances \in 0..MaxDisturbances /\ cycles \in 0..MaxDisturbances
  BY Limits DEF Init
<1> QED
  BY <1>2, <1>3, <1>4, Types DEF Init

\* New postings are on file: nothing is covered by it.
LEMMA FileTypes ==
    ASSUME TypeOK, NewOnFile
    PROVE  status' \in [Jobs -> Statuses] /\ In({"covered"})' \subseteq In({"covered"})
<1>1. PICK S \in SUBSET In({"new"}) :
         status' = [j \in Jobs |-> IF j \in S THEN "open" ELSE status[j]]
  BY DEF NewOnFile
<1>2. status' \in [Jobs -> Statuses]
  BY <1>1, Types DEF Statuses
<1>3. In({"covered"})' \subseteq In({"covered"})
  BY <1>1 DEF In
<1> QED
  BY <1>2, <1>3

\* Drives are put at another point.
LEMMA SetTypes ==
    ASSUME TypeOK, NEW D \in SUBSET Drives, NEW a \in {"off", "pick", "drive", "done"}
    PROVE  Set(D, a) \in [Drives -> DriveStates]
<1>1. [NoDrive EXCEPT !.at = a] \in DriveStates
  BY Limits DEF NoDrive, DriveStates
<1> QED
  BY <1>1, Types DEF Set

LEMMA SeatsAre ==
    /\ Producers \subseteq Drives /\ Cycles \subseteq Drives
    /\ Producers \intersect Cycles = {} /\ Drives = Producers \union Cycles
BY DEF Producers, Cycles, Drives

\* The steps of a drive keep the types.
LEMMA DriveTypes ==
    ASSUME TypeOK, NEW d \in Drives, Pick(d) \/ DriveJob(d) \/ EndDrive(d)
    PROVE  TypeOK'
<1>0. /\ status \in [Jobs -> Statuses] /\ drive \in [Drives -> DriveStates]
      /\ \A a \in {"off", "pick", "drive", "done"} : [NoDrive EXCEPT !.at = a] \in DriveStates
  BY Limits, Types DEF NoDrive, DriveStates
<1>1. UNCHANGED <<producer, cycle, cycles, applyVars>>
  BY DEF Pick, DriveJob, EndDrive
<1>2. ASSUME status' \in [Jobs -> Statuses], drive' \in [Drives -> DriveStates] PROVE TypeOK'
  BY <1>1, <1>2, Types DEF applyVars, sentVars, TypeOK, DriveStates, Statuses, MOST
<1>3. CASE Pick(d)
  <2>1. PICK ids \in SUBSET Jobs :
           drive' = [drive EXCEPT ![d] = IF ids = {} THEN [NoDrive EXCEPT !.at = "done"]
                                         ELSE [at |-> "drive", ids |-> ids, left |-> MOST]]
    BY <1>3 DEF Pick, Open, In, MOST
  <2>2. [at |-> "drive", ids |-> ids, left |-> MOST] \in DriveStates
    BY Limits DEF DriveStates
  <2>3. drive' \in [Drives -> DriveStates]
    BY <1>0, <2>1, <2>2
  <2>4. status' = status
    BY <1>3 DEF Pick
  <2> QED
    BY <1>0, <1>2, <2>3, <2>4
<1>4. CASE DriveJob(d)
  <2>1. drive[d] \in DriveStates /\ drive[d].left > 0 /\ drive[d].left \in 0..MOST
    BY <1>0, <1>4 DEF DriveJob, DriveStates
  <2>2. PICK j \in drive[d].ids, to \in Statuses, left \in {drive[d].left, drive[d].left - 1} :
           /\ status' = [status EXCEPT ![j] = to]
           /\ drive' = [drive EXCEPT ![d].ids = @ \ {j}, ![d].left = left]
    <3>1. PICK j \in drive[d].ids :
             \E to \in IF j \in Open THEN {"covered", "out", status[j]} ELSE {status[j]} :
                LET covers == j \in Open /\ to = "covered" IN
                /\ status' = [status EXCEPT ![j] = to]
                /\ drive' = [drive EXCEPT ![d].ids = @ \ {j},
                                          ![d].left = IF covers THEN @ - 1 ELSE @]
      BY <1>4 DEF DriveJob
    <3>2. j \in Jobs /\ status[j] \in Statuses
      BY <1>0, <2>1 DEF DriveStates
    <3> QED
      BY <3>1, <3>2 DEF Statuses
  <2>3. [drive[d] EXCEPT !.ids = @ \ {j}, !.left = left] \in DriveStates
    <3>1. left \in 0..MOST
      BY <2>1, <2>2, Limits
    <3> QED
      BY <2>1, <3>1 DEF DriveStates
  <2>4. drive' \in [Drives -> DriveStates] /\ status' \in [Jobs -> Statuses]
    BY <1>0, <2>2, <2>3
  <2> QED
    BY <1>2, <2>4
<1>5. CASE EndDrive(d)
  <2>1. drive' \in [Drives -> DriveStates] /\ status' = status
    BY <1>0, <1>5 DEF EndDrive
  <2> QED
    BY <1>0, <1>2, <2>1
<1> QED
  BY <1>3, <1>4, <1>5

\* The actions of the producer and of the cycle's rounds keep the types.
LEMMA ProduceTypes == TypeOK /\ (Produce \/ StartCycle \/ CycleVerifies) => TypeOK'
<1> SUFFICES ASSUME TypeOK, Produce \/ StartCycle \/ CycleVerifies PROVE TypeOK'
  OBVIOUS
<1> USE DEF applyVars, sentVars
<1>1. ASSUME Count PROVE TypeOK'
  BY <1>1, Types DEF Count, TypeOK
<1>2. ASSUME Discover PROVE TypeOK'
  <2>1. status' \in [Jobs -> Statuses] /\ drive' \in [Drives -> DriveStates]
    BY <1>2, FileTypes, SetTypes, SeatsAre DEF Discover
  <2> QED
    BY <1>2, <2>1, Types DEF Discover, TypeOK, Statuses, DriveStates, MOST
<1>3. ASSUME EndRound PROVE TypeOK'
  <2>1. drive' \in [Drives -> DriveStates]
    BY <1>3, SetTypes, SeatsAre DEF EndRound
  <2> QED
    BY <1>3, <2>1, Types DEF EndRound, TypeOK, DriveStates, MOST
<1>4. ASSUME StartCycle PROVE TypeOK'
  <2>1. status' \in [Jobs -> Statuses] /\ drive' \in [Drives -> DriveStates]
    BY <1>4, FileTypes, SetTypes, SeatsAre DEF StartCycle
  <2>2. cycles' \in 0..MaxDisturbances
    BY <1>4, Limits, Types DEF StartCycle
  <2> QED
    BY <1>4, <2>1, <2>2, Types DEF StartCycle, TypeOK, Statuses, DriveStates, MOST
<1>5. ASSUME CycleVerifies PROVE TypeOK'
  <2>1. drive' \in [Drives -> DriveStates]
    BY <1>5, SetTypes, SeatsAre DEF CycleVerifies
  <2>2. status' \in [Jobs -> Statuses]
    BY <1>5, Types DEF CycleVerifies, Statuses
  <2> QED
    BY <1>5, <2>1, <2>2, Types DEF CycleVerifies, TypeOK, Statuses, DriveStates, MOST
<1> QED
  BY <1>1, <1>2, <1>3, <1>4, <1>5, DriveTypes, SeatsAre DEF Produce

\* So do those of the apply runs.
LEMMA StartsTypes ==
    ASSUME TypeOK, NEW canaries \in 0..AllDry, Starts(canaries)
    PROVE  run' \in [1..2 -> RunStates]
<1>1. [on |-> TRUE, queue |-> In({"covered", "dry_run_completed"}), canaries |-> canaries]
          \in RunStates
  BY Limits DEF RunStates, In
<1> QED
  BY <1>1, Types DEF Starts

LEMMA ApplyTypes == TypeOK /\ (Apply \/ CycleApplies \/ HumanApplies) => TypeOK'
<1> SUFFICES ASSUME TypeOK, Apply \/ CycleApplies \/ HumanApplies PROVE TypeOK'
  OBVIOUS
<1>1. FirstN \in 0..AllDry /\ AllDry \in 0..AllDry
  BY Limits
<1>2. ASSUME StartApply PROVE TypeOK'
  <2>1. run' \in [1..2 -> RunStates]
    BY <1>1, <1>2, StartsTypes DEF StartApply
  <2>2. consumer' \in [up : BOOLEAN, at : {"poll", "start"}]
    BY <1>2, Types DEF StartApply
  <2> QED
    BY <1>2, <2>1, <2>2 DEF StartApply, TypeOK, RunStates, sentVars, makers
<1>3. ASSUME NEW canaries \in 0..AllDry, Beside(canaries)
      PROVE  /\ run' \in [1..2 -> RunStates] /\ careless' \in BOOLEAN
             /\ UNCHANGED <<status, sentVars, producer, cycles, drive, consumer>>
  <2>1. run' \in [1..2 -> RunStates]
    BY <1>3, StartsTypes DEF Beside
  <2> QED
    BY <1>3, <2>1, Types DEF Beside
<1>4. ASSUME CycleApplies PROVE TypeOK'
  <2>1. Beside(FirstN) /\ cycle' = "off" /\ disturbances' = disturbances
    BY <1>4 DEF CycleApplies
  <2> QED
    BY <1>1, <1>3, <2>1, Types DEF TypeOK, RunStates, sentVars
<1>5. ASSUME HumanApplies PROVE TypeOK'
  <2>1. PICK canaries \in 0..AllDry : Beside(canaries)
    BY <1>1, <1>5 DEF HumanApplies
  <2>2. disturbances' \in 0..MaxDisturbances /\ cycle' = cycle
    BY <1>5, Limits, Types DEF HumanApplies
  <2> QED
    BY <1>3, <2>1, <2>2, Types DEF TypeOK, RunStates, sentVars
<1>6. ASSUME NEW n \in 1..2, ApplyJob(n) PROVE TypeOK'
  <2>1. run[n] \in RunStates /\ \A j \in run[n].queue : j \in Jobs /\ status[j] \in Statuses
    BY Types DEF RunStates
  <2>2. PICK j \in run[n].queue, to \in Statuses :
           /\ status' = [status EXCEPT ![j] = to]
           /\ \/ sent' = sent /\ submitted' = submitted
              \/ sent' = sent \union {j} /\ submitted' = submitted \union {j}
           /\ real' \in {real, real + 1}
           /\ run' = [run EXCEPT ![n].queue = @ \ {j}, ![n].canaries = CanariesLeft(n)]
           /\ UNCHANGED <<makers, consumer, disturbances, careless>>
    BY <1>6, <2>1 DEF ApplyJob, Statuses
  <2>3. [run[n] EXCEPT !.queue = @ \ {j}, !.canaries = CanariesLeft(n)] \in RunStates
    <3>1. run[n].canaries \in 0..AllDry
      BY <2>1 DEF RunStates
    <3>2. CanariesLeft(n) \in 0..AllDry
      BY <3>1, Limits DEF CanariesLeft
    <3> QED
      BY <2>1, <3>2 DEF RunStates
  <2>4. run' \in [1..2 -> RunStates]
    BY <2>2, <2>3, Types
  <2>5. status' \in [Jobs -> Statuses] /\ submitted' \subseteq Jobs /\ sent' \subseteq submitted'
    BY <2>1, <2>2, Types
  <2>6. real' \in Nat
    BY <2>2, Types
  <2> QED
    BY <2>2, <2>4, <2>5, <2>6 DEF TypeOK, RunStates, Statuses, makers
<1>7. ASSUME NEW n \in 1..2, EndApply(n) PROVE TypeOK'
  <2>1. Off \in RunStates
    BY Limits DEF Off, RunStates
  <2>2. run' \in [1..2 -> RunStates]
    BY <1>7, <2>1, Types DEF EndApply
  <2> QED
    BY <1>7, <2>2 DEF EndApply, TypeOK, RunStates, sentVars, makers
<1> QED
  BY <1>2, <1>4, <1>5, <1>6, <1>7 DEF Apply

LEMMA NextTypes == TypeOK /\ [Next]_vars => TypeOK'
<1> SUFFICES ASSUME TypeOK, [Next]_vars PROVE TypeOK'
  OBVIOUS
<1>1. ASSUME Poll \/ Restart \/ KillConsumer PROVE TypeOK'
  <2>1. consumer' \in [up : BOOLEAN, at : {"poll", "start"}]
    <3>1. consumer \in [up : BOOLEAN, at : {"poll", "start"}]
      BY Types
    <3>2. \A b \in BOOLEAN, a \in {"poll", "start"} :
             /\ [consumer EXCEPT !.up = b] \in [up : BOOLEAN, at : {"poll", "start"}]
             /\ [consumer EXCEPT !.at = a] \in [up : BOOLEAN, at : {"poll", "start"}]
      BY <3>1
    <3>3. CASE Poll
      BY <3>2, <3>3 DEF Poll
    <3>4. CASE Restart
      BY <3>2, <3>4 DEF Restart
    <3>5. CASE KillConsumer
      BY <3>5 DEF KillConsumer
    <3> QED
      BY <1>1, <3>3, <3>4, <3>5
  <2>2. disturbances' \in 0..MaxDisturbances
    BY <1>1, Limits, Types DEF Poll, Restart, KillConsumer
  <2> QED
    BY <1>1, <2>1, <2>2 DEF Poll, Restart, KillConsumer, TypeOK, sentVars, makers
<1>2. ASSUME Tomorrow PROVE TypeOK'
  BY <1>2 DEF Tomorrow, makers, TypeOK
<1>3. ASSUME UNCHANGED vars PROVE TypeOK'
  BY <1>3 DEF vars, TypeOK
<1>4. ASSUME Cycle PROVE TypeOK'
  BY <1>4, ProduceTypes, ApplyTypes, DriveTypes, SeatsAre DEF Cycle
<1> QED
  BY <1>1, <1>2, <1>3, <1>4, ProduceTypes, ApplyTypes DEF Next

\* The loops keep their types.
THEOREM TypeCorrect == Spec => []TypeOK
BY InitTypes, NextTypes, PTL DEF Spec

-----------------------------------------------------------------------------
\* A consumer that is about to start a run has seen no other, one that is down is
\* about to do nothing, and the two places for a run are not both taken.
Alone ==
    /\ ~consumer.up => consumer.at = "poll"
    /\ careless \/ ( /\ ~(run[1].on /\ run[2].on)
                     /\ consumer.at = "start" => ~run[1].on /\ ~run[2].on )

LEMMA StartsOne ==
    ASSUME TypeOK, NEW canaries, Starts(canaries)
    PROVE  \E n \in 1..2 : \A m \in 1..2 : m # n => run'[m] = run[m]
<1>1. PICK n \in 1..2 :
         run' = [run EXCEPT ![n] = [on |-> TRUE, queue |-> In({"covered", "dry_run_completed"}),
                                    canaries |-> canaries]]
  BY DEF Starts
<1>2. \A m \in 1..2 : m # n => run'[m] = run[m]
  BY <1>1, Types
<1> QED
  BY <1>2

LEMMA BesideAlone == 
    ASSUME TypeOK, Alone, NEW canaries, Beside(canaries)
    PROVE  Alone'
<1>0. consumer \in [up : BOOLEAN, at : {"poll", "start"}] /\ UNCHANGED consumer
  BY Types DEF Beside
<1>1. PICK n \in 1..2 : \A m \in 1..2 : m # n => run'[m] = run[m]
  BY StartsOne DEF Beside
<1>2. CASE Applying # {} \/ (consumer.up /\ consumer.at = "start")
  <2>1. careless'
    BY <1>2 DEF Beside
  <2> QED
    BY <1>0, <2>1 DEF Alone
<1>3. CASE Applying = {} /\ ~(consumer.up /\ consumer.at = "start")
  <2>1. ~run[1].on /\ ~run[2].on
    BY <1>3 DEF Applying
  <2>2. consumer.at = "poll"
    BY <1>0, <1>3 DEF Alone
  <2> QED
    BY <1>0, <1>1, <2>1, <2>2 DEF Alone
<1> QED
  BY <1>2, <1>3

LEMMA AloneStep == TypeOK /\ Alone /\ [Next]_vars => Alone'
<1> SUFFICES ASSUME TypeOK, Alone, [Next]_vars PROVE Alone'
  OBVIOUS
<1>0. /\ run \in [1..2 -> RunStates] /\ consumer \in [up : BOOLEAN, at : {"poll", "start"}]
      /\ careless \in BOOLEAN /\ \A n \in 1..2 : run[n].on \in BOOLEAN
  BY Types DEF RunStates
<1>1. ASSUME UNCHANGED <<consumer, run, careless>> PROVE Alone'
  BY <1>1 DEF Alone
<1>2. ASSUME Produce \/ StartCycle \/ CycleVerifies \/ Tomorrow \/ UNCHANGED vars PROVE Alone'
  <2>1. UNCHANGED <<consumer, run, careless>>
    BY <1>2 DEF Produce, StartCycle, CycleVerifies, Tomorrow, vars, applyVars, Count, Discover,
                EndRound, Pick, DriveJob, EndDrive
  <2> QED
    BY <1>1, <2>1
<1>3. ASSUME Cycle PROVE Alone'
  <2>1. CASE CycleVerifies
    BY <1>2, <2>1
  <2>2. CASE CycleApplies
    BY <2>2, BesideAlone DEF CycleApplies
  <2>3. CASE \E d \in Cycles : Pick(d) \/ DriveJob(d) \/ EndDrive(d)
    BY <1>1, <2>3 DEF Pick, DriveJob, EndDrive, applyVars
  <2> QED
    BY <1>3, <2>1, <2>2, <2>3 DEF Cycle
<1>4. ASSUME HumanApplies PROVE Alone'
  BY <1>4, BesideAlone DEF HumanApplies
<1>5. ASSUME Poll PROVE Alone'
  <2>1. ~run[1].on /\ ~run[2].on
    BY <1>5 DEF Poll, Applying
  <2> QED
    BY <1>0, <1>5, <2>1 DEF Poll, Alone
<1>6. ASSUME Restart \/ KillConsumer PROVE Alone'
  BY <1>0, <1>6 DEF Restart, KillConsumer, Alone
<1>7. ASSUME StartApply PROVE Alone'
  <2>1. PICK n \in 1..2 : \A m \in 1..2 : m # n => run'[m] = run[m]
    BY <1>7, StartsOne DEF StartApply
  <2> QED
    BY <1>0, <1>7, <2>1 DEF StartApply, Alone
<1>8. ASSUME NEW n \in 1..2, ApplyJob(n) \/ EndApply(n) PROVE Alone'
  <2>1. /\ UNCHANGED <<consumer, careless>>
        /\ \A m \in 1..2 : run'[m].on => run[m].on
    BY <1>0, <1>8 DEF ApplyJob, EndApply, Off, RunStates
  <2> QED
    BY <2>1 DEF Alone
<1> QED
  BY <1>2, <1>3, <1>4, <1>5, <1>6, <1>7, <1>8 DEF Next, Apply

LEMMA AloneSuffices == TypeOK /\ Alone => OneApplyAtATime
<1> SUFFICES ASSUME TypeOK, Alone, ~careless PROVE Cardinality(Applying) <= 1
  BY DEF OneApplyAtATime
<1>1. PICK n \in 1..2 : Applying \subseteq {n}
  BY DEF Alone, Applying
<1>2. Cardinality({n}) = 1 /\ IsFiniteSet({n})
  BY FS_Singleton
<1> QED
  BY <1>1, <1>2, FS_Subset

\* Consumers that are killed and restarted under their runs never start a second one
\* beside one that goes on, however many jobs and drives there are; only cycle.sh does,
\* or a human.
THEOREM OneApply == Spec => []OneApplyAtATime
<1>1. Init => Alone
  BY DEF Init, Alone, Off
<1> QED
  BY <1>1, InitTypes, NextTypes, AloneStep, AloneSuffices, PTL DEF Spec

-----------------------------------------------------------------------------
(***************************************************************************)
(* The queue.  What the drives under way may still cover is counted as     *)
(* places: one for each job left of each drive's target and overshoot.  A  *)
(* round of the producer and a round of the cycle have equally many.       *)
(***************************************************************************)

Covered == In({"covered"})

\* What the drive may still cover.
May(d) == CASE drive[d].at = "pick" -> MOST
            [] drive[d].at = "drive" -> drive[d].left
            [] OTHER -> 0

Places(D) == D \X (1..MOST)
Room == {p \in Places(Drives) : p[2] <= May(p[1])}

Full == Cardinality(Covered) + Cardinality(Room)
Share == Cardinality(COUNTRIES) * MOST
Limit(n) == MAX_QUEUE + Share * n

Filling ==
    /\ producer # "prepare" => \A d \in Producers : drive[d].at = "off"
    /\ cycle # "drive" => \A d \in Cycles : drive[d].at = "off"
    /\ cycle = "drive" => cycles >= 1
    /\ producer = "discover" => Full < Limit(cycles)
    /\ Full < Limit(cycles + 1)

LEMMA PlacesAre ==
    /\ \A D \in {Producers, Cycles} : /\ IsFiniteSet(Places(D))
                                      /\ Cardinality(Places(D)) = Share
    /\ IsFiniteSet(Places(Drives))
    /\ Share \in Nat
<1>1. IsFiniteSet(1..MOST) /\ Cardinality(1..MOST) = MOST
  <2>1. 1 \in Int /\ MOST \in Int
    BY Limits
  <2> QED
    BY <2>1, Limits, FS_Interval
<1>2. IsFiniteSet(COUNTRIES) /\ Cardinality(COUNTRIES) \in Nat
  BY AutomationAssumption, FS_CardinalityType
<1>3. ASSUME NEW name, NEW D, D = {name} \X COUNTRIES
      PROVE  /\ IsFiniteSet(Places(D))
             /\ Cardinality(Places(D)) = Share
  <2>1. IsFiniteSet({name}) /\ Cardinality({name}) = 1
    BY FS_Singleton
  <2>2. IsFiniteSet(D) /\ Cardinality(D) = 1 * Cardinality(COUNTRIES)
    BY <1>2, <1>3, <2>1, FS_Product
  <2>3. Cardinality(D) = Cardinality(COUNTRIES)
    BY <1>2, <2>2
  <2>4. /\ IsFiniteSet(Places(D))
        /\ Cardinality(Places(D)) = Cardinality(D) * Cardinality(1..MOST)
    BY <1>1, <2>2, FS_Product DEF Places
  <2> QED
    BY <1>1, <2>3, <2>4 DEF Share
<1>4. \A D \in {Producers, Cycles} : IsFiniteSet(Places(D)) /\ Cardinality(Places(D)) = Share
  BY <1>3 DEF Producers, Cycles
<1>5. Places(Drives) = Places(Producers) \union Places(Cycles)
  BY DEF Places, Drives
<1>6. IsFiniteSet(Places(Drives))
  BY <1>4, <1>5, FS_Union
<1> QED
  BY <1>4, <1>6, FS_CardinalityType

\* The limit rises by one round's share.
LEMMA LimitRises ==
    ASSUME NEW n \in Nat
    PROVE  /\ Limit(n) \in Nat /\ Limit(n) >= MAX_QUEUE /\ MAX_QUEUE \in Nat \ {0}
           /\ Limit(n + 1) = Limit(n) + Share
           /\ n >= 1 => Limit(n) >= MAX_QUEUE + Share
<1>1. Share \in Nat /\ MAX_QUEUE \in Nat \ {0}
  BY PlacesAre, AutomationAssumption
<1>2. \A s \in Nat : /\ s * n \in Nat /\ s * (n + 1) = s * n + s
                     /\ n >= 1 => s * n >= s
  OBVIOUS
<1> QED
  BY <1>1, <1>2 DEF Limit

LEMMA Sizes ==
    /\ IsFiniteSet(Room) /\ Cardinality(Room) \in Nat
    /\ IsFiniteSet(Covered) /\ Cardinality(Covered) \in Nat
    /\ Full \in Nat
<1>1. Room \subseteq Places(Drives) /\ Covered \subseteq Jobs /\ IsFiniteSet(Jobs)
  BY AutomationAssumption DEF Room, Covered, In
<1>2. /\ IsFiniteSet(Room) /\ Cardinality(Room) \in Nat
      /\ IsFiniteSet(Covered) /\ Cardinality(Covered) \in Nat
  BY <1>1, PlacesAre, FS_Subset, FS_CardinalityType
<1> QED
  BY <1>2 DEF Full

\* Nothing is covered and no place is added.
LEMMA NoFuller ==
    ASSUME Covered' \subseteq Covered, Room' \subseteq Room
    PROVE  Full' <= Full /\ Full' \in Nat /\ Full \in Nat
<1>1. /\ Cardinality(Covered') <= Cardinality(Covered)
      /\ Cardinality(Room') <= Cardinality(Room)
      /\ Cardinality(Covered') \in Nat /\ Cardinality(Room') \in Nat
  BY Sizes, FS_Subset, FS_CardinalityType
<1> HIDE DEF Covered, Room
<1> QED
  BY <1>1, Sizes DEF Full

\* A round's drives begin: its share of places is added.
LEMMA RoundOpens ==
    ASSUME NEW D \in {Producers, Cycles}, drive' = Set(D, "pick"), Covered' \subseteq Covered
    PROVE  Full' <= Full + Share /\ Full' \in Nat /\ Full \in Nat
<1>1. \A d \in Drives \ D : May(d)' = May(d)
  BY DEF Set, May
<1>2. Room' \subseteq Room \union Places(D)
  BY <1>1 DEF Room, Places
<1>3. /\ IsFiniteSet(Room \union Places(D))
      /\ Cardinality(Room \union Places(D)) <= Cardinality(Room) + Share
  <2>1. IsFiniteSet(Room) /\ IsFiniteSet(Places(D)) /\ Cardinality(Places(D)) = Share
        /\ Cardinality(Room) \in Nat /\ Share \in Nat
    BY Sizes, PlacesAre
  <2>2. /\ IsFiniteSet(Room \union Places(D))
        /\ Cardinality(Room \union Places(D))
             = Cardinality(Room) + Share - Cardinality(Room \intersect Places(D))
    BY <2>1, FS_Union
  <2>3. Cardinality(Room \intersect Places(D)) \in Nat
    BY <2>1, FS_Intersection, FS_CardinalityType
  <2> QED
    BY <2>1, <2>2, <2>3
<1>4. /\ Cardinality(Covered') <= Cardinality(Covered)
      /\ Cardinality(Room') <= Cardinality(Room \union Places(D))
      /\ Cardinality(Covered') \in Nat /\ Cardinality(Room') \in Nat
      /\ Cardinality(Room \union Places(D)) \in Nat
  BY <1>2, <1>3, Sizes, FS_Subset, FS_CardinalityType
<1> HIDE DEF Covered, Room
<1> QED
  BY <1>3, <1>4, Sizes, PlacesAre DEF Full

\* A round's drives are put away.
LEMMA RoundCloses ==
    ASSUME NEW D \in {Producers, Cycles}, drive' = Set(D, "off")
    PROVE  /\ Room' \subseteq Room
           /\ \A d \in D : drive'[d].at = "off"
           /\ \A d \in Drives \ D : drive'[d] = drive[d]
<1>1. \A d \in D : drive'[d].at = "off"
  BY SeatsAre DEF Set, NoDrive
<1>2. \A d \in Drives \ D : drive'[d] = drive[d]
  BY DEF Set
<1>3. \A d \in D : May(d)' = 0
  BY <1>1 DEF May
<1>4. \A d \in Drives \ D : May(d)' = May(d)
  BY <1>2 DEF May
<1>5. Room' \subseteq Room
  <2> SUFFICES ASSUME NEW d \in Drives, NEW k \in 1..MOST, k <= May(d)'
               PROVE  k <= May(d)
    BY DEF Room, Places
  <2> QED
    BY <1>3, <1>4
<1> QED
  BY <1>1, <1>2, <1>5

\* A step of the others that covers nothing.
LEMMA FillingStays ==
    ASSUME TypeOK, Filling, UNCHANGED <<producer, cycle, cycles, drive>>,
           Covered' \subseteq Covered
    PROVE  Filling'
<1>1. Room' = Room
  BY DEF Room, May
<1>2. Full' <= Full /\ Full' \in Nat /\ Full \in Nat
  BY <1>1, NoFuller
<1>3. cycles \in Nat /\ Limit(cycles)' = Limit(cycles) /\ Limit(cycles + 1)' = Limit(cycles + 1)
  BY Types DEF Limit, Share
<1>4. Limit(cycles) \in Nat /\ Limit(cycles + 1) \in Nat
  BY <1>3, LimitRises
<1> HIDE DEF Full, Limit
<1> QED
  BY <1>2, <1>3, <1>4 DEF Filling

\* The steps of a drive: what it covers takes up a place.
LEMMA DriveFills ==
    ASSUME TypeOK, Filling, NEW d \in Drives, Pick(d) \/ DriveJob(d) \/ EndDrive(d)
    PROVE  Filling'
<1>0. /\ status \in [Jobs -> Statuses] /\ drive \in [Drives -> DriveStates] /\ cycles \in Nat
      /\ MOST \in Nat
  BY Types, Limits
<1>1. /\ UNCHANGED <<producer, cycle, cycles>> /\ drive[d].at # "off"
      /\ \A e \in Drives : e # d => drive'[e] = drive[e]
  BY <1>0 DEF Pick, DriveJob, EndDrive
<1>2. ASSUME Full' <= Full, Full' \in Nat PROVE Filling'
  <2>1. /\ d \in Producers => producer = "prepare"
        /\ d \in Cycles => cycle = "drive"
    BY <1>1 DEF Filling
  <2>2. /\ producer' # "prepare" => \A e \in Producers : drive'[e].at = "off"
        /\ cycle' # "drive" => \A e \in Cycles : drive'[e].at = "off"
    BY <1>1, <2>1, SeatsAre DEF Filling
  <2>3. Limit(cycles)' = Limit(cycles) /\ Limit(cycles + 1)' = Limit(cycles + 1)
    BY <1>1 DEF Limit, Share
  <2>4. Limit(cycles) \in Nat /\ Limit(cycles + 1) \in Nat /\ Full \in Nat
    BY <1>0, LimitRises, Sizes
  <2> HIDE DEF Full, Limit
  <2> QED
    BY <1>1, <1>2, <2>2, <2>3, <2>4 DEF Filling
<1>3. ASSUME Covered' \subseteq Covered, May(d)' <= May(d), May(d)' \in Nat, May(d) \in Nat
      PROVE  Filling'
  <2>1. \A e \in Drives : e # d => May(e)' = May(e)
    BY <1>1 DEF May
  <2>2. Room' \subseteq Room
    <3> SUFFICES ASSUME NEW e \in Drives, NEW k \in 1..MOST, k <= May(e)'
                 PROVE  k <= May(e)
      BY DEF Room, Places
    <3>1. CASE e = d
      BY <1>3, <3>1
    <3>2. CASE e # d
      BY <2>1, <3>2
    <3> QED
      BY <3>1, <3>2
  <2> QED
    BY <1>2, <1>3, <2>2, NoFuller
<1>4. ASSUME Pick(d) PROVE Filling'
  <2>1. drive[d].at = "pick" /\ UNCHANGED status
    BY <1>4 DEF Pick
  <2>2. \/ drive'[d].at = "done"
        \/ drive'[d].at = "drive" /\ drive'[d].left = MOST
    BY <1>0, <1>4 DEF Pick, NoDrive, MOST
  <2>3. Covered' = Covered
    BY <2>1 DEF Covered, In
  <2>4. May(d) = MOST /\ May(d)' \in {0, MOST}
    BY <2>1, <2>2 DEF May
  <2> QED
    BY <1>0, <1>3, <2>3, <2>4
<1>5. ASSUME EndDrive(d) PROVE Filling'
  <2>1. UNCHANGED status /\ drive[d].at = "drive" /\ drive[d].left \in Nat
    BY <1>0, <1>5 DEF EndDrive, DriveStates
  <2>2. drive'[d].at = "done"
    BY <1>0, <1>5 DEF EndDrive, NoDrive
  <2>3. Covered' = Covered
    BY <2>1 DEF Covered, In
  <2>4. May(d) \in Nat /\ May(d)' = 0
    BY <2>1, <2>2 DEF May
  <2> QED
    BY <1>3, <2>3, <2>4
<1>6. ASSUME DriveJob(d) PROVE Filling'
  <2>1. PICK j \in drive[d].ids :
           \E to \in IF j \in Open THEN {"covered", "out", status[j]} ELSE {status[j]} :
              LET covers == j \in Open /\ to = "covered" IN
              /\ status' = [status EXCEPT ![j] = to]
              /\ drive' = [drive EXCEPT ![d].ids = @ \ {j},
                                        ![d].left = IF covers THEN @ - 1 ELSE @]
    BY <1>6 DEF DriveJob
  <2>2. PICK to \in IF j \in Open THEN {"covered", "out", status[j]} ELSE {status[j]} :
              /\ status' = [status EXCEPT ![j] = to]
              /\ drive' = [drive EXCEPT ![d].ids = @ \ {j},
                             ![d].left = IF j \in Open /\ to = "covered" THEN @ - 1 ELSE @]
    BY <2>1
  <2>3. /\ drive[d] \in DriveStates /\ drive[d].at = "drive" /\ drive[d].left > 0
        /\ drive[d].left \in 1..MOST
    <3>1. drive[d] \in DriveStates /\ drive[d].at = "drive" /\ drive[d].left > 0
      BY <1>0, <1>6 DEF DriveJob
    <3>2. drive[d].left \in 0..MOST
      BY <3>1 DEF DriveStates
    <3> QED
      BY <1>0, <3>1, <3>2
  <2>4. drive'[d].at = "drive"
        /\ drive'[d].left = IF j \in Open /\ to = "covered" THEN drive[d].left - 1
                            ELSE drive[d].left
    BY <1>0, <2>2, <2>3 DEF DriveStates
  <2>5. May(d) = drive[d].left /\ May(d)' = drive'[d].left
    BY <2>3, <2>4 DEF May
  <2>6. j \in Jobs
    BY <2>3 DEF DriveStates
  <2>7. CASE ~(j \in Open /\ to = "covered")
    <3>1. Covered' \subseteq Covered
      BY <1>0, <2>2, <2>6, <2>7 DEF Covered, In, Open
    <3> QED
      BY <1>3, <2>3, <2>4, <2>5, <2>7, <3>1
  <2>8. CASE j \in Open /\ to = "covered"
    <3>1. Covered' = Covered \union {j} /\ j \notin Covered
      BY <1>0, <2>2, <2>6, <2>8 DEF Covered, In, Open
    <3>2. Cardinality(Covered') = Cardinality(Covered) + 1
      BY <3>1, Sizes, FS_AddElement
    <3> DEFINE place == <<d, drive[d].left>>
    <3>3. place \in Room
      BY <2>3, <2>5 DEF Room, Places
    <3>4. Room' \subseteq Room \ {place}
      <4> SUFFICES ASSUME NEW e \in Drives, NEW k \in 1..MOST, k <= May(e)'
                   PROVE  k <= May(e) /\ <<e, k>> # place
        BY DEF Room, Places
      <4>1. CASE e = d
        <5>1. k <= drive[d].left - 1
          BY <2>4, <2>5, <2>8, <4>1
        <5>2. k <= drive[d].left /\ k # drive[d].left
          BY <2>3, <5>1
        <5> QED
          BY <2>5, <4>1, <5>2
      <4>2. CASE e # d
        <5>1. May(e)' = May(e)
          BY <1>1, <4>2 DEF May
        <5> QED
          BY <4>2, <5>1
      <4> QED
        BY <4>1, <4>2
    <3>5. IsFiniteSet(Room \ {place}) /\ Cardinality(Room \ {place}) = Cardinality(Room) - 1
      BY <3>3, Sizes, FS_RemoveElement
    <3>6. Cardinality(Room') <= Cardinality(Room) - 1 /\ Cardinality(Room') \in Nat
      BY <3>4, <3>5, FS_Subset, FS_CardinalityType
    <3>7. Full' <= Full /\ Full' \in Nat
      <4> HIDE DEF Covered, Room, place
      <4> QED
        BY <3>2, <3>6, Sizes DEF Full
    <3> QED
      BY <1>2, <3>7
  <2> QED
    BY <2>7, <2>8
<1> QED
  BY <1>4, <1>5, <1>6

\* The producer looks, and starts a round with room for its share.
LEMMA ProduceFills == TypeOK /\ Filling /\ Produce => Filling'
<1> SUFFICES ASSUME TypeOK, Filling, Produce PROVE Filling'
  OBVIOUS
<1>0. /\ cycles \in Nat /\ Share \in Nat
      /\ Limit(cycles) \in Nat /\ Limit(cycles + 1) \in Nat
      /\ Limit(cycles + 1) = Limit(cycles) + Share
  BY Types, LimitRises, PlacesAre
<1>1. ASSUME Count PROVE Filling'
  <2>1. Covered \subseteq In(Counted) /\ In(Counted) \subseteq Jobs
    BY AutomationAssumption DEF Covered, In
  <2>2. IsFiniteSet(In(Counted)) /\ Cardinality(In(Counted)) \in Nat
        /\ Cardinality(Covered) <= Cardinality(In(Counted))
    BY <2>1, AutomationAssumption, FS_Subset, FS_CardinalityType
  <2>3. Cardinality(In(Counted)) < MAX_QUEUE /\ producer' = "discover"
        /\ producer = "count" /\ UNCHANGED <<status, drive, cycle, cycles>>
    BY <1>1 DEF Count
  <2>4. Covered' = Covered /\ Room' = Room
    BY <2>3 DEF Covered, In, Room, May
  <2>5. Cardinality(Covered) < MAX_QUEUE
    BY <2>2, <2>3, Sizes, AutomationAssumption
  <2>6. Full < Limit(cycles)
    <3>1. \A d \in Producers : May(d) = 0
      BY <2>3 DEF Filling, May
    <3>2. CASE cycle = "drive"
      <4>1. Room \subseteq Places(Cycles)
        BY <3>1, SeatsAre DEF Room, Places
      <4>2. Cardinality(Room) <= Share
        BY <4>1, PlacesAre, FS_Subset
      <4>3. Limit(cycles) >= MAX_QUEUE + Share
        BY <1>0, <3>2, LimitRises DEF Filling
      <4> HIDE DEF Covered, Room
      <4> QED
        BY <1>0, <2>5, <4>2, <4>3, Sizes, AutomationAssumption DEF Full
    <3>3. CASE cycle # "drive"
      <4>1. \A d \in Drives : May(d) = 0
        BY <3>1, <3>3, SeatsAre DEF Filling, May
      <4>2. Room = {}
        BY <4>1 DEF Room, Places
      <4>3. Cardinality(Room) = 0
        BY <4>2, FS_EmptySet
      <4>4. Limit(cycles) >= MAX_QUEUE
        BY <1>0, LimitRises
      <4> HIDE DEF Covered, Room
      <4> QED
        BY <1>0, <2>5, <4>3, <4>4, Sizes, AutomationAssumption DEF Full
    <3> QED
      BY <3>2, <3>3
  <2>7. Full' = Full /\ Limit(cycles)' = Limit(cycles) /\ Limit(cycles + 1)' = Limit(cycles + 1)
    BY <2>3, <2>4 DEF Full, Limit, Share
  <2>8. /\ \A d \in Producers : drive'[d].at = "off"
        /\ cycle' # "drive" => \A d \in Cycles : drive'[d].at = "off"
        /\ cycle' = "drive" => cycles' >= 1
    BY <2>3 DEF Filling
  <2> HIDE DEF Full, Limit
  <2> QED
    BY <2>3, <2>6, <2>7, <2>8 DEF Filling
<1>2. ASSUME Discover PROVE Filling'
  <2>1. Covered' \subseteq Covered
    BY <1>2, FileTypes DEF Discover, Covered
  <2>2. Full' <= Full + Share /\ Full' \in Nat /\ Full \in Nat
    BY <1>2, <2>1, RoundOpens DEF Discover
  <2>3. /\ Full < Limit(cycles) /\ producer' = "prepare" /\ UNCHANGED <<cycle, cycles>>
    BY <1>2 DEF Discover, Filling
  <2>4. Limit(cycles + 1)' = Limit(cycles + 1)
    BY <2>3 DEF Limit, Share
  <2>5. \A d \in Cycles : drive'[d] = drive[d]
    BY <1>2, SeatsAre DEF Discover, Set
  <2>6. cycle' # "drive" => \A d \in Cycles : drive'[d].at = "off"
    BY <2>3, <2>5 DEF Filling
  <2>7. Full' < Limit(cycles + 1)'
    BY <1>0, <2>2, <2>3, <2>4
  <2> HIDE DEF Full, Limit
  <2> QED
    BY <2>3, <2>6, <2>7 DEF Filling
<1>3. ASSUME EndRound PROVE Filling'
  <2>1. UNCHANGED <<status, cycle, cycles>> /\ producer' = "count" /\ drive' = Set(Producers, "off")
    BY <1>3 DEF EndRound
  <2>2. Covered' = Covered
    BY <2>1 DEF Covered, In
  <2>3. /\ Room' \subseteq Room /\ \A d \in Producers : drive'[d].at = "off"
        /\ \A d \in Cycles : drive'[d] = drive[d]
    BY <2>1, RoundCloses, SeatsAre
  <2>4. Full' <= Full /\ Full' \in Nat /\ Full \in Nat
    BY <2>2, <2>3, NoFuller
  <2>5. Limit(cycles + 1)' = Limit(cycles + 1)
    BY <2>1 DEF Limit, Share
  <2>6. cycle' # "drive" => \A d \in Cycles : drive'[d].at = "off"
    BY <2>1, <2>3 DEF Filling
  <2>7. Full < Limit(cycles + 1)
    BY DEF Filling
  <2>8. Full' < Limit(cycles + 1)'
    BY <1>0, <2>4, <2>5, <2>7
  <2> HIDE DEF Full, Limit
  <2> QED
    BY <2>1, <2>3, <2>6, <2>8 DEF Filling
<1> QED
  BY <1>1, <1>2, <1>3, DriveFills, SeatsAre DEF Produce

\* A round of the cycle adds its share whatever the queue.
LEMMA CycleFills == TypeOK /\ Filling /\ (StartCycle \/ CycleVerifies) => Filling'
<1> SUFFICES ASSUME TypeOK, Filling, StartCycle \/ CycleVerifies PROVE Filling'
  OBVIOUS
<1>0. /\ cycles \in Nat /\ Share \in Nat
      /\ Limit(cycles) \in Nat /\ Limit(cycles + 1) \in Nat
      /\ Limit(cycles + 1) = Limit(cycles) + Share
      /\ Limit(cycles + 1 + 1) = Limit(cycles + 1) + Share
  BY Types, LimitRises, PlacesAre
<1>1. ASSUME StartCycle PROVE Filling'
  <2>1. Covered' \subseteq Covered
    BY <1>1, FileTypes DEF StartCycle, Covered
  <2>2. Full' <= Full + Share /\ Full' \in Nat /\ Full \in Nat
    BY <1>1, <2>1, RoundOpens DEF StartCycle
  <2>3. cycles' = cycles + 1 /\ cycle' = "drive" /\ producer' = producer
    BY <1>1 DEF StartCycle
  <2>4. Limit(cycles)' = Limit(cycles + 1) /\ Limit(cycles + 1)' = Limit(cycles + 1 + 1)
    BY <2>3 DEF Limit, Share
  <2>5. \A d \in Producers : drive'[d] = drive[d]
    BY <1>1, SeatsAre DEF StartCycle, Set
  <2>6. producer' # "prepare" => \A d \in Producers : drive'[d].at = "off"
    BY <2>3, <2>5 DEF Filling
  <2>7. producer = "discover" => Full < Limit(cycles)
    BY DEF Filling
  <2>8. Full < Limit(cycles + 1)
    BY DEF Filling
  <2>9. /\ producer' = "discover" => Full' < Limit(cycles)'
        /\ Full' < Limit(cycles + 1)'
    <3> HIDE DEF Full, Limit
    <3> QED
      BY <1>0, <2>2, <2>3, <2>4, <2>7, <2>8
  <2>10. cycles' >= 1
    BY <1>0, <2>3
  <2> HIDE DEF Full, Limit
  <2> QED
    BY <2>3, <2>6, <2>9, <2>10 DEF Filling
<1>2. ASSUME CycleVerifies PROVE Filling'
  <2>1. UNCHANGED <<producer, cycles>> /\ cycle' = "apply" /\ drive' = Set(Cycles, "off")
    BY <1>2 DEF CycleVerifies
  <2>2. Covered' \subseteq Covered
    BY <1>2 DEF CycleVerifies, Covered, In
  <2>3. /\ Room' \subseteq Room /\ \A d \in Cycles : drive'[d].at = "off"
        /\ \A d \in Producers : drive'[d] = drive[d]
    BY <2>1, RoundCloses, SeatsAre
  <2>4. Full' <= Full /\ Full' \in Nat /\ Full \in Nat
    BY <2>2, <2>3, NoFuller
  <2>5. Limit(cycles)' = Limit(cycles) /\ Limit(cycles + 1)' = Limit(cycles + 1)
    BY <2>1 DEF Limit, Share
  <2>6. producer' # "prepare" => \A d \in Producers : drive'[d].at = "off"
    BY <2>1, <2>3 DEF Filling
  <2>7. /\ producer = "discover" => Full < Limit(cycles)
        /\ Full < Limit(cycles + 1)
    BY DEF Filling
  <2>8. /\ producer' = "discover" => Full' < Limit(cycles)'
        /\ Full' < Limit(cycles + 1)'
    <3> HIDE DEF Full, Limit
    <3> QED
      BY <1>0, <2>1, <2>4, <2>5, <2>7
  <2> HIDE DEF Full, Limit
  <2> QED
    BY <2>1, <2>3, <2>6, <2>8 DEF Filling
<1> QED
  BY <1>1, <1>2

LEMMA NextFills == TypeOK /\ Filling /\ [Next]_vars => Filling'
<1> SUFFICES ASSUME TypeOK, Filling, [Next]_vars PROVE Filling'
  OBVIOUS
<1>1. ASSUME UNCHANGED <<producer, cycle, cycles, drive, status>> PROVE Filling'
  <2>1. Covered' = Covered
    BY <1>1 DEF Covered, In
  <2> QED
    BY <1>1, <2>1, FillingStays
<1>2. ASSUME NEW n \in 1..2, ApplyJob(n) PROVE Filling'
  <2>1. /\ status \in [Jobs -> Statuses] /\ run[n].queue \subseteq Jobs
        /\ UNCHANGED <<producer, cycle, cycles, drive>>
    BY <1>2, Types DEF ApplyJob, RunStates, makers
  <2>2. PICK j \in run[n].queue :
           \E to \in {status[j], "out", "dry_run_completed", "applied"} :
              status' = [status EXCEPT ![j] = to]
    BY <1>2 DEF ApplyJob
  <2>3. Covered' \subseteq Covered
    BY <2>1, <2>2 DEF Covered, In
  <2> QED
    BY <2>1, <2>3, FillingStays
<1>3. ASSUME CycleApplies \/ HumanApplies PROVE Filling'
  <2>1. /\ UNCHANGED <<producer, cycles, drive, status>>
        /\ cycle' # cycle => cycle = "apply" /\ cycle' = "off"
    BY <1>3 DEF CycleApplies, HumanApplies, Beside
  <2>2. CASE cycle' = cycle
    BY <1>1, <2>1, <2>2
  <2>3. CASE cycle' # cycle
    <3>1. Full' = Full /\ Limit(cycles)' = Limit(cycles)
          /\ Limit(cycles + 1)' = Limit(cycles + 1)
      BY <2>1 DEF Full, Covered, In, Room, May, Limit, Share
    <3> HIDE DEF Full, Limit
    <3> QED
      BY <2>1, <2>3, <3>1 DEF Filling
  <2> QED
    BY <2>2, <2>3
<1>4. ASSUME Cycle PROVE Filling'
  BY <1>3, <1>4, CycleFills, DriveFills, SeatsAre DEF Cycle
<1>5. ASSUME Poll \/ StartApply \/ KillConsumer \/ Restart \/ Tomorrow \/ UNCHANGED vars
      PROVE  Filling'
  BY <1>1, <1>5 DEF Poll, StartApply, KillConsumer, Restart, Tomorrow, makers, vars
<1>6. ASSUME NEW n \in 1..2, EndApply(n) PROVE Filling'
  BY <1>1, <1>6 DEF EndApply, makers
<1> QED
  BY <1>2, <1>3, <1>4, <1>5, <1>6, ProduceFills, CycleFills DEF Next, Apply

\* The producer never runs the queue away from the consumer by more than what one
\* round's drives may cover, overshoot included, and as much again for each round of the
\* cycle, whichever jobs the apply runs leave where they are.
THEOREM BoundedQueue == Spec => []QueueIsBounded
<1>1. Init => Filling
  <2> SUFFICES ASSUME Init PROVE Filling
    OBVIOUS
  <2>1. /\ Covered = {} /\ Room = {} /\ producer = "count" /\ cycle = "off" /\ cycles = 0
        /\ \A d \in Drives : drive[d].at = "off"
    BY DEF Init, Covered, In, NoDrive, Room, May, Places
  <2>2. Cardinality(Covered) = 0 /\ Cardinality(Room) = 0
    BY <2>1, FS_EmptySet
  <2>3. Full = 0
    BY <2>2 DEF Full
  <2>4. Limit(cycles + 1) >= MAX_QUEUE /\ Limit(cycles + 1) \in Nat /\ MAX_QUEUE \in Nat \ {0}
    <3>1. cycles + 1 \in Nat
      BY <2>1
    <3> QED
      BY <3>1, LimitRises
  <2>5. Full < Limit(cycles + 1)
    <3> HIDE DEF Full, Limit
    <3> QED
      BY <2>3, <2>4
  <2> HIDE DEF Full, Limit
  <2> QED
    BY <2>1, <2>5, SeatsAre DEF Filling
<1>2. TypeOK /\ Filling => QueueIsBounded
  <2> SUFFICES ASSUME TypeOK, Filling PROVE QueueIsBounded
    OBVIOUS
  <2>1. cycles \in Nat /\ Limit(cycles + 1) \in Nat
    BY Types, LimitRises
  <2>2. Cardinality(Covered) < Limit(cycles + 1)
    <3>1. Full < Limit(cycles + 1)
      BY DEF Filling
    <3> HIDE DEF Covered, Room, Limit
    <3> QED
      BY <2>1, <3>1, Sizes DEF Full
  <2>3. Limit(cycles + 1)
          = MAX_QUEUE + Cardinality(COUNTRIES) * (TARGET + OVERSHOOT) * (1 + cycles)
    <3>1. cycles + 1 = 1 + cycles
      BY <2>1
    <3> QED
      BY <3>1 DEF Limit, Share, MOST
  <2> QED
    BY <2>2, <2>3 DEF QueueIsBounded, Covered
<1> QED
  BY <1>1, <1>2, InitTypes, NextTypes, NextFills, PTL DEF Spec
=============================================================================
