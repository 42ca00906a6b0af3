---------------------------- MODULE TimelyProofs -----------------------------
(***************************************************************************)
(* Proofs, for any modules and for any durations that satisfy the two      *)
(* assumptions of TimelyHeartbeat, that neither side of the handshake      *)
(* gives a healthy other side up, and that each notices in time when the   *)
(* other has failed.                                                       *)
(***************************************************************************)
EXTENDS Deadlines, HeartbeatProofs

LEMMA TimelyIsNext == [TimelyNext]_vars => [Next]_vars
BY DEF TimelyNext, Step, TimelyTick, Next

\* The durations, module by module.
LEMMA Durations ==
    ASSUME NEW m \in Modules
    PROVE  /\ MaxBoot[m] \in Nat /\ MaxInit[m] \in Nat /\ MaxWork[m] \in Nat
           /\ MaxRest[m] \in Nat /\ BeatTimeout[m] \in Nat
           /\ PMTimeout \in Nat /\ FirstTimeout \in Nat
           /\ MaxSettle \in Nat /\ MaxPoll \in Nat
BY DurationsAssumption

\* AnswerIn, state by state.
LEMMA AnswerInFacts ==
    ASSUME NEW p \in Procs
    PROVE  LET m == Image(p) IN
           /\ pc[p] = "load" => AnswerIn(p) = MaxBoot[m] + MaxInit[m] + MaxWork[m]
           /\ pc[p] = "boot" => AnswerIn(p) = nap[p] + MaxInit[m] + MaxWork[m]
           /\ pc[p] = "test" => AnswerIn(p) = nap[p] + MaxWork[m]
           /\ pc[p] = "check" => AnswerIn(p) = MaxWork[m]
           /\ pc[p] = "work" => AnswerIn(p) = nap[p]
           /\ pc[p] = "beat" => AnswerIn(p) = 0
           /\ pc[p] = "rearm" => AnswerIn(p) = MaxRest[m] + MaxWork[m]
           /\ pc[p] = "dead" => AnswerIn(p) = 0
BY DEF AnswerIn

\* An answer is never further away than the manager's timer.
LEMMA AnswerInBound ==
    ASSUME TypeOK, NapsBounded, NEW p \in Procs
    PROVE  AnswerIn(p) \in Nat /\ AnswerIn(p) <= PMTimeout
<1> DEFINE m == Image(p)
<1>0. m \in Modules /\ nap[p] \in Nat /\ pc[p] \in PCs
  BY ProcFacts DEF TypeOK, PCs
<1>1. /\ MaxBoot[m] + MaxInit[m] + MaxWork[m] <= PMTimeout
      /\ MaxRest[m] + MaxWork[m] <= PMTimeout
  BY <1>0, AnswerAssumption
<1>2. /\ pc[p] = "boot" => nap[p] <= MaxBoot[m]
      /\ pc[p] = "work" => nap[p] <= MaxWork[m]
      /\ pc[p] = "test" => nap[p] <= MaxRest[m] \/ nap[p] <= MaxInit[m]
  BY DEF NapsBounded
<1> QED BY <1>0, <1>1, <1>2, Durations, AnswerInFacts DEF PCs

\* LowersIn never exceeds a round's or the first Sleep.
LEMMA LowersInBound ==
    ASSUME TypeOK, NapsBounded, NEW m \in Modules
    PROVE  /\ LowersIn(m) \in Nat
           /\ LowersIn(m) <= MaxSettle \/ LowersIn(m) <= MaxPoll
           /\ ~Settling => LowersIn(m) <= MaxPoll
BY Durations DEF LowersIn, NapsBounded, TypeOK, Settling

(***************************************************************************)
(* The parts of the invariant, one by one.                                 *)
(***************************************************************************)
LEMMA TimelyInit == Init => TimelyInv
<1> SUFFICES ASSUME Init PROVE TimelyInv
  OBVIOUS
<1>1. AnswersInTime /\ LowersInTime
  BY DEF Init, AnswersInTime, LowersInTime
<1>2. NapsBounded
  BY DurationsAssumption DEF Init, NapsBounded
<1>3. NothingAsked /\ LateIsFaulty /\ NoFalseAlarm
  BY DEF Init, NothingAsked, LateIsFaulty, NoFalseAlarm
<1>4. AllCreated
  BY DEF Init, AllCreated
<1>5. HealthyRun
  BY ProcFacts DEF Init, HealthyRun
<1> QED BY <1>1, <1>2, <1>3, <1>4, <1>5 DEF TimelyInv

LEMMA NapsNext ==
    ASSUME TypeOK, NapsBounded, [TimelyNext]_vars
    PROVE  NapsBounded'
<1> DEFINE PMPart == /\ pmNap <= MaxSettle \/ pmNap <= MaxPoll
                     /\ pmNap > 0 => pm = "poll"
                     /\ pm = "poll" => idx = 1
           ProcPart(p) ==
              /\ pc[p] \in {"load", "check", "beat", "rearm", "dead"} => nap[p] = 0
              /\ pc[p] = "boot" => nap[p] <= MaxBoot[Image(p)]
              /\ pc[p] = "work" => nap[p] <= MaxWork[Image(p)]
              /\ pc[p] = "test" => nap[p] <= MaxRest[Image(p)] \/ nap[p] <= MaxInit[Image(p)]
<1>0. Startup[idx] \in Modules /\ pmNap \in Nat /\ MaxSettle \in Nat /\ MaxPoll \in Nat
  BY IndexFacts, DurationsAssumption DEF TypeOK
<1>1. CASE Manager \/ KeyHit \/ ManagerDies
  <2>1. \A p \in Procs : ProcPart(p)'
    <3>1. CASE UNCHANGED <<pc, nap>>
      BY <3>1 DEF NapsBounded
    <3>2. ASSUME NEW m \in Modules, Creates(m) PROVE \A p \in Procs : ProcPart(p)'
      <4>1. PICK s \in Slots : /\ ~Alive(<<m, s>>)
                              /\ pc' = [pc EXCEPT ![<<m, s>>] = "load"]
                              /\ nap' = nap
        BY <3>2 DEF Creates
      <4> QED BY <4>1, ProcFacts DEF NapsBounded, TypeOK, Alive
    <3>3. nap' = nap
      BY <1>1 DEF Manager, Create, Restart, Start, Launch, CreateMapping, Poll, ReadBeat, ResetBeat,
            ArmTimer, StillWaiting, FailCritical, Kill, KeyHit, ManagerDies, Stop, procVars
    <3> QED BY <1>1, <3>1, <3>2, <3>3, ManagerEffect
  <2>2. PMPart'
    <3>1. CASE Create \/ Restart
      BY <1>0, <3>1 DEF Create, Restart, Start, Stop, NapsBounded
    <3>2. CASE CreateMapping
      BY <1>0, <3>2 DEF CreateMapping, NapsBounded
    <3>3. CASE Poll \/ ReadBeat \/ ResetBeat \/ Kill
      BY <1>0, <3>3 DEF Poll, ReadBeat, ResetBeat, Kill, NapsBounded
    <3>4. CASE ArmTimer \/ StillWaiting
      BY <1>0, <3>4 DEF ArmTimer, StillWaiting, NextModule
    <3>5. CASE FailCritical \/ KeyHit \/ ManagerDies
      BY <1>0, <3>5 DEF FailCritical, KeyHit, ManagerDies, Stop
    <3> QED BY <1>1, <3>1, <3>2, <3>3, <3>4, <3>5 DEF Manager
  <2> QED BY <2>1, <2>2 DEF NapsBounded
<1>2. ASSUME NEW p \in Procs, Process(p) \/ Environment(p) PROVE NapsBounded'
  <2>1. PMPart'
    BY <1>2, ProcessEffect DEF pmVars, NapsBounded
  <2>2. ProcPart(p)'
    <3>0. Image(p) \in Modules /\ pc \in [Procs -> PCs] /\ nap \in [Procs -> Nat]
      BY ProcFacts DEF TypeOK, PCs
    <3>1. Gone(p) => ProcPart(p)'
      BY <3>0 DEF Gone
    <3>2. EndTurn(p) => ProcPart(p)'
      <4>1. CASE p \in leaving
        BY <3>1, <4>1 DEF EndTurn
      <4>2. CASE p \notin leaving
        BY <3>0, <4>2, Durations DEF EndTurn
      <4> QED BY <4>1, <4>2
    <3>3. CASE Load(p) \/ Boot(p)
      BY <3>0, <3>3, Durations DEF Load, Boot, Moves
    <3>4. CASE TestTimer(p) \/ TestFrame(p)
      BY <3>0, <3>1, <3>4 DEF TestTimer, TestFrame, Moves
    <3>5. CASE CheckBeat(p)
      BY <3>0, <3>1, <3>2, <3>5, Durations DEF CheckBeat, NapsBounded
    <3>6. CASE Work(p) \/ Beat(p)
      BY <3>0, <3>6 DEF Work, Beat, Moves, NapsBounded
    <3>7. CASE Rearm(p)
      BY <3>2, <3>7 DEF Rearm
    <3>8. CASE NullFault(p) \/ Dies(p) \/ Crash(p)
      BY <3>1, <3>8 DEF NullFault, Dies, Crash
    <3>9. CASE BadFrame(p) \/ Stall(p) \/ Answer(p)
      BY <3>9 DEF BadFrame, Stall, Answer, NapsBounded
    <3> QED BY <1>2, <3>3, <3>4, <3>5, <3>6, <3>7, <3>8, <3>9 DEF Process, Environment
  <2>3. \A q \in Procs : q # p => pc'[q] = pc[q] /\ nap'[q] = nap[q]
    <3>1. \A q \in Procs : q # p => pc'[q] = pc[q]
      BY <1>2, ProcessEffect DEF TypeOK
    <3>2. nap' = nap \/ \E d : nap' = [nap EXCEPT ![p] = d]
      BY <1>2 DEF Process, Environment, Load, Boot, TestTimer, TestFrame, CheckBeat, EndTurn, Work,
              Beat, Rearm, NullFault, Dies, Crash, BadFrame, Stall, Answer, Gone
    <3> QED BY <3>1, <3>2 DEF TypeOK
  <2>4. \A q \in Procs : ProcPart(q)'
    BY <2>2, <2>3 DEF NapsBounded
  <2> QED BY <2>1, <2>4 DEF NapsBounded
<1>3. CASE Tick
  <2>1. PMPart'
    BY <1>0, <1>3 DEF Tick, Elapse, NapsBounded
  <2>2. ASSUME NEW p \in Procs PROVE ProcPart(p)'
    <3>1. /\ nap[p] \in Nat /\ nap'[p] = Elapse(nap[p]) /\ pc'[p] = pc[p]
          /\ Image(p) \in Modules
      BY <1>3, ProcFacts DEF Tick, TypeOK
    <3> QED BY <3>1, Durations DEF Elapse, NapsBounded
  <2> QED BY <2>1, <2>2 DEF NapsBounded
<1>4. CASE UNCHANGED vars
  BY <1>4 DEF vars, pmVars, procVars, NapsBounded
<1> QED BY <1>1, <1>2, <1>3, <1>4 DEF TimelyNext, Step, TimelyTick, Done

LEMMA AskedNext ==
    ASSUME TypeOK, NapsBounded, NothingAsked, [TimelyNext]_vars
    PROVE  NothingAsked'
<1>0. Startup[idx] \in Modules /\ pmNap \in Nat /\ MaxPoll \in Nat
  BY IndexFacts, DurationsAssumption DEF TypeOK
<1>1. CASE Manager \/ KeyHit \/ ManagerDies
  <2>1. CASE Create \/ Restart
    <3>1. Settling' => Settling
      BY <1>0, <2>1 DEF Create, Restart, Start, Stop, Settling
    <3>2. hb' = hb
      BY <2>1 DEF Create, Restart, Start, Stop
    <3>3. \A p \in Procs : pc'[p] \in {"work", "beat", "rearm"} => pc[p] \in {"work", "beat", "rearm"}
      BY <2>1, ManagerEffect, ProcFacts DEF Creates, TypeOK, Manager
    <3> QED BY <3>1, <3>2, <3>3 DEF NothingAsked
  <2>2. CASE CreateMapping \/ Poll \/ ReadBeat \/ ResetBeat \/ Kill
    BY <2>2 DEF CreateMapping, Poll, ReadBeat, ResetBeat, Kill, Settling, NothingAsked, procVars
  <2>3. CASE ArmTimer \/ StillWaiting
    <3>1. ~Settling'
      BY <1>0, <2>3 DEF ArmTimer, StillWaiting, NextModule, Settling
    <3> QED BY <3>1 DEF NothingAsked
  <2>4. CASE FailCritical \/ KeyHit \/ ManagerDies
    BY <2>4 DEF FailCritical, KeyHit, ManagerDies, Stop, Settling, NothingAsked
  <2> QED BY <1>1, <2>1, <2>2, <2>3, <2>4 DEF Manager
<1>2. ASSUME NEW p \in Procs, Process(p) \/ Environment(p) PROVE NothingAsked'
  <2>0. SUFFICES ASSUME Settling PROVE NothingAsked'
    BY <1>2, ProcessEffect DEF pmVars, Settling, NothingAsked
  <2>1. hb[Image(p)] /\ pc[p] \notin {"work", "beat", "rearm"}
    BY <2>0, ProcFacts DEF NothingAsked
  <2>2. hb' = hb
    BY <1>2, <2>1, BeatEffect DEF Beat, Moves
  <2>3. PICK v \in PCs : pc' = [pc EXCEPT ![p] = v]
    BY <1>2, ProcessEffect
  <2>4. pc'[p] \notin {"work", "beat", "rearm"}
    <3>1. pc'[p] \notin {"work", "beat"}
      BY <1>2, <2>1, BeatEffect
    <3>2. pc'[p] = "rearm" => pc[p] \in {"beat", "rearm"}
      BY <1>2 DEF Process, Environment, Load, Boot, TestTimer, TestFrame, CheckBeat, EndTurn,
            Work, Beat, Rearm, NullFault, Dies, Crash, BadFrame, Stall, Answer, Gone, Moves, TypeOK
    <3> QED BY <2>1, <3>1, <3>2
  <2> QED BY <2>0, <2>2, <2>3, <2>4 DEF NothingAsked, TypeOK
<1>3. CASE Tick
  BY <1>0, <1>3 DEF Tick, Elapse, Settling, NothingAsked
<1>4. CASE UNCHANGED vars
  BY <1>4 DEF vars, pmVars, procVars, Settling, NothingAsked
<1> QED BY <1>1, <1>2, <1>3, <1>4 DEF TimelyNext, Step, TimelyTick, Done

LEMMA CreatedNext ==
    ASSUME TypeOK, AllCreated, [TimelyNext]_vars
    PROVE  AllCreated'
<1>0. Startup[idx] \in Modules /\ idx \in 1 .. N /\ N \in Nat
  BY IndexFacts, ModulesAssumption DEF TypeOK
<1>1. CASE Create \/ Restart
  <2>1. CASE Stop("aborted")
    BY <2>1 DEF Stop, AllCreated, Stopped
  <2>2. CASE ~Stop("aborted")
    <3>1. pm' = (IF pm = "create" THEN "map" ELSE "arm") /\ idx' = idx
      BY <1>1, <2>2 DEF Create, Restart, Start
    <3>2. cur'[Startup[idx]] # NoSlot
      <4>1. CASE IsAlive(Startup[idx])
        BY <1>1, <2>2, <4>1 DEF Create, Restart, Start, IsAlive
      <4>2. CASE ~IsAlive(Startup[idx])
        <5>1. Launch(Startup[idx])
          BY <1>1, <2>2, <4>2 DEF Create, Restart, Start
        <5>2. PICK s \in Slots : cur' = [cur EXCEPT ![Startup[idx]] = s]
          BY <5>1 DEF Launch
        <5> QED BY <1>0, <5>2, ModulesAssumption DEF TypeOK
      <4> QED BY <4>1, <4>2
    <3>3. \A m \in Modules : cur[m] # NoSlot => cur'[m] # NoSlot
      <4>1. cur' = cur \/ \E s \in Slots : cur' = [cur EXCEPT ![Startup[idx]] = s]
        BY <1>1, <2>2 DEF Create, Restart, Start, Launch
      <4>2. \A s \in Slots : s # NoSlot
        BY ModulesAssumption
      <4> QED BY <1>0, <4>1, <4>2 DEF TypeOK
    <3>4. CASE pm = "create"
      <4>1. \A i \in 1 .. idx : cur'[Startup[i]] # NoSlot
        <5>1. SUFFICES ASSUME NEW i \in 1 .. idx, i # idx PROVE cur'[Startup[i]] # NoSlot
          BY <3>2
        <5>2. i \in 1 .. idx - 1 /\ i \in 1 .. N
          BY <1>0, <5>1
        <5>3. Startup[i] \in Modules
          BY <5>2, ModulesAssumption
        <5> QED BY <3>3, <3>4, <5>2, <5>3 DEF AllCreated
      <4> QED BY <3>1, <3>4, <4>1 DEF AllCreated, Stopped
    <3>5. CASE pm = "start"
      BY <3>1, <3>3, <3>5 DEF AllCreated, Stopped
    <3> QED BY <1>1, <3>4, <3>5 DEF Create, Restart
  <2> QED BY <2>1, <2>2
<1>2. CASE CreateMapping
  <2>1. \A i \in 1 .. idx : cur'[Startup[i]] # NoSlot
    BY <1>2 DEF CreateMapping, AllCreated
  <2>2. CASE idx < N
    BY <1>0, <1>2, <2>1, <2>2 DEF CreateMapping, AllCreated, Stopped
  <2>3. CASE idx = N
    <3>1. \A m \in Modules : cur'[m] # NoSlot
      BY <2>1, <2>3, ModulesAssumption
    <3> QED BY <1>0, <1>2, <2>3, <3>1 DEF CreateMapping, AllCreated
  <2> QED BY <1>2, <2>2, <2>3 DEF CreateMapping
<1>3. CASE Poll \/ ReadBeat \/ ResetBeat \/ Kill
  BY <1>3 DEF Poll, ReadBeat, ResetBeat, Kill, AllCreated, Stopped
<1>4. CASE ArmTimer \/ StillWaiting
  <2>1. pm' \in {"scan", "poll"}
    BY <1>4 DEF ArmTimer, StillWaiting, NextModule
  <2> QED BY <1>4, <2>1 DEF ArmTimer, StillWaiting, AllCreated, Stopped
<1>5. CASE FailCritical \/ KeyHit \/ ManagerDies
  BY <1>5 DEF FailCritical, KeyHit, ManagerDies, Stop, AllCreated, Stopped
<1>6. ASSUME NEW p \in Procs, Process(p) \/ Environment(p) PROVE AllCreated'
  BY <1>6, ProcessEffect DEF pmVars, AllCreated, Stopped
<1>7. CASE Tick \/ UNCHANGED vars
  BY <1>7 DEF Tick, vars, pmVars, AllCreated, Stopped
<1> QED BY <1>1, <1>2, <1>3, <1>4, <1>5, <1>6, <1>7 DEF TimelyNext, Step, TimelyTick, Manager, Done

LEMMA LateNext ==
    ASSUME TypeOK, TimelyInv, [TimelyNext]_vars
    PROVE  LateIsFaulty'
<1> DEFINE m == Startup[idx]
<1>0. m \in Modules
  BY IndexFacts DEF TypeOK
<1>1. CASE ReadBeat
  <2>1. CASE ~hb[m]
    <3>1. cur[m] # NoSlot
      BY <1>0, <1>1 DEF ReadBeat, TimelyInv, AllCreated, Stopped
    <3>2. Current(m) \notin faulty => AnswerIn(Current(m)) < pmTimer[m]
      BY <1>0, <1>1, <2>1, <3>1 DEF ReadBeat, TimelyInv, AnswersInTime, Stopped
    <3>3. Current(m) \in Procs
      BY <1>0, <3>1, ProcFacts DEF Current, TypeOK
    <3>4. AnswerIn(Current(m)) \in Nat
      BY <3>3, AnswerInBound DEF TimelyInv
    <3>5. pmTimer[m] \in Int
      BY <1>0, DurationsAssumption DEF TypeOK, Timers, Unset
    <3>6. Current(m) \notin faulty => pmTimer[m] > 0
      BY <3>2, <3>4, <3>5
    <3> QED BY <1>1, <3>6 DEF ReadBeat, LateIsFaulty, Current, procVars
  <2>2. CASE hb[m]
    BY <1>1, <2>2 DEF ReadBeat, LateIsFaulty
  <2> QED BY <2>1, <2>2
<1>2. CASE pm' # "late"
  BY <1>2 DEF LateIsFaulty
<1>3. ASSUME NEW p \in Procs, Process(p) \/ Environment(p) PROVE LateIsFaulty'
  <2>1. UNCHANGED pmVars /\ faulty \subseteq faulty'
    <3>1. faulty \subseteq faulty'
      BY <1>3 DEF Process, Environment, Load, Boot, TestTimer, TestFrame, CheckBeat, Work, Beat,
            Rearm, NullFault, Dies, Crash, BadFrame, Stall, Answer
    <3> QED BY <1>3, <3>1, ProcessEffect
  <2> QED BY <2>1 DEF pmVars, TimelyInv, LateIsFaulty, Current
<1>4. CASE TimelyTick
  <2>1. pm # "late"
    BY <1>4 DEF TimelyTick, ManagerDue, Stopped
  <2> QED BY <1>4, <2>1 DEF TimelyTick, Tick, LateIsFaulty
<1>5. CASE UNCHANGED vars
  BY <1>5 DEF vars, pmVars, procVars, TimelyInv, LateIsFaulty, Current
<1>6. CASE (Manager \/ KeyHit \/ ManagerDies) /\ ~ReadBeat
  <2>1. pm' # "late"
    BY <1>6 DEF Manager, Create, Restart, Start, CreateMapping, Poll, ResetBeat, ArmTimer,
          StillWaiting, NextModule, FailCritical, Kill, KeyHit, ManagerDies, Stop
  <2> QED BY <1>2, <2>1
<1> QED BY <1>1, <1>3, <1>4, <1>5, <1>6 DEF TimelyNext, Step, Done

LEMMA AlarmNext ==
    ASSUME TypeOK, TimelyInv, [TimelyNext]_vars
    PROVE  NoFalseAlarm'
<1> DEFINE m == Startup[idx]
<1>0. m \in Modules /\ pmTimer[m] \in Int
  BY IndexFacts, DurationsAssumption DEF TypeOK, Timers, Unset
<1>1. CASE FailCritical \/ Kill
  <2>1. MayExpire(pmTimer[m]) /\ pm = "late"
    BY <1>1 DEF FailCritical, Kill
  <2>2. Current(m) \in faulty
    BY <1>0, <2>1 DEF MayExpire, Unset, TimelyInv, LateIsFaulty
  <2> QED BY <1>1, <2>2 DEF FailCritical, Kill, Stop, procVars, NoFalseAlarm, Current
<1>2. CASE pm' \notin {"start", "failed"}
  BY <1>2 DEF NoFalseAlarm
<1>3. ASSUME NEW p \in Procs, Process(p) \/ Environment(p) PROVE NoFalseAlarm'
  <2>1. UNCHANGED pmVars /\ faulty \subseteq faulty'
    <3>1. faulty \subseteq faulty'
      BY <1>3 DEF Process, Environment, Load, Boot, TestTimer, TestFrame, CheckBeat, Work, Beat,
            Rearm, NullFault, Dies, Crash, BadFrame, Stall, Answer
    <3> QED BY <1>3, <3>1, ProcessEffect
  <2> QED BY <2>1 DEF pmVars, TimelyInv, NoFalseAlarm, Current
<1>4. CASE TimelyTick \/ UNCHANGED vars
  BY <1>4 DEF TimelyTick, Tick, vars, pmVars, procVars, TimelyInv, NoFalseAlarm, Current
<1>5. CASE (Manager \/ KeyHit \/ ManagerDies) /\ ~(FailCritical \/ Kill)
  <2>1. pm' \notin {"start", "failed"}
    BY <1>5 DEF Manager, Create, Restart, Start, CreateMapping, Poll, ReadBeat, ResetBeat, ArmTimer,
          StillWaiting, NextModule, KeyHit, ManagerDies, Stop
  <2> QED BY <1>2, <2>1
<1> QED BY <1>1, <1>3, <1>4, <1>5 DEF TimelyNext, Step, Done

LEMMA HealthyNext ==
    ASSUME TypeOK, OneProcess, TimelyInv, [TimelyNext]_vars
    PROVE  HealthyRun'
<1> DEFINE Marks == stalled \cup blind \cup leaving \cup doomed
           Fine(p) ==
              /\ p \in Marks => Alive(p)
              /\ p \notin faulty /\ ~Stopped =>
                     /\ p \notin Marks
                     /\ cur[Image(p)] # NoSlot /\ p = Current(Image(p)) => Alive(p)
<1>0. \A p \in Procs : Fine(p)
  BY DEF TimelyInv, HealthyRun
<1>1. CASE UNCHANGED <<cur, pc, faulty, marks>> /\ (Stopped => Stopped')
  BY <1>0, <1>1 DEF HealthyRun, Alive, Current, marks
<1>2. CASE Manager \/ KeyHit \/ ManagerDies
  <2>0. ~Stopped /\ Startup[idx] \in Modules
    BY <1>2, ManagerMoves, IndexFacts DEF TypeOK
  <2>1. CASE Kill
    <3>1. IsAlive(Startup[idx]) => Current(Startup[idx]) \in faulty /\ Alive(Current(Startup[idx]))
      <4>1. NoFalseAlarm'
        BY AlarmNext
      <4> QED BY <2>1, <4>1 DEF Kill, NoFalseAlarm, Current, IsAlive
    <3>2. /\ UNCHANGED <<cur, pc, stalled, blind, leaving, faulty>>
          /\ \A p \in doomed' \ doomed : p \in faulty /\ Alive(p)
      BY <2>1, <3>1 DEF Kill
    <3>3. ~Stopped'
      BY <2>1 DEF Kill, Stopped
    <3> QED BY <1>0, <2>0, <3>2, <3>3 DEF HealthyRun, Alive, Current
  <2>2. ASSUME NEW m \in Modules, Creates(m) PROVE HealthyRun'
    <3>1. PICK s \in Slots :
              /\ ~IsAlive(m) /\ ~Alive(<<m, s>>)
              /\ cur' = [cur EXCEPT ![m] = s]
              /\ pc' = [pc EXCEPT ![<<m, s>>] = "load"]
              /\ faulty' = faulty \ {<<m, s>>}
              /\ UNCHANGED marks
      BY <2>2 DEF Creates
    <3>2. SUFFICES ASSUME NEW p \in Procs PROVE Fine(p)'
      BY DEF HealthyRun
    <3>3. CASE p = <<m, s>>
      <4>1. Alive(p)'
        BY <3>1, <3>3 DEF Alive, TypeOK
      <4>2. p \notin Marks'
        BY <1>0, <3>1, <3>3 DEF marks
      <4> QED BY <4>1, <4>2
    <3>4. CASE p # <<m, s>>
      <4>1. /\ Alive(p)' = Alive(p)
            /\ Marks' = Marks
            /\ p \in faulty' <=> p \in faulty
        BY <3>1, <3>4 DEF Alive, TypeOK, marks
      <4>2. cur'[Image(p)] # NoSlot /\ p = Current(Image(p))' =>
                cur[Image(p)] # NoSlot /\ p = Current(Image(p))
        <5>1. CASE Image(p) = m
          BY <3>1, <3>4, <5>1 DEF Current, TypeOK
        <5>2. CASE Image(p) # m
          BY <3>1, <5>2, ProcFacts DEF Current, TypeOK
        <5> QED BY <5>1, <5>2
      <4> QED BY <1>0, <2>0, <4>1, <4>2
    <3> QED BY <3>3, <3>4
  <2>3. CASE ~Kill /\ ~ \E m \in Modules : Creates(m)
    <3>1. UNCHANGED <<cur, pc, faulty, marks>>
      <4>1. CASE Create \/ Restart
        <5>1. ~IsAlive(Startup[idx]) /\ Launch(Startup[idx])
                  /\ UNCHANGED <<hb, mapped, idx, pmNap, pmTimer>> => Creates(Startup[idx])
          BY DEF Launch, Creates
        <5> QED BY <2>0, <2>3, <4>1, <5>1 DEF Create, Restart, Start, Stop, procVars
      <4>2. CASE FailCritical \/ KeyHit \/ ManagerDies
        BY <4>2 DEF FailCritical, KeyHit, ManagerDies, Stop, procVars
      <4>3. CASE CreateMapping \/ Poll \/ ReadBeat \/ ResetBeat \/ ArmTimer \/ StillWaiting
        BY <4>3 DEF CreateMapping, Poll, ReadBeat, ResetBeat, ArmTimer, StillWaiting, procVars
      <4> QED BY <1>2, <2>3, <4>1, <4>2, <4>3 DEF Manager
    <3> QED BY <1>1, <2>0, <3>1
  <2> QED BY <2>1, <2>2, <2>3
<1>3. ASSUME NEW p \in Procs, Process(p) \/ Environment(p) PROVE HealthyRun'
  <2>0. UNCHANGED pmVars /\ Image(p) \in Modules
    BY <1>3, ProcessEffect, ProcFacts
  <2>1. \A q \in Procs : q # p =>
            /\ pc'[q] = pc[q]
            /\ q \in Marks' <=> q \in Marks
            /\ q \in faulty' <=> q \in faulty
    <3>1. \A q \in Procs : q # p => pc'[q] = pc[q]
      BY <1>3, ProcessEffect DEF TypeOK
    <3>2. \A q \in Procs : q # p => (q \in Marks' <=> q \in Marks) /\ (q \in faulty' <=> q \in faulty)
      BY <1>3 DEF Process, Environment, Load, Boot, TestTimer, TestFrame, CheckBeat, EndTurn, Work,
              Beat, Rearm, NullFault, Dies, Crash, BadFrame, Stall, Answer, Gone, marks
    <3> QED BY <3>1, <3>2
  <2>2. \A q \in Procs : q # p => Fine(q)'
    BY <1>0, <2>0, <2>1 DEF Alive, Current, pmVars, Stopped
  <2>3. Fine(p)'
    <3>0. pc \in [Procs -> PCs] /\ Fine(p) /\ (Stopped' <=> Stopped)
          /\ (p = Current(Image(p))' <=> p = Current(Image(p)))
          /\ (cur'[Image(p)] # NoSlot <=> cur[Image(p)] # NoSlot)
      BY <1>0, <2>0 DEF TypeOK, PCs, pmVars, Stopped, Current
    <3>1. Gone(p) /\ (p \in faulty' \/ Stopped) => Fine(p)'
      BY <3>0 DEF Gone
    <3>2. p \in Marks => p \in faulty \/ Stopped
      BY <3>0
    <3>3. CASE Load(p)
      BY <3>0, <3>3 DEF Load, Moves, Alive
    <3>4. CASE Boot(p) \/ Work(p) \/ Beat(p)
      BY <3>0, <3>4 DEF Boot, Work, Beat, Moves, marks, Alive
    <3>5. CASE TestTimer(p)
      <4>1. CASE MayExpire(timer[p]) /\ Gone(p)
        <5>1. p \notin faulty /\ ~Stopped => timer[p] > nap[p]
          BY <3>5 DEF TestTimer, TimelyInv, LowersInTime
        <5>2. p \in faulty \/ Stopped
          BY <3>5, <4>1, <5>1 DEF MayExpire, Unset, TestTimer
        <5> QED BY <3>1, <3>5, <4>1, <5>2 DEF TestTimer
      <4>2. CASE ~(MayExpire(timer[p]) /\ Gone(p))
        BY <3>0, <3>5, <4>2 DEF TestTimer, marks, Alive
      <4> QED BY <4>1, <4>2
    <3>6. CASE TestFrame(p)
      <4>1. p \notin faulty /\ ~Stopped => timer[p] > nap[p]
        BY <3>6 DEF TestFrame, Moves, TimelyInv, LowersInTime
      <4>2. p \notin faulty /\ ~Stopped => ~MayExpire(timer[p])
        BY <3>6, <4>1 DEF MayExpire, Unset, TestFrame
      <4> QED BY <3>0, <3>6, <4>2 DEF TestFrame, Moves, Alive
    <3>7. CASE CheckBeat(p)
      BY <3>0, <3>1, <3>2, <3>7 DEF CheckBeat, EndTurn, marks, Alive
    <3>8. CASE Rearm(p)
      BY <3>0, <3>1, <3>2, <3>8 DEF Rearm, EndTurn, marks, Alive
    <3>9. CASE NullFault(p) \/ Dies(p) \/ Crash(p)
      BY <3>1, <3>2, <3>9 DEF NullFault, Faults, Dies, Crash
    <3>10. CASE BadFrame(p) \/ Stall(p) \/ Answer(p)
      BY <3>0, <3>10 DEF BadFrame, Stall, Answer, Alive
    <3> QED BY <1>3, <3>3, <3>4, <3>5, <3>6, <3>7, <3>8, <3>9, <3>10 DEF Process, Environment
  <2> QED BY <2>2, <2>3 DEF HealthyRun
<1>4. CASE TimelyTick \/ UNCHANGED vars
  BY <1>1, <1>4 DEF TimelyTick, Tick, vars, pmVars, procVars, Stopped
<1> QED BY <1>2, <1>3, <1>4 DEF TimelyNext, Step, Done

\* What a step of a healthy process does to its answer.
LEMMA AnswerComesCloser ==
    ASSUME TypeOK, TimelyInv, NEW p \in Procs, Process(p) \/ Environment(p),
           p \notin faulty', ~Stopped, ~hb[Image(p)], ~hb'[Image(p)], Alive(p)
    PROVE  AnswerIn(p)' <= AnswerIn(p)
<1> DEFINE m == Image(p)
<1>0. /\ m \in Modules /\ nap \in [Procs -> Nat] /\ pc \in [Procs -> PCs]
      /\ timer \in [Procs -> Nat \cup {Unset}]
  BY ProcFacts DEF TypeOK, PCs
<1>1. p \notin faulty
  BY DEF Process, Environment, Load, Boot, TestTimer, TestFrame, CheckBeat, Work, Beat,
         Rearm, NullFault, Dies, Crash, BadFrame, Stall, Answer
<1>2. p \notin stalled \cup blind \cup leaving \cup doomed
  BY <1>1 DEF TimelyInv, HealthyRun
<1>3. AnswerIn(p) \in Nat
  BY AnswerInBound DEF TimelyInv
<1>4. AnswerIn(p)' = CASE pc'[p] = "load" -> MaxBoot[m] + MaxInit[m] + MaxWork[m]
                       [] pc'[p] = "boot" -> nap'[p] + MaxInit[m] + MaxWork[m]
                       [] pc'[p] = "test" -> nap'[p] + MaxWork[m]
                       [] pc'[p] = "check" -> MaxWork[m]
                       [] pc'[p] = "work" -> nap'[p]
                       [] pc'[p] = "beat" -> 0
                       [] pc'[p] = "rearm" -> MaxRest[m] + MaxWork[m]
                       [] OTHER -> 0
  BY DEF AnswerIn
<1>5. CASE Load(p)
  <2>1. pc[p] = "load" /\ pc'[p] = "boot" /\ nap'[p] <= MaxBoot[m] /\ nap'[p] \in Nat
    BY <1>0, <1>5, Durations DEF Load, Moves
  <2> QED BY <1>0, <1>4, <2>1, Durations, AnswerInFacts
<1>6. CASE Boot(p)
  <2>1. pc[p] = "boot" /\ pc'[p] = "test" /\ nap[p] = 0 /\ nap'[p] <= MaxInit[m] /\ nap'[p] \in Nat
    BY <1>0, <1>6, Durations DEF Boot, Moves
  <2> QED BY <1>0, <1>4, <2>1, Durations, AnswerInFacts
<1>7. CASE TestTimer(p) \/ TestFrame(p)
  <2>1. pc[p] = "test" /\ nap[p] = 0
    BY <1>7 DEF TestTimer, TestFrame, Moves
  <2>2. timer[p] > 0
    BY <1>0, <1>1, <2>1 DEF TimelyInv, LowersInTime
  <2>3. pc'[p] = "check"
    BY <1>0, <1>7, <2>2 DEF TestTimer, TestFrame, MayExpire, Unset, Moves
  <2> QED BY <1>0, <1>4, <2>1, <2>3, Durations, AnswerInFacts
<1>8. CASE CheckBeat(p)
  <2>1. /\ pc[p] = "check"
        /\ \/ pc'[p] = "work" /\ nap'[p] <= MaxWork[m] /\ nap'[p] \in Nat
           \/ pc'[p] = "beat"
    BY <1>0, <1>8, Durations DEF CheckBeat
  <2> QED BY <1>0, <1>4, <2>1, Durations, AnswerInFacts
<1>9. CASE Work(p)
  <2>1. pc[p] = "work" /\ pc'[p] = "beat"
    BY <1>0, <1>9 DEF Work, Moves
  <2> QED BY <1>0, <1>3, <1>4, <2>1
<1>10. CASE Beat(p)
  BY <1>0, <1>10 DEF Beat, TypeOK
<1>11. CASE Rearm(p)
  <2>1. pc[p] = "rearm" /\ pc'[p] = "test" /\ nap'[p] <= MaxRest[m] /\ nap'[p] \in Nat
    BY <1>0, <1>2, <1>11, Durations DEF Rearm, EndTurn
  <2> QED BY <1>0, <1>4, <2>1, Durations, AnswerInFacts
<1>12. CASE NullFault(p) \/ Dies(p) \/ Crash(p) \/ BadFrame(p) \/ Stall(p)
  BY <1>1, <1>2, <1>12 DEF NullFault, Faults, Dies, Crash, BadFrame, Stall
<1>13. CASE Answer(p)
  BY <1>2, <1>13 DEF Answer
<1> QED BY <1>5, <1>6, <1>7, <1>8, <1>9, <1>10, <1>11, <1>12, <1>13 DEF Process, Environment

LEMMA AnswersNext ==
    ASSUME TypeOK, OneProcess, TimelyInv, [TimelyNext]_vars,
           TypeOK', NapsBounded', HealthyRun', NothingAsked'
    PROVE  AnswersInTime'
<1> SUFFICES ASSUME NEW m \in Modules, NEW s \in Slots, cur'[m] = s,
                    <<m, s>> \notin faulty', ~hb'[m], ~Stopped',
                    ~(pm' = "arm" /\ Startup[idx'] = m)
             PROVE  AnswerIn(<<m, s>>)' < pmTimer'[m]
  <2>1. SUFFICES ASSUME NEW m \in Modules,
                        cur'[m] # NoSlot, Current(m)' \notin faulty', ~hb'[m], ~Stopped',
                        ~(pm' = "arm" /\ Startup[idx'] = m)
                 PROVE  AnswerIn(Current(m))' < pmTimer'[m]
    BY DEF AnswersInTime
  <2>2. PICK s \in Slots : cur'[m] = s
    BY <2>1 DEF TypeOK
  <2>3. Current(m)' = <<m, s>>
    BY <2>2 DEF Current
  <2>4. AnswerIn(<<m, s>>)' < pmTimer'[m]
    BY <2>1, <2>2, <2>3
  <2> QED BY <2>3, <2>4 DEF AnswerIn
<1> DEFINE p == <<m, s>>
<1>0. p \in Procs /\ Image(p) = m /\ p = Current(m)' /\ cur'[m] \in Slots /\ NoSlot \notin Slots
  BY ProcFacts, ModulesAssumption DEF Current
<1>1. Startup[idx] \in Modules
  BY IndexFacts DEF TypeOK
<1>2. /\ PMTimeout \in Nat /\ pmTimer \in [Modules -> Timers(PMTimeout)]
      /\ AnswerIn(p) \in Nat /\ pmTimer[m] \in Int
  BY <1>0, DurationsAssumption, AnswerInBound DEF TypeOK, Timers, Unset, TimelyInv
<1>3. ASSUME cur[m] = s, p \notin faulty, ~hb[m], ~Stopped, ~(pm = "arm" /\ Startup[idx] = m)
      PROVE  AnswerIn(p) < pmTimer[m]
  <2>1. Current(m) = p
    BY <1>3 DEF Current
  <2> QED BY <1>0, <1>3, <2>1 DEF TimelyInv, AnswersInTime
<1>4. ASSUME pc'[p] = pc[p], nap'[p] = nap[p] PROVE AnswerIn(p)' = AnswerIn(p)
  BY <1>4 DEF AnswerIn
<1>5. CASE Manager \/ KeyHit \/ ManagerDies
  <2>0. ~Stopped
    BY <1>5, ManagerMoves
  <2>1. CASE Create
    <3>1. hb' = hb
      BY <2>1 DEF Create, Start, Stop
    <3>2. hb[m]
      BY <2>1 DEF Create, TimelyInv, NothingAsked, Settling
    <3> QED BY <3>1, <3>2
  <2>2. CASE Restart
    <3>1. pm' = "arm" /\ idx' = idx /\ hb' = hb /\ pmTimer' = pmTimer
      BY <2>2 DEF Restart, Start, Stop, Stopped
    <3>2. m # Startup[idx]
      BY <3>1
    <3>3. cur'[m] = cur[m] /\ pc'[p] = pc[p] /\ nap' = nap /\ (p \in faulty' <=> p \in faulty)
      <4>1. CASE UNCHANGED <<cur, procVars>>
        BY <4>1 DEF procVars
      <4>2. CASE Launch(Startup[idx])
        <5>1. PICK t \in Slots :
                /\ cur' = [cur EXCEPT ![Startup[idx]] = t]
                /\ pc' = [pc EXCEPT ![<<Startup[idx], t>>] = "load"]
                /\ faulty' = faulty \ {<<Startup[idx], t>>}
                /\ nap' = nap
          BY <4>2 DEF Launch
        <5>2. p # <<Startup[idx], t>>
          BY <3>2
        <5> QED BY <1>0, <3>2, <5>1, <5>2 DEF TypeOK
      <4> QED BY <2>2, <4>1, <4>2 DEF Restart, Start, Stop
    <3>4. AnswerIn(p) < pmTimer[m]
      BY <1>0, <1>3, <2>0, <2>2, <3>1, <3>3 DEF Restart
    <3> QED BY <1>0, <1>4, <3>1, <3>3, <3>4
  <2>3. CASE FailCritical \/ KeyHit \/ ManagerDies
    BY <2>3 DEF FailCritical, KeyHit, ManagerDies, Stop, Stopped
  <2>4. CASE CreateMapping \/ Poll \/ ReadBeat \/ StillWaiting \/ Kill
    <3>1. /\ pm # "arm" /\ UNCHANGED <<hb, pmTimer, cur, pc, nap, faulty>>
      BY <2>4 DEF CreateMapping, Poll, ReadBeat, StillWaiting, Kill, procVars
    <3>2. AnswerIn(p) < pmTimer[m]
      BY <1>0, <1>3, <2>0, <3>1
    <3> QED BY <1>0, <1>4, <3>1, <3>2
  <2>5. CASE ResetBeat
    <3>1. /\ pm # "arm" /\ pm' = "arm" /\ idx' = idx
          /\ hb' = [hb EXCEPT ![Startup[idx]] = FALSE]
          /\ UNCHANGED <<pmTimer, cur, pc, nap, faulty>>
      BY <2>5 DEF ResetBeat, procVars
    <3>2. ~hb[m]
      BY <3>1 DEF TypeOK
    <3>3. AnswerIn(p) < pmTimer[m]
      BY <1>0, <1>3, <2>0, <3>1, <3>2
    <3> QED BY <1>0, <1>4, <3>1, <3>3
  <2>6. CASE ArmTimer
    <3>1. /\ pmTimer' = [pmTimer EXCEPT ![Startup[idx]] = PMTimeout + 1]
          /\ UNCHANGED <<hb, cur, pc, nap, faulty>>
      BY <2>6 DEF ArmTimer, procVars, Armed
    <3>2. CASE m = Startup[idx]
      <4>1. AnswerIn(p) <= PMTimeout
        BY <1>0, AnswerInBound DEF TimelyInv
      <4>2. pmTimer'[m] = PMTimeout + 1
        BY <1>2, <3>1, <3>2
      <4> QED BY <1>0, <1>2, <1>4, <3>1, <4>1, <4>2
    <3>3. CASE m # Startup[idx]
      <4>1. AnswerIn(p) < pmTimer[m]
        BY <1>0, <1>3, <2>0, <3>1, <3>3
      <4> QED BY <1>0, <1>2, <1>4, <3>1, <3>3, <4>1
    <3> QED BY <3>2, <3>3
  <2> QED BY <1>5, <2>1, <2>2, <2>3, <2>4, <2>5, <2>6 DEF Manager
<1>6. ASSUME NEW q \in Procs, Process(q) \/ Environment(q) PROVE AnswerIn(p)' < pmTimer'[m]
  <2>1. UNCHANGED <<pm, idx, cur, pmTimer>>
    BY <1>6, ProcessEffect DEF pmVars
  <2>2. ~hb[m]
    <3>1. CASE hb' = hb
      BY <3>1
    <3>2. CASE Beat(q)
      BY <3>2 DEF Beat, TypeOK
    <3> QED BY <1>6, <3>1, <3>2, BeatEffect
  <2>3. p \notin faulty
    <3>1. faulty \subseteq faulty'
      BY <1>6 DEF Process, Environment, Load, Boot, TestTimer, TestFrame, CheckBeat, Work, Beat,
            Rearm, NullFault, Dies, Crash, BadFrame, Stall, Answer
    <3> QED BY <1>0, <3>1
  <2>4. AnswerIn(p) < pmTimer[m]
    BY <1>3, <2>1, <2>2, <2>3 DEF Stopped
  <2>5. CASE q = p
    <3>1. Alive(p)
      BY <1>0, <2>1, <2>3 DEF TimelyInv, HealthyRun, Stopped, Current
    <3>2. AnswerIn(p)' <= AnswerIn(p)
      <4>1. ~Stopped
        BY <2>1 DEF Stopped
      <4> QED BY <1>0, <1>6, <2>2, <2>5, <3>1, <4>1, AnswerComesCloser
    <3>3. AnswerIn(p)' \in Nat
      <4>1. nap'[p] \in Nat
        BY <1>0 DEF TypeOK
      <4> QED BY <1>0, <4>1, Durations DEF AnswerIn
    <3> QED BY <1>2, <2>1, <2>4, <3>2, <3>3
  <2>6. CASE q # p
    <3>1. pc'[p] = pc[p]
      BY <1>0, <1>6, <2>6, ProcessEffect DEF TypeOK
    <3>2. nap' = nap \/ \E d : nap' = [nap EXCEPT ![q] = d]
      BY <1>6 DEF Process, Environment, Load, Boot, TestTimer, TestFrame, CheckBeat, EndTurn, Work,
              Beat, Rearm, NullFault, Dies, Crash, BadFrame, Stall, Answer, Gone
    <3>3. nap'[p] = nap[p]
      BY <1>0, <2>6, <3>2 DEF TypeOK
    <3> QED BY <1>4, <2>1, <2>4, <3>1, <3>3
  <2> QED BY <2>5, <2>6
<1>7. CASE TimelyTick
  <2>1. UNCHANGED <<hb, pm, idx, cur, pc, faulty>>
    BY <1>7 DEF TimelyTick, Tick
  <2>2. AnswerIn(p) < pmTimer[m]
    BY <1>0, <1>3, <2>1 DEF Stopped
  <2>3. Alive(p) /\ nap[p] # 0
    <3>1. Alive(p)
      BY <1>0, <2>1 DEF TimelyInv, HealthyRun, Stopped, Current
    <3> QED BY <1>0, <1>7, <2>1, <3>1 DEF TimelyTick, ProcessDue
  <2>4. pc[p] \in {"boot", "test", "work"} /\ nap[p] \in Nat
    BY <1>0, <2>3 DEF TimelyInv, NapsBounded, TypeOK
  <2>5. nap'[p] = nap[p] - 1 /\ pmTimer'[m] = pmTimer[m] - 1
    BY <1>0, <1>2, <1>7, <2>2, <2>3, <2>4 DEF TimelyTick, Tick, Elapse
  <2>6. AnswerIn(p)' = AnswerIn(p) - 1
    BY <1>0, <2>1, <2>4, <2>5, Durations DEF AnswerIn
  <2> QED BY <1>0, <1>2, <2>2, <2>5, <2>6
<1>8. CASE UNCHANGED vars
  <2>1. UNCHANGED <<hb, pm, idx, cur, pc, nap, faulty, pmTimer>>
    BY <1>8 DEF vars, pmVars, procVars
  <2> QED BY <1>0, <1>3, <1>4, <2>1 DEF Stopped
<1> QED BY <1>0, <1>5, <1>6, <1>7, <1>8 DEF TimelyNext, Step, Done

\* LowersIn does not grow for a module whose heartbeat is raised, but by a new
\* round: manager step by manager step.
LEMMA LowersComesCloser ==
    ASSUME TypeOK, NapsBounded, Manager, ~Stopped', NEW m \in Modules, hb[m], hb'[m]
    PROVE  LowersIn(m)' <= LowersIn(m)
<1>0. /\ idx \in 1 .. N /\ N \in Nat /\ pmNap \in Nat /\ MaxPoll \in Nat /\ MaxSettle \in Nat
      /\ \E i \in 1 .. N : Startup[i] = m
  BY ModulesAssumption, DurationsAssumption DEF TypeOK
<1>1. CASE Create
  <2>1. pm = "create" /\ pm' = "map"
    BY <1>1 DEF Create, Start, Stop, Stopped
  <2> QED BY <1>0, <2>1 DEF LowersIn
<1>2. CASE CreateMapping
  <2>1. pm = "map" /\ (pm' = "create" \/ (pm' = "poll" /\ pmNap' <= MaxSettle))
    BY <1>0, <1>2 DEF CreateMapping
  <2> QED BY <1>0, <2>1 DEF LowersIn
<1>3. CASE Poll
  <2>1. pm = "poll" /\ pmNap = 0 /\ pm' = "scan" /\ idx' = 1
    BY <1>3 DEF Poll, NapsBounded
  <2>2. LowersIn(m)' = 0
    BY <1>0, <2>1 DEF LowersIn
  <2> QED BY <2>1, <2>2 DEF LowersIn
<1>4. CASE ReadBeat
  <2>1. pm = "scan" /\ idx' = idx /\ (pm' = "reset" \/ (pm' = "late" /\ Startup[idx] # m))
    BY <1>4 DEF ReadBeat
  <2>2. (\E i \in idx .. N : Startup[i] = m) =>
            pm' = "reset" \/ (\E i \in idx + 1 .. N : Startup[i] = m)
    BY <1>0, <2>1
  <2> QED BY <1>0, <2>1, <2>2 DEF LowersIn
<1>5. CASE ResetBeat
  <2>1. pm = "reset" /\ pm' = "arm" /\ idx' = idx /\ Startup[idx] # m
    BY <1>5 DEF ResetBeat, TypeOK
  <2>2. (\E i \in idx .. N : Startup[i] = m) => (\E i \in idx + 1 .. N : Startup[i] = m)
    BY <1>0, <2>1
  <2> QED BY <1>0, <2>1, <2>2 DEF LowersIn
<1>6. CASE ArmTimer \/ StillWaiting
  <2>1. pm \in {"arm", "late"} /\ NextModule
    BY <1>6 DEF ArmTimer, StillWaiting
  <2>2. CASE idx < N
    <3>1. pm' = "scan" /\ idx' = idx + 1
      BY <1>0, <2>1, <2>2 DEF NextModule
    <3> QED BY <1>0, <2>1, <3>1 DEF LowersIn
  <2>3. CASE idx = N
    <3>1. pm' = "poll" /\ pmNap' <= MaxPoll /\ pmNap' \in Nat
      BY <1>0, <2>1, <2>3 DEF NextModule
    <3>2. LowersIn(m) = MaxPoll
      BY <1>0, <2>1, <2>3 DEF LowersIn
    <3> QED BY <1>0, <3>1, <3>2 DEF LowersIn
  <2> QED BY <1>0, <2>2, <2>3
<1>7. CASE FailCritical
  BY <1>7 DEF FailCritical, Stop, Stopped
<1>8. CASE Kill
  <2>1. pm = "late" /\ pm' = "start" /\ idx' = idx
    BY <1>8 DEF Kill
  <2> QED BY <1>0, <2>1 DEF LowersIn
<1>9. CASE Restart
  <2>1. pm = "start" /\ pm' = "arm" /\ idx' = idx
    BY <1>9 DEF Restart, Start, Stop, Stopped
  <2> QED BY <1>0, <2>1 DEF LowersIn
<1> QED BY <1>1, <1>2, <1>3, <1>4, <1>5, <1>6, <1>7, <1>8, <1>9 DEF Manager

LEMMA LowersNext ==
    ASSUME TypeOK, OneProcess, TimelyInv, [TimelyNext]_vars, TypeOK'
    PROVE  LowersInTime'
<1> SUFFICES ASSUME NEW p \in Procs, pc'[p] \in {"test", "check"}, p \notin faulty', ~Stopped'
             PROVE  /\ pc'[p] = "test" => timer'[p] > nap'[p]
                    /\ hb'[Image(p)] => timer'[p] > LowersIn(Image(p))' + MaxRest[Image(p)]
  BY DEF LowersInTime
<1> DEFINE m == Image(p)
<1>0. /\ m \in Modules /\ nap[p] \in Nat /\ nap'[p] \in Nat
      /\ timer[p] \in Int /\ timer'[p] \in Int
      /\ pc \in [Procs -> PCs] /\ nap \in [Procs -> Nat] /\ timer \in [Procs -> Nat \cup {Unset}]
  BY ProcFacts DEF TypeOK, PCs, Unset
<1>1. /\ LowersIn(m) \in Nat
      /\ LowersIn(m) <= MaxSettle \/ LowersIn(m) <= MaxPoll
      /\ ~Settling => LowersIn(m) <= MaxPoll
  BY <1>0, LowersInBound DEF TimelyInv
<1>2. /\ MaxInit[m] <= FirstTimeout
      /\ MaxSettle + MaxRest[m] <= FirstTimeout
      /\ MaxPoll + MaxRest[m] <= FirstTimeout
      /\ MaxPoll + MaxRest[m] <= BeatTimeout[m]
  BY <1>0, PatienceAssumption
<1>3. ASSUME pc[p] \in {"test", "check"}, p \notin faulty, ~Stopped
      PROVE  /\ pc[p] = "test" => timer[p] > nap[p]
             /\ hb[m] => timer[p] > LowersIn(m) + MaxRest[m]
  BY <1>3 DEF TimelyInv, LowersInTime
<1>4. ASSUME pm' = pm, idx' = idx, pmNap' = pmNap PROVE LowersIn(m)' = LowersIn(m)
  BY <1>4 DEF LowersIn
<1>5. CASE Manager \/ KeyHit \/ ManagerDies
  <2>0. ~Stopped
    BY <1>5, ManagerMoves
  <2>1. /\ pc'[p] = pc[p] /\ nap' = nap /\ timer' = timer /\ p \notin faulty
    <3>1. UNCHANGED <<nap, timer>>
      BY <1>5 DEF Manager, Create, Restart, Start, Launch, CreateMapping, Poll, ReadBeat, ResetBeat,
            ArmTimer, StillWaiting, FailCritical, Kill, KeyHit, ManagerDies, Stop, procVars
    <3>2. CASE UNCHANGED <<cur, pc>>
      <4>1. faulty' = faulty
        <5>1. CASE Create \/ Restart
          <6>1. ~Launch(Startup[idx])
            <7>1. Launch(Startup[idx]) => \E s \in Slots : s # cur[Startup[idx]] /\ cur' = [cur EXCEPT ![Startup[idx]] = s]
              BY DEF Launch
            <7>2. Startup[idx] \in Modules
              BY IndexFacts DEF TypeOK
            <7> QED BY <3>2, <7>1, <7>2 DEF TypeOK
          <6> QED BY <5>1, <6>1 DEF Create, Restart, Start, Stop, procVars
        <5>2. CASE ~(Create \/ Restart)
          BY <1>5, <5>2 DEF Manager, CreateMapping, Poll, ReadBeat, ResetBeat,
            ArmTimer, StillWaiting, FailCritical, Kill, KeyHit, ManagerDies, Stop, procVars
        <5> QED BY <5>1, <5>2
      <4> QED BY <3>1, <3>2, <4>1
    <3>3. ASSUME NEW n \in Modules, Creates(n) PROVE pc'[p] = pc[p] /\ p \notin faulty
      <4>1. PICK s \in Slots :
                pc' = [pc EXCEPT ![<<n, s>>] = "load"] /\ faulty' = faulty \ {<<n, s>>}
        BY <3>3 DEF Creates
      <4>2. p # <<n, s>>
        BY <1>0, <4>1
      <4> QED BY <1>0, <4>1, <4>2
    <3> QED BY <1>5, <3>1, <3>2, <3>3, ManagerEffect
  <2>2. hb'[m] => hb[m]
    BY <1>0, <1>5, ManagerLowers
  <2>3. hb'[m] => LowersIn(m)' <= LowersIn(m)
    <3>1. Manager
      BY <1>5 DEF KeyHit, ManagerDies, Stop, Stopped
    <3> QED BY <1>0, <2>2, <3>1, LowersComesCloser DEF TimelyInv
  <2>4. LowersIn(m)' \in Nat
    <3>1. pmNap' \in Nat
      BY DEF TypeOK
    <3> QED BY <3>1, DurationsAssumption DEF LowersIn
  <2> QED BY <1>0, <1>1, <1>3, <2>0, <2>1, <2>2, <2>3, <2>4, Durations
<1>6. ASSUME NEW q \in Procs, Process(q) \/ Environment(q)
      PROVE  /\ pc'[p] = "test" => timer'[p] > nap'[p]
             /\ hb'[m] => timer'[p] > LowersIn(m)' + MaxRest[m]
  <2>1. UNCHANGED <<pm, idx, pmNap>> /\ ~Stopped
    BY <1>6, ProcessEffect DEF pmVars, Stopped
  <2>2. LowersIn(m)' = LowersIn(m)
    BY <1>4, <2>1
  <2>3. p \notin faulty
    BY <1>6 DEF Process, Environment, Load, Boot, TestTimer, TestFrame, CheckBeat, Work, Beat,
          Rearm, NullFault, Dies, Crash, BadFrame, Stall, Answer
  <2>4. CASE q # p
    <3>1. pc'[p] = pc[p]
      BY <1>6, <2>4, ProcessEffect DEF TypeOK
    <3>2. /\ nap' = nap \/ \E d : nap' = [nap EXCEPT ![q] = d]
          /\ timer' = timer \/ \E d : timer' = [timer EXCEPT ![q] = d]
      BY <1>6 DEF Process, Environment, Load, Boot, TestTimer, TestFrame, CheckBeat, EndTurn, Work,
              Beat, Rearm, NullFault, Dies, Crash, BadFrame, Stall, Answer, Gone
    <3>3. nap'[p] = nap[p] /\ timer'[p] = timer[p]
      BY <1>0, <2>4, <3>2
    <3>4. hb'[m] = hb[m]
      <4>1. CASE hb' = hb
        BY <4>1
      <4>2. CASE Beat(q)
        <5>1. Alive(q) /\ Alive(p)
          BY <3>1, <4>2 DEF Beat, Moves, Alive
        <5>2. Image(q) # m
          BY <2>4, <5>1 DEF OneProcess
        <5> QED BY <1>0, <4>2, <5>2, ProcFacts DEF Beat, TypeOK
      <4> QED BY <1>6, <4>1, <4>2, BeatEffect
    <3> QED BY <1>3, <2>1, <2>2, <2>3, <3>1, <3>3, <3>4
  <2>5. CASE q = p
    <3>0. Process(p) \/ Environment(p)
      BY <1>6, <2>5
    <3>1. p \notin stalled \cup blind \cup leaving \cup doomed
      BY <2>1, <2>3 DEF TimelyInv, HealthyRun
    <3>2. CASE Boot(p)
      <4>1. timer'[p] = FirstTimeout + 1 /\ nap'[p] <= MaxInit[m]
        BY <1>0, <3>2, Durations DEF Boot, Armed
      <4> QED BY <1>0, <1>1, <1>2, <2>2, <4>1, Durations
    <3>3. CASE TestTimer(p) \/ TestFrame(p)
      <4>1. pc[p] = "test" /\ nap[p] = 0 /\ hb' = hb
        BY <3>3 DEF TestTimer, TestFrame, Moves, Gone
      <4>2. pc'[p] = "check" /\ timer' = timer
        BY <1>0, <3>3 DEF TestTimer, TestFrame, Gone, Moves
      <4> QED BY <1>3, <2>1, <2>2, <2>3, <4>1, <4>2
    <3>4. CASE CheckBeat(p)
      <4>1. /\ hb[m] /\ hb' = hb /\ pc[p] = "check" /\ pc'[p] = "test"
            /\ timer' = timer /\ nap'[p] <= MaxRest[m]
        BY <1>0, <3>1, <3>4, Durations DEF CheckBeat, EndTurn
      <4> QED BY <1>0, <1>1, <1>3, <2>1, <2>2, <2>3, <4>1, Durations
    <3>5. CASE Rearm(p)
      <4>1. timer'[p] = BeatTimeout[m] + 1 /\ nap'[p] <= MaxRest[m] /\ nap'[p] \in Nat
        BY <1>0, <3>1, <3>5, Durations DEF Rearm, EndTurn, Armed
      <4>2. LowersIn(m) <= MaxPoll
        BY <1>1, <3>5 DEF Rearm, TimelyInv, NothingAsked
      <4>3. MaxPoll > 0
        BY DurationsAssumption
      <4> QED BY <1>0, <1>1, <1>2, <2>2, <4>1, <4>2, <4>3, Durations
    <3>6. CASE Load(p) \/ Work(p) \/ Beat(p) \/ NullFault(p) \/ Dies(p) \/ Crash(p)
      BY <1>0, <3>6 DEF Load, Work, Beat, NullFault, Dies, Crash, Gone, Moves
    <3>7. CASE BadFrame(p) \/ Stall(p) \/ Answer(p)
      BY <3>1, <3>7 DEF BadFrame, Stall, Answer
    <3> QED BY <3>0, <3>2, <3>3, <3>4, <3>5, <3>6, <3>7 DEF Process, Environment
  <2> QED BY <2>4, <2>5
<1>7. CASE TimelyTick
  <2>1. UNCHANGED <<hb, pm, idx, pc, faulty>> /\ ~Stopped
    BY <1>7 DEF TimelyTick, Tick, Stopped
  <2>2. pm = "poll" /\ pmNap # 0 /\ pmNap \in Nat
    BY <1>7, <2>1 DEF TimelyTick, ManagerDue, TypeOK
  <2>3. nap[p] # 0
    BY <1>7, <2>1 DEF TimelyTick, ProcessDue, Alive
  <2>4. pc[p] = "test"
    BY <2>1, <2>3 DEF TimelyInv, NapsBounded
  <2>5. timer[p] > nap[p] /\ (hb[m] => timer[p] > LowersIn(m) + MaxRest[m])
    BY <1>3, <2>1, <2>4
  <2>6. nap'[p] = nap[p] - 1 /\ timer'[p] = timer[p] - 1 /\ pmNap' = pmNap - 1
    BY <1>0, <1>7, <2>2, <2>3, <2>5 DEF TimelyTick, Tick, Elapse
  <2>7. LowersIn(m) = pmNap /\ LowersIn(m)' = pmNap - 1
    BY <2>1, <2>2, <2>6 DEF LowersIn
  <2> QED BY <1>0, <2>1, <2>2, <2>5, <2>6, <2>7, Durations
<1>8. CASE UNCHANGED vars
  <2>1. UNCHANGED <<hb, pm, idx, pmNap, pc, faulty, nap, timer>>
    BY <1>8 DEF vars, pmVars, procVars
  <2> QED BY <1>3, <1>4, <2>1 DEF Stopped
<1> QED BY <1>5, <1>6, <1>7, <1>8 DEF TimelyNext, Step, Done

LEMMA TimelyInvNext ==
    ASSUME TypeOK, TypeOK', OneProcess, TimelyInv, [TimelyNext]_vars
    PROVE  TimelyInv'
<1>1. NapsBounded' /\ NothingAsked' /\ AllCreated'
  BY NapsNext, AskedNext, CreatedNext DEF TimelyInv
<1>2. LateIsFaulty' /\ NoFalseAlarm' /\ HealthyRun'
  BY LateNext, AlarmNext, HealthyNext
<1>3. LowersInTime'
  BY LowersNext
<1>4. AnswersInTime'
  BY <1>1, <1>2, AnswersNext
<1> QED BY <1>1, <1>2, <1>3, <1>4 DEF TimelyInv

LEMMA TimelyInvAlways == TimelySpec => [](TypeOK /\ OneProcess /\ TimelyInv)
<1>1. Init => TypeOK /\ OneProcess /\ TimelyInv
  BY InitTypes, OneProcessInit, TimelyInit
<1>2. TypeOK /\ OneProcess /\ TimelyInv /\ [TimelyNext]_vars => (TypeOK /\ OneProcess /\ TimelyInv)'
  BY TimelyIsNext, NextTypes, OneProcessNext, TimelyInvNext
<1> QED BY <1>1, <1>2, PTL DEF TimelySpec

\* A machine that keeps its bounds never kills, or gives up because of, a
\* process that has not failed.
THEOREM NoFalseAlarmAlways == TimelySpec => []NoFalseAlarm
<1>1. TimelyInv => NoFalseAlarm
  BY DEF TimelyInv
<1> QED BY <1>1, TimelyInvAlways, PTL

\* A process that has not failed never runs out of patience with a manager that
\* keeps its bounds.
THEOREM NoFalseExitAlways == TimelySpec => []NoFalseExit
<1>1. TimelyInv => NoFalseExit
  <2> SUFFICES ASSUME TimelyInv, NEW p \in Procs,
                      pc[p] = "test", nap[p] = 0, p \notin faulty, ~Stopped
               PROVE  timer[p] > 0
    BY DEF NoFalseExit
  <2> QED BY DEF TimelyInv, LowersInTime
<1> QED BY <1>1, TimelyInvAlways, PTL

(***************************************************************************)
(* The deadlines.                                                          *)
(***************************************************************************)
LEMMA DeadlineIsTimely == [DeadlineNext]_<<vars, histVars>> => [TimelyNext]_vars
BY DEF DeadlineNext, TimelyNext

\* The bounds, as numbers.
LEMMA Bounds ==
    ASSUME NEW m \in Modules
    PROVE  /\ NoticeBound \in Nat /\ EndBound(m) \in Nat
           /\ MaxPoll + PMTimeout + MaxPoll <= NoticeBound
           /\ MaxSettle + PMTimeout + MaxPoll <= NoticeBound
           /\ PMTimeout + BeatTimeout[m] + MaxRest[m] <= EndBound(m)
           /\ MaxBoot[m] + FirstTimeout + MaxRest[m] <= EndBound(m)
           /\ MaxInit[m] <= FirstTimeout
           /\ MaxPoll > 0 /\ MaxRest[m] > 0
<1>1. MaxInit[m] <= FirstTimeout
  BY PatienceAssumption
<1>2. MaxPoll > 0 /\ MaxRest[m] > 0
  BY DurationsAssumption
<1> QED BY <1>1, <1>2, Durations DEF NoticeBound, EndBound, Longer

LEMMA DeadlineInvInit == DeadlineInit => TimersSet /\ DeadlineInv
<1> SUFFICES ASSUME DeadlineInit PROVE TimersSet /\ DeadlineInv
  OBVIOUS
<1>1. TimersSet
  BY DEF DeadlineInit, Init, TimersSet
<1>2. HistoryTypes /\ EndNears
  BY DEF DeadlineInit, Init, HistoryTypes, EndNears, Stopped
<1>3. SilenceBounded
  BY DEF DeadlineInit, Init, SilenceBounded, Unnoticed, Mute
<1>4. LoopArmed /\ ResetsRaised /\ StalledWaits
  BY DEF DeadlineInit, Init, LoopArmed, ResetsRaised, StalledWaits
<1> QED BY <1>1, <1>2, <1>3, <1>4 DEF DeadlineInv

\* A step of a process reaches the nap, the timer and the marks of no other.
LEMMA OthersUntouched ==
    ASSUME TypeOK, NEW q \in Procs, Process(q) \/ Environment(q), NEW p \in Procs, p # q
    PROVE  /\ pc'[p] = pc[p] /\ nap'[p] = nap[p] /\ timer'[p] = timer[p]
           /\ p \in stalled' <=> p \in stalled
           /\ p \in leaving' <=> p \in leaving
           /\ p \in faulty' <=> p \in faulty
<1>1. pc'[p] = pc[p]
  BY ProcessEffect DEF TypeOK
<1>2. /\ nap' = nap \/ \E d : nap' = [nap EXCEPT ![q] = d]
      /\ timer' = timer \/ \E d : timer' = [timer EXCEPT ![q] = d]
  BY DEF Process, Environment, Load, Boot, TestTimer, TestFrame, CheckBeat, EndTurn, Work,
         Beat, Rearm, NullFault, Dies, Crash, BadFrame, Stall, Answer, Gone
<1>3. nap'[p] = nap[p] /\ timer'[p] = timer[p]
  BY <1>2 DEF TypeOK
<1>4. /\ p \in stalled' <=> p \in stalled
      /\ p \in leaving' <=> p \in leaving
      /\ p \in faulty' <=> p \in faulty
  BY DEF Process, Environment, Load, Boot, TestTimer, TestFrame, CheckBeat, EndTurn, Work,
         Beat, Rearm, NullFault, Dies, Crash, BadFrame, Stall, Answer, Gone, marks
<1> QED BY <1>1, <1>3, <1>4

\* A step of the manager reaches of a process only its creation.
LEMMA ManagerTouches ==
    ASSUME TypeOK, Manager \/ KeyHit \/ ManagerDies, NEW p \in Procs
    PROVE  /\ nap' = nap /\ timer' = timer /\ stalled' = stalled /\ leaving' = leaving
           /\ \/ pc'[p] = pc[p] /\ (p \in faulty' <=> p \in faulty)
              \/ ~Alive(p) /\ pc'[p] = "load"
<1>0. Startup[idx] \in Modules
  BY IndexFacts DEF TypeOK
<1>1. CASE Create \/ Restart
  <2>1. CASE Launch(Startup[idx])
    <3>1. PICK s \in Slots :
              /\ ~Alive(<<Startup[idx], s>>)
              /\ pc' = [pc EXCEPT ![<<Startup[idx], s>>] = "load"]
              /\ faulty' = faulty \ {<<Startup[idx], s>>}
              /\ UNCHANGED <<nap, timer, marks>>
      BY <2>1 DEF Launch
    <3> QED BY <3>1 DEF TypeOK, marks
  <2>2. CASE ~Launch(Startup[idx])
    BY <1>1, <2>2 DEF Create, Restart, Start, Stop, procVars, marks
  <2> QED BY <2>1, <2>2
<1>2. CASE FailCritical \/ KeyHit \/ ManagerDies
  BY <1>2 DEF FailCritical, KeyHit, ManagerDies, Stop, procVars, marks
<1>3. CASE CreateMapping \/ Poll \/ ReadBeat \/ ResetBeat \/ ArmTimer \/ StillWaiting \/ Kill
  BY <1>3 DEF CreateMapping, Poll, ReadBeat, ResetBeat, ArmTimer, StillWaiting, Kill, procVars, marks
<1> QED BY <1>1, <1>2, <1>3 DEF Manager

LEMMA LoopArmedNext ==
    ASSUME TypeOK, NapsBounded, LoopArmed, [TimelyNext]_vars
    PROVE  LoopArmed'
<1> DEFINE Set(p) == /\ timer[p] \in Nat
                     /\ timer[p] <= FirstTimeout + 1 \/ timer[p] <= BeatTimeout[Image(p)] + 1
<1> SUFFICES ASSUME NEW p \in Procs
             PROVE  /\ pc'[p] \in {"test", "check"} => Set(p)'
                    /\ pc'[p] = "check" /\ p \notin faulty' => timer'[p] > 0 \/ p \in leaving'
  BY DEF LoopArmed
<1>0. /\ pc[p] \in {"test", "check"} => Set(p)
      /\ pc[p] = "check" /\ p \notin faulty => timer[p] > 0 \/ p \in leaving
  BY DEF LoopArmed
<1>q. Image(p) \in Modules /\ pc \in [Procs -> PCs] /\ timer \in [Procs -> Nat \cup {Unset}]
  BY ProcFacts DEF TypeOK, PCs
<1>1. CASE Manager \/ KeyHit \/ ManagerDies
  BY <1>0, <1>1, ManagerTouches
<1>2. ASSUME NEW q \in Procs, Process(q) \/ Environment(q), q # p
      PROVE  /\ pc'[p] \in {"test", "check"} => Set(p)'
             /\ pc'[p] = "check" /\ p \notin faulty' => timer'[p] > 0 \/ p \in leaving'
  BY <1>0, <1>2, OthersUntouched
<1>3. CASE Process(p) \/ Environment(p)
  <2>1. Gone(p) => pc'[p] = "dead"
    BY <1>q DEF Gone
  <2>2. CASE Boot(p)
    BY <1>q, <2>2, Durations DEF Boot, Moves, Armed
  <2>3. CASE TestTimer(p)
    BY <1>0, <1>q, <2>1, <2>3 DEF TestTimer, MayHold
  <2>4. CASE TestFrame(p)
    BY <1>0, <1>q, <2>4 DEF TestFrame, Moves, MayHold
  <2>5. CASE CheckBeat(p)
    BY <1>0, <1>q, <2>1, <2>5 DEF CheckBeat, EndTurn
  <2>6. CASE Rearm(p)
    BY <1>q, <2>1, <2>6, Durations DEF Rearm, EndTurn, Armed
  <2>7. CASE Load(p) \/ Work(p) \/ Beat(p)
    BY <1>q, <2>7 DEF Load, Work, Beat, Moves
  <2>8. CASE NullFault(p) \/ Dies(p) \/ Crash(p)
    BY <2>1, <2>8 DEF NullFault, Dies, Crash
  <2>9. CASE BadFrame(p) \/ Stall(p) \/ Answer(p)
    BY <1>0, <2>9 DEF BadFrame, Stall, Answer
  <2> QED BY <1>3, <2>2, <2>3, <2>4, <2>5, <2>6, <2>7, <2>8, <2>9 DEF Process, Environment
<1>4. CASE TimelyTick
  <2>1. timer'[p] = Elapse(timer[p]) /\ UNCHANGED <<pc, faulty, leaving>>
    BY <1>4 DEF TimelyTick, Tick, marks
  <2>2. pc[p] \in {"test", "check"} => Set(p)'
    BY <1>0, <1>q, <2>1, Durations DEF Elapse
  <2>3. pc[p] = "check" => p \in faulty
    BY <1>4 DEF TimelyTick, ProcessDue, Alive, NapsBounded
  <2> QED BY <1>0, <2>1, <2>2, <2>3
<1>5. CASE UNCHANGED vars
  BY <1>0, <1>5 DEF vars, procVars, marks
<1> QED BY <1>1, <1>2, <1>3, <1>4, <1>5 DEF TimelyNext, Step, Done

LEMMA ResetsRaisedNext ==
    ASSUME TypeOK, ResetsRaised, [TimelyNext]_vars
    PROVE  ResetsRaised'
<1>1. CASE Manager \/ KeyHit \/ ManagerDies
  <2>1. pm' = "reset" => ReadBeat
    BY <1>1 DEF Manager, Create, Restart, Start, CreateMapping, Poll, ResetBeat, ArmTimer,
          StillWaiting, NextModule, FailCritical, Kill, KeyHit, ManagerDies, Stop
  <2> QED BY <2>1 DEF ReadBeat, ResetsRaised
<1>2. ASSUME NEW p \in Procs, Process(p) \/ Environment(p) PROVE ResetsRaised'
  <2>1. UNCHANGED <<pm, idx>>
    BY <1>2, ProcessEffect DEF pmVars
  <2>2. CASE hb' = hb
    BY <2>1, <2>2 DEF ResetsRaised
  <2>3. CASE Beat(p)
    <3>1. Startup[idx] \in Modules
      BY IndexFacts DEF TypeOK
    <3> QED BY <2>1, <2>3, <3>1, ProcFacts DEF Beat, ResetsRaised, TypeOK
  <2> QED BY <1>2, <2>2, <2>3, BeatEffect
<1>3. CASE Tick \/ UNCHANGED vars
  BY <1>3 DEF Tick, vars, pmVars, ResetsRaised
<1> QED BY <1>1, <1>2, <1>3 DEF TimelyNext, Step, TimelyTick, Done

LEMMA StalledWaitsNext ==
    ASSUME TypeOK, StalledWaits, [TimelyNext]_vars
    PROVE  StalledWaits'
<1> SUFFICES ASSUME NEW p \in stalled' PROVE pc'[p] \in {"boot", "work"}
  BY DEF StalledWaits
<1>q. stalled \subseteq Procs /\ pc \in [Procs -> PCs]
  BY DEF TypeOK, PCs
<1>0. p \in stalled => pc[p] \in {"boot", "work"}
  BY DEF StalledWaits
<1>1. CASE Manager \/ KeyHit \/ ManagerDies
  <2>1. stalled' = stalled
    BY <1>1 DEF Manager, Create, Restart, Start, Launch, CreateMapping, Poll, ReadBeat, ResetBeat,
          ArmTimer, StillWaiting, FailCritical, Kill, KeyHit, ManagerDies, Stop, procVars, marks
  <2> QED BY <1>0, <1>1, <1>q, <2>1, ManagerTouches DEF Alive
<1>2. ASSUME NEW q \in Procs, Process(q) \/ Environment(q) PROVE pc'[p] \in {"boot", "work"}
  <2>1. p \in Procs
    BY <1>2, <1>q DEF Process, Environment, Load, Boot, TestTimer, TestFrame, CheckBeat, EndTurn, Work,
          Beat, Rearm, NullFault, Dies, Crash, BadFrame, Stall, Answer, Gone, marks
  <2>2. CASE q # p
    BY <1>0, <1>2, <2>1, <2>2, OthersUntouched
  <2>3. CASE q = p
    <3>0. p \notin stalled \/ ~Gone(p)
      BY DEF Gone
    <3>1. ~Gone(p)
      BY DEF Gone
    <3>2. CASE Load(p) \/ Boot(p) \/ TestTimer(p) \/ TestFrame(p) \/ CheckBeat(p) \/ Work(p)
                  \/ Beat(p) \/ Rearm(p)
      BY <1>0, <3>1, <3>2 DEF Load, Boot, TestTimer, TestFrame, CheckBeat, EndTurn, Work, Beat,
            Rearm, Moves, marks
    <3>3. CASE BadFrame(p) \/ Stall(p) \/ Answer(p)
      BY <1>0, <3>3 DEF BadFrame, Stall, Answer
    <3>4. CASE NullFault(p) \/ Dies(p) \/ Crash(p)
      BY <3>1, <3>4 DEF NullFault, Dies, Crash
    <3> QED BY <1>2, <2>3, <3>2, <3>3, <3>4 DEF Process, Environment
  <2> QED BY <2>2, <2>3
<1>3. CASE TimelyTick \/ UNCHANGED vars
  BY <1>0, <1>3 DEF TimelyTick, Tick, vars, procVars, marks
<1> QED BY <1>1, <1>2, <1>3 DEF TimelyNext, Step, Done

(***************************************************************************)
(* A silent module is noticed.                                             *)
(***************************************************************************)

\* NoticeIn, case by case.
LEMMA NoticeInFacts ==
    ASSUME NEW m \in Modules
    PROVE  /\ hb[m] => NoticeIn(m) = LowersIn(m) + PMTimeout + MaxPoll
           /\ ~hb[m] /\ pm = "arm" /\ Startup[idx] = m => NoticeIn(m) = PMTimeout + MaxPoll
           /\ ~hb[m] /\ pm = "poll" /\ pmTimer[m] <= pmNap => NoticeIn(m) = pmNap
           /\ ~hb[m] /\ ~(pm = "arm" /\ Startup[idx] = m) /\ pmTimer[m] > 0
                  /\ ~(pm = "poll" /\ pmTimer[m] <= pmNap)
                  => NoticeIn(m) = pmTimer[m] + MaxPoll - 1
           /\ ~hb[m] /\ ~(pm = "arm" /\ Startup[idx] = m) /\ ~(pmTimer[m] > 0)
                  /\ ~(pm = "poll" /\ pmTimer[m] <= pmNap)
                  => NoticeIn(m) = IF Ahead(m) THEN 0 ELSE MaxPoll
BY DEF NoticeIn

NoticeInRange == \A m \in Modules : NoticeIn(m) \in Nat /\ NoticeIn(m) <= NoticeBound

LEMMA NoticeInBound ==
    TypeOK /\ NapsBounded /\ NothingAsked /\ TimersSet /\ ~Stopped => NoticeInRange
<1> SUFFICES ASSUME TypeOK, NapsBounded, NothingAsked, TimersSet, ~Stopped, NEW m \in Modules
             PROVE  NoticeIn(m) \in Nat /\ NoticeIn(m) <= NoticeBound
  BY DEF NoticeInRange
<1>1. /\ LowersIn(m) \in Nat
      /\ LowersIn(m) <= MaxSettle \/ LowersIn(m) <= MaxPoll
  BY LowersInBound
<1>2. CASE hb[m]
  BY <1>1, <1>2, Bounds, Durations, NoticeInFacts
<1>3. CASE ~hb[m] /\ pm = "arm" /\ Startup[idx] = m
  BY <1>3, Bounds, Durations, NoticeInFacts
<1>4. CASE ~hb[m] /\ ~(pm = "arm" /\ Startup[idx] = m)
  <2>1. pmTimer[m] \in Nat /\ pmTimer[m] <= PMTimeout + 1
    BY <1>4, Durations DEF TypeOK, Timers, Unset, TimersSet
  <2>2. pmNap \in Nat /\ (pmNap <= MaxSettle \/ pmNap <= MaxPoll)
    BY DEF TypeOK, NapsBounded
  <2> QED BY <1>4, <2>1, <2>2, Bounds, Durations, NoticeInFacts
<1> QED BY <1>2, <1>3, <1>4

LEMMA NoticeInBoundNext ==
    (TypeOK /\ NapsBounded /\ NothingAsked /\ TimersSet /\ ~Stopped)' => NoticeInRange'
BY NoticeInBound, PTL

\* A process that is dead or blocked sends no heartbeat.
LEMMA MuteSendsNothing ==
    ASSUME TypeOK, OneProcess, StalledWaits, NEW m \in Modules, Mute(m),
           NEW q \in Procs, Process(q) \/ Environment(q)
    PROVE  hb'[m] = hb[m]
<1>1. CASE hb' = hb
  BY <1>1
<1>2. CASE Beat(q)
  <2>1. pc[q] = "beat" /\ hb' = [hb EXCEPT ![Image(q)] = TRUE]
    BY <1>2 DEF Beat, Moves
  <2>2. q = Current(Image(q)) /\ q \notin stalled /\ Alive(q)
    BY <2>1 DEF OneProcess, StalledWaits, Alive
  <2>3. Image(q) # m
    BY <2>2 DEF Mute
  <2> QED BY <2>1, <2>3, ProcFacts DEF TypeOK
<1> QED BY <1>1, <1>2, BeatEffect

\* A step of the manager brings the moment it notices no further away.
LEMMA NoticeComesCloser ==
    ASSUME TypeOK, TypeOK', NapsBounded, NapsBounded', NothingAsked, TimersSet, ResetsRaised,
           ResetsRaised', Manager, ~Stopped', NEW m \in Modules, ~(pm = "start" /\ Startup[idx] = m),
           ~(pm' = "start" /\ Startup[idx'] = m)
    PROVE  NoticeIn(m)' <= NoticeIn(m)
<1> DEFINE t == pmTimer[m]
<1>0. /\ idx \in 1 .. N /\ N \in Nat \ {0} /\ MaxPoll \in Nat /\ MaxPoll > 0 /\ PMTimeout \in Nat
      /\ pmNap \in Nat /\ Startup[idx] \in Modules /\ ~Stopped
      /\ \E i \in 1 .. N : Startup[i] = m
  BY LoopFacts, Durations, Bounds, IndexFacts, ModulesAssumption, ManagerMoves DEF TypeOK
<1>1. CASE hb[m] /\ hb'[m]
  <2>1. LowersIn(m)' <= LowersIn(m)
    BY <1>1, LowersComesCloser
  <2>2. LowersIn(m) \in Nat /\ LowersIn(m)' \in Nat
    <3>1. LowersIn(m) \in Nat
      BY LowersInBound
    <3>2. pmNap' \in Nat
      BY DEF TypeOK
    <3> QED BY <3>1, <3>2, DurationsAssumption DEF LowersIn
  <2> QED BY <1>0, <1>1, <2>1, <2>2 DEF NoticeIn
<1>2. CASE hb[m] /\ ~hb'[m]
  <2>1. ResetBeat /\ Startup[idx] = m
    <3>1. hb' = hb \/ ResetBeat
      BY DEF Manager, Create, Restart, Start, Stop, CreateMapping, Poll, ReadBeat, ArmTimer,
             StillWaiting, FailCritical, Kill
    <3> QED BY <1>2, <3>1 DEF ResetBeat, TypeOK
  <2>2. NoticeIn(m)' = PMTimeout + MaxPoll
    BY <1>2, <2>1 DEF NoticeIn, ResetBeat
  <2>3. LowersIn(m) \in Nat
    BY LowersInBound
  <2> QED BY <1>0, <1>2, <2>2, <2>3, NoticeInFacts
<1>3. CASE ~hb[m]
  <2>0. ~hb'[m] /\ pm \notin {"create", "map"}
    BY <1>3, ManagerLowers DEF NothingAsked, Settling
  <2>1. (pm = "arm" /\ Startup[idx] = m) \/ t \in Nat
    BY <1>0, <1>3 DEF TypeOK, Timers, Unset, TimersSet
  <2>2. CASE Poll
    <3>1. /\ pm = "poll" /\ pmNap = 0 /\ pm' = "scan" /\ idx' = 1 /\ pmTimer' = pmTimer
          /\ Ahead(m)'
      BY <1>0, <2>2 DEF Poll, NapsBounded, Ahead
    <3> QED BY <1>0, <1>3, <2>0, <2>1, <3>1 DEF NoticeIn
  <2>3. CASE ReadBeat \/ ResetBeat \/ Kill \/ Restart
    <3>1. /\ idx' = idx /\ pmTimer' = pmTimer /\ {pm, pm'} \cap {"poll"} = {}
          /\ ~(pm = "arm") /\ ~(pm' = "arm" /\ Startup[idx] = m)
      BY <1>0, <1>3, <2>3 DEF ReadBeat, ResetBeat, Kill, Restart, Start, Stop, Stopped, ResetsRaised
    <3>2. Ahead(m) <=> Ahead(m)'
      <4>1. CASE ReadBeat
        BY <4>1 DEF ReadBeat, Ahead
      <4>2. CASE ~ReadBeat
        <5>1. Startup[idx] # m
          BY <1>3, <2>3, <4>2 DEF ResetBeat, Kill, Restart, ResetsRaised
        <5>2. pm \in {"reset", "late", "start"} /\ pm' \in {"start", "arm"}
          BY <2>3, <4>2 DEF ResetBeat, Kill, Restart, Start, Stop, Stopped
        <5>3. (\E i \in idx .. N : Startup[i] = m) <=> (\E i \in idx + 1 .. N : Startup[i] = m)
          BY <1>0, <5>1
        <5> QED BY <3>1, <5>2, <5>3 DEF Ahead
      <4> QED BY <4>1, <4>2
    <3>3. NoticeIn(m) = IF t > 0 THEN t + MaxPoll - 1 ELSE IF Ahead(m) THEN 0 ELSE MaxPoll
      BY <1>3, <3>1 DEF NoticeIn
    <3>4. NoticeIn(m)' = IF t > 0 THEN t + MaxPoll - 1 ELSE IF Ahead(m)' THEN 0 ELSE MaxPoll
      BY <2>0, <3>1 DEF NoticeIn
    <3>5. t \in Nat
      BY <2>1, <3>1
    <3>6. NoticeIn(m)' = NoticeIn(m)
      BY <3>2, <3>3, <3>4
    <3>7. NoticeIn(m) \in Int
      BY <1>0, <3>3, <3>5
    <3> QED BY <3>6, <3>7
  <2>4. CASE ArmTimer /\ Startup[idx] = m
    <3>1. /\ pm = "arm" /\ pm' \in {"scan", "poll"} /\ pmTimer'[m] = PMTimeout + 1
          /\ pm' = "poll" => pmNap' \in 1 .. MaxPoll
      BY <2>4 DEF ArmTimer, NextModule, Armed, TypeOK
    <3>2. NoticeIn(m) = PMTimeout + MaxPoll
      BY <1>3, <2>4, <3>1 DEF NoticeIn
    <3>3. NoticeIn(m)' = IF pm' = "poll" /\ PMTimeout + 1 <= pmNap' THEN pmNap'
                         ELSE PMTimeout + 1 + MaxPoll - 1
      BY <1>0, <2>0, <3>1 DEF NoticeIn
    <3> QED BY <1>0, <3>1, <3>2, <3>3
  <2>5. CASE (ArmTimer \/ StillWaiting) /\ ~(ArmTimer /\ Startup[idx] = m)
    <3>1. pmTimer'[m] = t /\ pm \in {"arm", "late"} /\ NextModule
          /\ ~(pm = "arm" /\ Startup[idx] = m)
      BY <1>0, <2>5 DEF ArmTimer, StillWaiting, TypeOK
    <3>q. /\ t \in Nat
          /\ NoticeIn(m) = IF t > 0 THEN t + MaxPoll - 1 ELSE IF Ahead(m) THEN 0 ELSE MaxPoll
      BY <1>3, <2>1, <3>1 DEF NoticeIn
    <3>2. Startup[idx] = m => t > 0
      BY <1>0, <2>1, <2>5, <3>1 DEF StillWaiting, MayHold, ArmTimer
    <3>3. CASE idx < N
      <4>1. pm' = "scan" /\ idx' = idx + 1
        BY <1>0, <3>1, <3>3 DEF NextModule
      <4>2. t = 0 => (Ahead(m) <=> Ahead(m)')
        <5>1. Startup[idx] # m =>
              ((\E i \in idx .. N : Startup[i] = m) <=> (\E i \in idx + 1 .. N : Startup[i] = m))
          BY <1>0
        <5> QED BY <2>1, <3>1, <3>2, <4>1, <5>1 DEF Ahead
      <4>3. NoticeIn(m)' = IF t > 0 THEN t + MaxPoll - 1 ELSE IF Ahead(m)' THEN 0 ELSE MaxPoll
        BY <2>0, <3>1, <4>1 DEF NoticeIn
      <4> QED BY <1>0, <3>q, <4>2, <4>3
    <3>4. CASE idx = N
      <4>1. pm' = "poll" /\ pmNap' \in 1 .. MaxPoll
        BY <1>0, <3>1, <3>4 DEF NextModule
      <4>2. t = 0 => ~Ahead(m)
        <5>1. Startup[idx] # m => ~ \E i \in idx .. N : Startup[i] = m
          BY <1>0, <3>4
        <5>2. ~ \E i \in idx + 1 .. N : Startup[i] = m
          BY <1>0, <3>4
        <5> QED BY <3>1, <3>2, <5>1, <5>2 DEF Ahead
      <4>3. NoticeIn(m)' = IF t <= pmNap' THEN pmNap'
                           ELSE IF t > 0 THEN t + MaxPoll - 1
                           ELSE IF Ahead(m)' THEN 0 ELSE MaxPoll
        BY <2>0, <3>1, <4>1 DEF NoticeIn
      <4> QED BY <1>0, <3>q, <4>1, <4>2, <4>3
    <3> QED BY <1>0, <3>3, <3>4
  <2>6. ~Create /\ ~CreateMapping /\ ~FailCritical
    BY <2>0 DEF Create, CreateMapping, FailCritical, Stop, Stopped
  <2> QED BY <2>2, <2>3, <2>4, <2>5, <2>6 DEF Manager
<1> QED BY <1>1, <1>2, <1>3

\* What a step that takes no time does to a silence that goes on.
LEMMA StepNotices ==
    ASSUME TypeOK, TypeOK', OneProcess, NapsBounded, NapsBounded', NothingAsked, TimersSet,
           ResetsRaised, ResetsRaised', StalledWaits, Step,
           NEW m \in Modules, Unnoticed(m), Unnoticed(m)', NoticeIn(m) \in Nat
    PROVE  NoticeIn(m)' <= NoticeIn(m)
<1>1. CASE Manager
  BY <1>1, NoticeComesCloser DEF Unnoticed
<1>2. CASE KeyHit \/ ManagerDies
  BY <1>2 DEF KeyHit, ManagerDies, Stop, Stopped, Unnoticed
<1>3. ASSUME NEW q \in Procs, Process(q) \/ Environment(q) PROVE NoticeIn(m)' <= NoticeIn(m)
  <2>1. UNCHANGED <<pm, idx, pmNap, pmTimer>>
    BY <1>3, ProcessEffect DEF pmVars
  <2>2. hb'[m] = hb[m]
    BY <1>3, MuteSendsNothing DEF Unnoticed
  <2>3. NoticeIn(m)' = NoticeIn(m)
    BY <2>1, <2>2 DEF NoticeIn, LowersIn, Ahead
  <2> QED BY <2>3
<1>4. CASE Done
  BY <1>4 DEF Done, Quiet, Unnoticed
<1> QED BY <1>1, <1>2, <1>3, <1>4 DEF Step

LEMMA TickNotices ==
    ASSUME TypeOK, NapsBounded, NothingAsked, TimersSet, TimelyTick,
           NEW m \in Modules, Unnoticed(m)
    PROVE  NoticeIn(m)' + 1 <= NoticeIn(m)
<1>0. /\ pm = "poll" /\ pmNap \in Nat \ {0} /\ MaxPoll \in Nat \ {0} /\ PMTimeout \in Nat
      /\ pmTimer[m] \in Timers(PMTimeout)
  BY Durations, Bounds DEF TimelyTick, ManagerDue, Unnoticed, TypeOK
<1>1. /\ pm' = pm /\ idx' = idx /\ hb' = hb
      /\ pmNap' = pmNap - 1 /\ pmTimer'[m] = Elapse(pmTimer[m])
  BY <1>0 DEF TimelyTick, Tick, Elapse
<1>2. CASE hb[m]
  <2>1. NoticeIn(m) = pmNap + PMTimeout + MaxPoll
    BY <1>0, <1>2 DEF NoticeIn, LowersIn
  <2>2. NoticeIn(m)' = pmNap' + PMTimeout + MaxPoll
    BY <1>0, <1>1, <1>2 DEF NoticeIn, LowersIn
  <2> QED BY <1>0, <1>1, <2>1, <2>2
<1>3. CASE ~hb[m]
  <2>1. pmTimer[m] \in Nat
    BY <1>0, <1>3 DEF Timers, Unset, TimersSet, Stopped
  <2>2. NoticeIn(m) = IF pmTimer[m] <= pmNap THEN pmNap ELSE pmTimer[m] + MaxPoll - 1
    BY <1>0, <1>3, <2>1 DEF NoticeIn
  <2>3. pmTimer'[m] \in Nat /\ pmTimer'[m] = IF pmTimer[m] > 0 THEN pmTimer[m] - 1 ELSE 0
    BY <1>1, <2>1 DEF Elapse
  <2>4. NoticeIn(m)' = IF pmTimer'[m] <= pmNap' THEN pmNap' ELSE pmTimer'[m] + MaxPoll - 1
    BY <1>0, <1>1, <1>3, <2>3 DEF NoticeIn
  <2> QED BY <1>0, <1>1, <2>1, <2>2, <2>3, <2>4
<1> QED BY <1>2, <1>3

LEMMA SilenceNext ==
    ASSUME TypeOK, TypeOK', OneProcess, NapsBounded, NapsBounded', NothingAsked, NothingAsked',
           TimersSet, TimersSet', HistoryTypes, SilenceBounded, StalledWaits, ResetsRaised,
           ResetsRaised', [DeadlineNext]_<<vars, histVars>>
    PROVE  SilenceBounded'
<1> SUFFICES ASSUME NEW m \in Modules
             PROVE  IF Unnoticed(m)' THEN silent'[m] + NoticeIn(m)' <= NoticeBound ELSE silent'[m] = 0
  BY DEF SilenceBounded, NoticeBound
<1>0. /\ silent[m] \in Nat /\ NoticeBound \in Nat
      /\ Unnoticed(m) => silent[m] + NoticeIn(m) <= NoticeBound
      /\ ~Unnoticed(m) => silent[m] = 0
      /\ Unnoticed(m) => NoticeIn(m) \in Nat
      /\ Unnoticed(m)' => NoticeIn(m)' \in Nat /\ NoticeIn(m)' <= NoticeBound
  <2>1. Unnoticed(m) => NoticeIn(m) \in Nat
    BY NoticeInBound DEF NoticeInRange, Unnoticed
  <2>2. Unnoticed(m)' => NoticeIn(m)' \in Nat /\ NoticeIn(m)' <= NoticeBound
    BY NoticeInBoundNext DEF NoticeInRange, Unnoticed, NoticeBound
  <2> QED BY <2>1, <2>2, Bounds DEF HistoryTypes, SilenceBounded
<1>1. CASE Step /\ Record(0)
  <2>1. silent'[m] = IF Unnoticed(m)' THEN silent[m] ELSE 0
    BY <1>0, <1>1 DEF Record
  <2>2. Unnoticed(m)' /\ Unnoticed(m) => NoticeIn(m)' <= NoticeIn(m)
    BY <1>0, <1>1, StepNotices
  <2> QED BY <1>0, <2>1, <2>2
<1>2. CASE TimelyTick /\ Record(1)
  <2>1. silent'[m] = IF Unnoticed(m)' THEN silent[m] + 1 ELSE 0
    BY <1>2 DEF Record
  <2>2. Unnoticed(m)' <=> Unnoticed(m)
    BY <1>2 DEF TimelyTick, Tick, Unnoticed, Mute, Stopped, Current, Alive, marks
  <2>3. Unnoticed(m) => NoticeIn(m)' + 1 <= NoticeIn(m)
    BY <1>2, TickNotices
  <2> QED BY <1>0, <2>1, <2>2, <2>3
<1>3. CASE UNCHANGED <<vars, histVars>>
  <2>1. NoticeIn(m)' = NoticeIn(m) /\ silent' = silent /\ (Unnoticed(m)' <=> Unnoticed(m))
    BY <1>3 DEF vars, histVars, pmVars, procVars, marks, NoticeIn, LowersIn, Ahead, Unnoticed, Mute,
          Stopped, Current, Alive
  <2> QED BY <1>0, <2>1
<1> QED BY <1>1, <1>2, <1>3 DEF DeadlineNext

(***************************************************************************)
(* A process whose manager has stopped ends.                               *)
(***************************************************************************)
EndsInRange ==
    \A p \in Procs : Alive(p) => EndsIn(p) \in Nat /\ EndsIn(p) <= EndBound(Image(p))

LEMMA EndsInBound == TypeOK /\ NapsBounded /\ LoopArmed => EndsInRange
<1> SUFFICES ASSUME TypeOK, NapsBounded, LoopArmed, NEW p \in Procs, Alive(p)
             PROVE  EndsIn(p) \in Nat /\ EndsIn(p) <= EndBound(Image(p))
  BY DEF EndsInRange
<1> DEFINE m == Image(p)
<1>0. m \in Modules /\ nap[p] \in Nat /\ pc[p] \in PCs \ {"dead"}
  BY ProcFacts DEF TypeOK, PCs, Alive
<1>1. CASE ~hb[m]
  BY <1>0, <1>1, AnswerInBound, Bounds, Durations DEF EndsIn
<1>2. CASE hb[m] /\ pc[p] \in {"load", "boot"}
  <2>1. pc[p] = "boot" => nap[p] <= MaxBoot[m]
    BY DEF NapsBounded
  <2>2. EndsIn(p) = (IF pc[p] = "load" THEN MaxBoot[m] ELSE nap[p]) + FirstTimeout + MaxRest[m]
    BY <1>2 DEF EndsIn
  <2> QED BY <1>0, <1>2, <2>1, <2>2, Bounds, Durations
<1>3. CASE hb[m] /\ pc[p] \in {"test", "check"}
  <2>1. /\ nap[p] <= MaxRest[m] \/ nap[p] <= MaxInit[m]
        /\ timer[p] \in Nat
        /\ timer[p] <= FirstTimeout + 1 \/ timer[p] <= BeatTimeout[m] + 1
    BY <1>0, <1>3, Durations DEF NapsBounded, LoopArmed
  <2>2. EndsIn(p) = IF timer[p] <= nap[p] THEN nap[p] ELSE timer[p] + MaxRest[m] - 1
    BY <1>3 DEF EndsIn
  <2> QED BY <1>0, <2>1, <2>2, Bounds, Durations
<1>4. CASE hb[m] /\ pc[p] \in {"work", "beat", "rearm"}
  BY <1>0, <1>4, Bounds, Durations DEF EndsIn
<1> QED BY <1>0, <1>1, <1>2, <1>3, <1>4 DEF PCs

LEMMA EndsInBoundNext == (TypeOK /\ NapsBounded /\ LoopArmed)' => EndsInRange'
BY EndsInBound, PTL

\* A step of a process that goes on living brings its end no further away.
LEMMA EndComesCloser ==
    ASSUME TypeOK, NapsBounded, LoopArmed, BeatIsOwed, NEW p \in Procs,
           Process(p) \/ Environment(p), Alive(p), Alive(p)', p \notin faulty'
    PROVE  EndsIn(p)' <= EndsIn(p)
<1> DEFINE m == Image(p)
           t == timer[p]
           n == nap[p]
<1>0. /\ m \in Modules /\ nap \in [Procs -> Nat] /\ pc \in [Procs -> PCs]
      /\ timer \in [Procs -> Nat \cup {Unset}] /\ hb \in [Modules -> BOOLEAN]
      /\ MaxRest[m] > 0 /\ MaxInit[m] <= FirstTimeout
  BY ProcFacts, Bounds DEF TypeOK, PCs
<1>1. p \notin faulty
  BY DEF Process, Environment, Load, Boot, TestTimer, TestFrame, CheckBeat, Work, Beat,
         Rearm, NullFault, Dies, Crash, BadFrame, Stall, Answer
<1>2. ~Gone(p)
  BY <1>0 DEF Gone, Alive
<1>3. CASE Load(p)
  <2>1. /\ pc[p] = "load" /\ pc'[p] = "boot" /\ hb' = hb
        /\ nap'[p] <= MaxBoot[m] /\ nap'[p] \in Nat
    BY <1>0, <1>3, Durations DEF Load, Moves
  <2> QED BY <1>0, <2>1, Durations DEF EndsIn, AnswerIn
<1>4. CASE Boot(p)
  <2>1. /\ pc[p] = "boot" /\ pc'[p] = "test" /\ hb' = hb /\ n = 0
        /\ nap'[p] <= MaxInit[m] /\ nap'[p] \in Nat /\ timer'[p] = FirstTimeout + 1
    BY <1>0, <1>4, Durations DEF Boot, Moves, Armed
  <2> QED BY <1>0, <2>1, Durations DEF EndsIn, AnswerIn
<1>5. CASE TestTimer(p) \/ TestFrame(p)
  <2>1. /\ pc[p] = "test" /\ pc'[p] = "check" /\ hb' = hb /\ n = 0
        /\ nap' = nap /\ timer' = timer
    BY <1>0, <1>2, <1>5 DEF TestTimer, TestFrame, Moves
  <2>2. EndsIn(p) \in Nat
    BY EndsInBound DEF EndsInRange
  <2>3. CASE hb[m]
    BY <2>1, <2>2, <2>3 DEF EndsIn
  <2>4. CASE ~hb[m]
    BY <1>0, <2>1, <2>4, Durations DEF EndsIn, AnswerIn
  <2> QED BY <2>3, <2>4
<1>6. CASE CheckBeat(p) /\ ~hb[m]
  <2>1. /\ pc[p] = "check" /\ hb' = hb
        /\ \/ pc'[p] = "work" /\ nap'[p] <= MaxWork[m] /\ nap'[p] \in Nat
           \/ pc'[p] = "beat"
    BY <1>0, <1>6, Durations DEF CheckBeat
  <2> QED BY <1>0, <1>6, <2>1, Durations DEF EndsIn, AnswerIn
<1>7. CASE CheckBeat(p) /\ hb[m]
  <2>1. /\ pc[p] = "check" /\ pc'[p] = "test" /\ hb' = hb /\ p \notin leaving
        /\ nap'[p] <= MaxRest[m] /\ nap'[p] \in Nat /\ timer' = timer
    BY <1>0, <1>2, <1>7, Durations DEF CheckBeat, EndTurn
  <2>2. t \in Nat /\ t > 0 /\ n = 0
    BY <1>1, <2>1 DEF LoopArmed, NapsBounded
  <2> QED BY <1>0, <1>7, <2>1, <2>2, Durations DEF EndsIn
<1>8. CASE Work(p)
  <2>1. pc[p] = "work" /\ pc'[p] = "beat" /\ hb' = hb /\ ~hb[m]
    BY <1>0, <1>8 DEF Work, Moves, BeatIsOwed
  <2> QED BY <1>0, <2>1, Durations DEF EndsIn, AnswerIn
<1>9. CASE Beat(p)
  <2>1. pc[p] = "beat" /\ pc'[p] = "rearm" /\ hb'[m] /\ ~hb[m]
    BY <1>0, <1>9 DEF Beat, Moves, BeatIsOwed
  <2> QED BY <1>0, <2>1, Durations DEF EndsIn, AnswerIn
<1>10. CASE Rearm(p)
  <2>1. /\ pc[p] = "rearm" /\ pc'[p] = "test" /\ hb' = hb
        /\ nap'[p] <= MaxRest[m] /\ nap'[p] \in Nat /\ timer'[p] = BeatTimeout[m] + 1
    BY <1>0, <1>2, <1>10, Durations DEF Rearm, EndTurn, Armed
  <2> QED BY <1>0, <2>1, Durations DEF EndsIn, AnswerIn
<1>11. CASE NullFault(p) \/ Dies(p) \/ Crash(p)
  BY <1>2, <1>11 DEF NullFault, Dies, Crash
<1>12. CASE BadFrame(p) \/ Stall(p)
  BY <1>12 DEF BadFrame, Stall
<1>13. CASE Answer(p)
  <2>1. UNCHANGED <<hb, pc, nap, timer>>
    BY <1>13 DEF Answer
  <2>2. EndsIn(p) \in Nat /\ EndsIn(p)' = EndsIn(p)
    BY <2>1, EndsInBound DEF EndsInRange, EndsIn, AnswerIn
  <2> QED BY <2>2
<1> QED BY <1>3, <1>4, <1>5, <1>6, <1>7, <1>8, <1>9, <1>10, <1>11, <1>12, <1>13
        DEF Process, Environment

LEMMA TickEnds ==
    ASSUME TypeOK, NapsBounded, LoopArmed, BeatIsOwed, TimelyTick,
           NEW p \in Procs, Alive(p), p \notin faulty
    PROVE  EndsIn(p)' + 1 <= EndsIn(p)
<1> DEFINE m == Image(p)
<1>0. /\ m \in Modules /\ nap[p] \in Nat /\ nap[p] # 0 /\ timer[p] \in Nat \cup {Unset}
      /\ pc[p] \in {"boot", "test", "work"} /\ pc' = pc /\ hb' = hb
  <2>1. nap[p] # 0
    BY DEF TimelyTick, ProcessDue
  <2>2. pc[p] \in {"boot", "test", "work"}
    BY <2>1 DEF NapsBounded, TypeOK
  <2> QED BY <2>1, <2>2, ProcFacts DEF TimelyTick, Tick, TypeOK
<1>1. nap'[p] = nap[p] - 1 /\ timer'[p] = Elapse(timer[p])
  BY <1>0 DEF TimelyTick, Tick, Elapse
<1>2. CASE ~hb[m]
  BY <1>0, <1>1, <1>2, Durations DEF EndsIn, AnswerIn
<1>3. CASE hb[m] /\ pc[p] = "boot"
  BY <1>0, <1>1, <1>3, Durations DEF EndsIn
<1>4. CASE hb[m] /\ pc[p] = "test"
  <2>1. timer[p] \in Nat
    BY <1>4 DEF LoopArmed
  <2>2. timer'[p] = IF timer[p] > 0 THEN timer[p] - 1 ELSE 0
    BY <1>1, <2>1 DEF Elapse
  <2>3. EndsIn(p) = IF timer[p] <= nap[p] THEN nap[p] ELSE timer[p] + MaxRest[m] - 1
    BY <1>4 DEF EndsIn
  <2>4. EndsIn(p)' = IF timer'[p] <= nap'[p] THEN nap'[p] ELSE timer'[p] + MaxRest[m] - 1
    BY <1>0, <1>4 DEF EndsIn
  <2> QED BY <1>0, <1>1, <2>1, <2>2, <2>3, <2>4, Durations
<1>5. ~(hb[m] /\ pc[p] = "work")
  BY DEF BeatIsOwed
<1> QED BY <1>0, <1>2, <1>3, <1>4, <1>5

LEMMA EndNext ==
    ASSUME TypeOK, TypeOK', OneProcess, NapsBounded, NapsBounded', LoopArmed, LoopArmed',
           BeatIsOwed, HistoryTypes, EndNears, [DeadlineNext]_<<vars, histVars>>
    PROVE  EndNears'
<1>1. CASE Step /\ Record(0)
  <2>1. alone' = IF Stopped' THEN alone ELSE 0
    BY <1>1 DEF Record, HistoryTypes
  <2>2. CASE ~Stopped'
    BY <2>1, <2>2 DEF EndNears
  <2>3. CASE Stopped' /\ ~Stopped
    <3>1. alone' = 0
      BY <2>1, <2>3 DEF EndNears
    <3>2. EndsInRange'
      BY EndsInBoundNext
    <3> QED BY <2>3, <3>1, <3>2 DEF EndNears, EndsInRange, EndBound
  <2>4. CASE Stopped' /\ Stopped
    <3>1. SUFFICES ASSUME NEW p \in Procs, Alive(p)', p \notin faulty'
                   PROVE  alone' + EndsIn(p)' <= EndBound(Image(p))
      BY <2>4 DEF EndNears, EndBound
    <3>2. EndsIn(p)' \in Nat /\ EndBound(Image(p)) \in Nat /\ alone \in Nat /\ alone' = alone
      BY <2>1, <2>4, <3>1, EndsInBoundNext, Bounds, ProcFacts DEF EndsInRange, HistoryTypes
    <3>3. ASSUME NEW q \in Procs, Process(q) \/ Environment(q)
          PROVE  Alive(p) /\ p \notin faulty /\ EndsIn(p)' <= EndsIn(p)
      <4>1. Alive(p) /\ p \notin faulty
        <5>1. Alive(p)
          BY <3>1, <3>3, ProcessEffect DEF Alive, TypeOK
        <5>2. faulty \subseteq faulty'
          BY <3>3 DEF Process, Environment, Load, Boot, TestTimer, TestFrame, CheckBeat, Work, Beat,
                Rearm, NullFault, Dies, Crash, BadFrame, Stall, Answer
        <5> QED BY <3>1, <5>1, <5>2
      <4>2. CASE q = p
        BY <3>1, <3>3, <4>1, <4>2, EndComesCloser
      <4>3. CASE q # p
        <5>1. pc'[p] = pc[p] /\ nap'[p] = nap[p] /\ timer'[p] = timer[p]
          BY <3>3, <4>3, OthersUntouched
        <5>2. hb'[Image(p)] = hb[Image(p)]
          <6>1. CASE hb' = hb
            BY <6>1
          <6>2. CASE Beat(q)
            <7>1. Alive(q)
              BY <6>2 DEF Beat, Moves, Alive
            <7>2. Image(q) # Image(p)
              BY <4>1, <4>3, <7>1 DEF OneProcess
            <7> QED BY <6>2, <7>2, ProcFacts DEF Beat, TypeOK
          <6> QED BY <3>3, <6>1, <6>2, BeatEffect
        <5>3. EndsIn(p)' = EndsIn(p)
          BY <5>1, <5>2 DEF EndsIn, AnswerIn
        <5> QED BY <3>2, <4>1, <5>3
      <4> QED BY <4>2, <4>3
    <3>4. ASSUME Done PROVE Alive(p) /\ p \notin faulty /\ EndsIn(p)' <= EndsIn(p)
      BY <3>1, <3>4 DEF Done, Quiet, vars, procVars, Alive
    <3>5. Alive(p) /\ p \notin faulty /\ EndsIn(p)' <= EndsIn(p)
      BY <1>1, <2>4, <3>3, <3>4, ManagerMoves DEF Step
    <3>6. EndsIn(p) \in Nat
      BY <3>5, EndsInBound DEF EndsInRange
    <3> QED BY <2>4, <3>2, <3>5, <3>6 DEF EndNears
  <2> QED BY <2>2, <2>3, <2>4
<1>2. CASE TimelyTick /\ Record(1)
  <2>1. UNCHANGED <<pm, pc, faulty>> /\ (Stopped' <=> Stopped)
    BY <1>2 DEF TimelyTick, Tick, Stopped
  <2>2. alone' = IF Stopped THEN alone + 1 ELSE 0
    BY <1>2, <2>1 DEF Record
  <2>3. ASSUME NEW p \in Procs, Stopped, Alive(p), p \notin faulty
        PROVE  alone' + EndsIn(p)' <= EndBound(Image(p))
    <3>1. EndsIn(p)' + 1 <= EndsIn(p)
      BY <1>2, <2>3, TickEnds
    <3>2. alone + EndsIn(p) <= EndBound(Image(p)) /\ alone \in Nat /\ EndBound(Image(p)) \in Nat
      BY <2>3, Bounds, ProcFacts DEF EndNears, HistoryTypes
    <3>3. EndsIn(p) \in Nat /\ EndsIn(p)' \in Nat
      BY <2>1, <2>3, EndsInBound, EndsInBoundNext DEF EndsInRange, Alive
    <3> QED BY <2>2, <2>3, <3>1, <3>2, <3>3
  <2> QED BY <2>1, <2>2, <2>3 DEF EndNears, Alive, EndBound
<1>3. CASE UNCHANGED <<vars, histVars>>
  <2>1. /\ UNCHANGED <<alone, pc, faulty>> /\ (Stopped' <=> Stopped)
        /\ \A p \in Procs : EndsIn(p)' = EndsIn(p)
    BY <1>3 DEF vars, histVars, pmVars, procVars, Stopped, EndsIn, AnswerIn
  <2> QED BY <2>1 DEF EndNears, Alive, EndBound
<1> QED BY <1>1, <1>2, <1>3 DEF DeadlineNext

LEMMA HistoryNext ==
    ASSUME HistoryTypes, [DeadlineNext]_<<vars, histVars>>
    PROVE  HistoryTypes'
<1>1. ASSUME NEW ticks \in {0, 1}, Record(ticks) PROVE HistoryTypes'
  BY <1>1 DEF Record, HistoryTypes
<1>2. CASE UNCHANGED <<vars, histVars>>
  BY <1>2 DEF histVars, HistoryTypes
<1> QED BY <1>1, <1>2 DEF DeadlineNext

LEMMA DeadlineInvAlways ==
    DeadlineSpec => [](TypeOK /\ OneProcess /\ TimelyInv /\ BeatIsOwed /\ TimersSet /\ DeadlineInv)
<1> DEFINE Before == TypeOK /\ OneProcess /\ TimelyInv /\ BeatIsOwed /\ TimersSet
<1>1. DeadlineInit => Before /\ DeadlineInv
  BY InitTypes, OneProcessInit, TimelyInit, DeadlineInvInit DEF DeadlineInit, Init, BeatIsOwed
<1>2. Before /\ [DeadlineNext]_<<vars, histVars>> => Before'
  <2> SUFFICES ASSUME Before, [DeadlineNext]_<<vars, histVars>> PROVE Before'
    OBVIOUS
  <2>1. [TimelyNext]_vars /\ [Next]_vars
    BY DeadlineIsTimely, TimelyIsNext
  <2>2. TypeOK' /\ OneProcess'
    BY <2>1, NextTypes, OneProcessNext
  <2> QED BY <2>1, <2>2, TimelyInvNext, BeatIsOwedNext, ArmedNext
<1>3. Before /\ Before' /\ DeadlineInv /\ [DeadlineNext]_<<vars, histVars>> => DeadlineInv'
  <2> SUFFICES ASSUME Before, Before', DeadlineInv, [DeadlineNext]_<<vars, histVars>>
               PROVE  DeadlineInv'
    OBVIOUS
  <2>1. [TimelyNext]_vars
    BY DeadlineIsTimely
  <2>2. LoopArmed' /\ ResetsRaised' /\ StalledWaits'
    BY <2>1, LoopArmedNext, ResetsRaisedNext, StalledWaitsNext DEF DeadlineInv, TimelyInv
  <2>3. HistoryTypes'
    BY HistoryNext DEF DeadlineInv
  <2>4. SilenceBounded'
    BY <2>2, SilenceNext DEF DeadlineInv, TimelyInv
  <2>5. EndNears'
    BY <2>2, EndNext DEF DeadlineInv, TimelyInv
  <2> QED BY <2>2, <2>3, <2>4, <2>5 DEF DeadlineInv
<1> QED BY <1>1, <1>2, <1>3, PTL DEF DeadlineSpec

\* A module that died or hangs is dealt with before the bound is over.
THEOREM NoticedInTimeAlways == DeadlineSpec => []NoticedInTime
<1>1. TypeOK /\ OneProcess /\ TimelyInv /\ TimersSet /\ DeadlineInv => NoticedInTime
  <2> SUFFICES ASSUME TypeOK, TimelyInv, TimersSet, DeadlineInv, NEW m \in Modules
               PROVE  silent[m] <= NoticeBound
    BY DEF NoticedInTime
  <2>1. silent[m] \in Nat /\ NoticeBound \in Nat
    BY Bounds DEF DeadlineInv, HistoryTypes
  <2>2. CASE ~Unnoticed(m)
    BY <2>1, <2>2 DEF DeadlineInv, SilenceBounded
  <2>3. CASE Unnoticed(m)
    <3>1. NoticeIn(m) \in Nat
      BY <2>3, NoticeInBound DEF NoticeInRange, Unnoticed, TimelyInv
    <3> QED BY <2>1, <2>3, <3>1 DEF DeadlineInv, SilenceBounded
  <2> QED BY <2>2, <2>3
<1> QED BY <1>1, DeadlineInvAlways, PTL

\* However the manager stops, no process that has not failed outlives it for
\* longer than its bound.
THEOREM EndsInTimeAlways == DeadlineSpec => []EndsInTime
<1>1. TypeOK /\ TimelyInv /\ DeadlineInv => EndsInTime
  <2> SUFFICES ASSUME TypeOK, TimelyInv, DeadlineInv, NEW p \in Procs, Alive(p), p \notin faulty
               PROVE  alone <= EndBound(Image(p))
    BY DEF EndsInTime
  <2>1. alone \in Nat /\ EndBound(Image(p)) \in Nat
    BY Bounds, ProcFacts DEF DeadlineInv, HistoryTypes
  <2>2. EndsIn(p) \in Nat
    BY EndsInBound DEF EndsInRange, DeadlineInv, TimelyInv
  <2> QED BY <2>1, <2>2 DEF DeadlineInv, EndNears
<1> QED BY <1>1, DeadlineInvAlways, PTL

\* The history variables add nothing: what holds of the one specification holds
\* of the other.
THEOREM DeadlinesAreTimely == DeadlineSpec => TimelySpec
BY DeadlineIsTimely, PTL DEF DeadlineSpec, DeadlineInit, TimelySpec
==============================================================================
