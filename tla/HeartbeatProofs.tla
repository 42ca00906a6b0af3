--------------------------- MODULE HeartbeatProofs ---------------------------
(***************************************************************************)
(* Proofs about Heartbeat, for any modules, start-up order, slots and      *)
(* durations: that there is one process of each module, that heartbeats    *)
(* are asked for, that the manager never reads an indeterminate timer, that *)
(* no process it starts after its start-up loop lacks a mapping, and that   *)
(* every step of the supervision is a step of Supervisor, or a stutter.     *)
(***************************************************************************)
EXTENDS Heartbeat, TLAPS

LEMMA ProcFacts ==
    /\ \A p \in Procs : Image(p) \in Modules
    /\ \A m \in Modules : \A s \in Slots : <<m, s>> \in Procs /\ Image(<<m, s>>) = m
    /\ \A p \in Procs : \E s \in Slots : p = <<Image(p), s>>
    /\ \A m \in Modules : \A s, t : <<m, s>> = <<m, t>> => s = t
BY DEF Procs, Image

\* The numbers that the manager's loop counts to.
LEMMA LoopFacts == N \in Nat \ {0} /\ MaxPoll \in Nat /\ MaxSettle \in Nat
<1>1. N \in Nat \ {0}
  BY ModulesAssumption
<1>2. MaxPoll \in Nat /\ MaxSettle \in Nat
  BY DurationsAssumption
<1> QED BY <1>1, <1>2

\* Counting on, or from the start again, keeps the index and the nap in range.
LEMMA CountFacts ==
    ASSUME NEW i \in 1 .. N, NEW j, NEW nap0, NEW limit \in Nat,
           \/ i < N /\ j = i + 1 /\ nap0 = 0
           \/ i = N /\ j = 1 /\ nap0 \in 1 .. limit
    PROVE  j \in 1 .. N /\ nap0 \in Nat
BY LoopFacts

LEMMA IndexFacts == idx \in 1 .. N => Startup[idx] \in Modules
BY ModulesAssumption

LEMMA ElapseFacts ==
    /\ \A t \in Nat : Elapse(t) \in Nat /\ Elapse(t) <= t
    /\ \A t \in Nat \cup {Unset} : Elapse(t) \in Nat \cup {Unset}
    /\ \A t \in Nat \cup {Unset} : Elapse(t) = Unset <=> t = Unset
    /\ \A t \in Timers(PMTimeout) : Elapse(t) \in Timers(PMTimeout)
BY DurationsAssumption DEF Elapse, Unset, Timers

LEMMA InitTypes == Init => TypeOK
BY ModulesAssumption, DurationsAssumption DEF Init, TypeOK, Timers, Procs

PCs == {"dead", "load", "boot", "test", "check", "work", "beat", "rearm"}

\* The end of a process keeps the types.
LEMMA GoneTypes ==
    ASSUME TypeOK, NEW p \in Procs, Gone(p), faulty' \subseteq Procs
    PROVE  TypeOK'
BY DEF TypeOK, Gone, pmVars, Unset

LEMMA StopTypes ==
    ASSUME TypeOK, NEW how \in {"exited", "killed", "failed", "aborted"}, Stop(how)
    PROVE  TypeOK'
BY DEF TypeOK, Stop, procVars, marks, Timers

LEMMA StartTypes ==
    ASSUME TypeOK, NEW m \in Modules, NEW next \in {"map", "arm"}, Start(m, next)
    PROVE  TypeOK'
<1>1. CASE IsAlive(m) /\ pm' = next /\ UNCHANGED <<hb, mapped, idx, pmNap, pmTimer, cur, procVars>>
  BY <1>1 DEF TypeOK, procVars, marks
<1>2. CASE Launch(m) /\ pm' = next /\ UNCHANGED <<hb, mapped, idx, pmNap, pmTimer>>
  <2>1. PICK s \in Slots :
            /\ cur' = [cur EXCEPT ![m] = s]
            /\ pc' = [pc EXCEPT ![<<m, s>>] = "load"]
            /\ faulty' = faulty \ {<<m, s>>}
            /\ UNCHANGED <<nap, timer, marks>>
    BY <1>2 DEF Launch
  <2> QED BY <1>2, <2>1, ProcFacts DEF TypeOK, marks
<1>3. CASE Stop("aborted")
  BY <1>3, StopTypes
<1> QED BY <1>1, <1>2, <1>3 DEF Start

LEMMA NextModuleTypes ==
    ASSUME TypeOK, NextModule
    PROVE  pm' \in {"scan", "poll"} /\ idx' \in 1 .. N /\ pmNap' \in Nat
<1>1. idx \in 1 .. N
  BY DEF TypeOK
<1>2. idx' \in 1 .. N /\ pmNap' \in Nat
  BY <1>1, LoopFacts, CountFacts DEF NextModule
<1> QED BY <1>2 DEF NextModule

LEMMA ManagerTypes ==
    ASSUME TypeOK, Manager \/ KeyHit \/ ManagerDies
    PROVE  TypeOK'
<1> DEFINE m == Startup[idx]
<1>0. m \in Modules
  BY IndexFacts DEF TypeOK
<1>1. CASE Create
  BY <1>0, <1>1, StartTypes DEF Create
<1>2. CASE CreateMapping
  <2>0. idx \in 1 .. N
    BY DEF TypeOK
  <2>1. pm' \in {"create", "poll"} /\ idx' \in 1 .. N /\ pmNap' \in Nat
    BY <1>2, <2>0, LoopFacts, CountFacts DEF CreateMapping
  <2>2. mapped' \subseteq Modules
    BY <1>0, <1>2 DEF CreateMapping, TypeOK
  <2> QED BY <1>2, <2>1, <2>2 DEF CreateMapping, TypeOK, procVars, marks
<1>3. CASE Poll \/ ReadBeat
  BY <1>3 DEF Poll, ReadBeat, TypeOK, procVars, marks
<1>4. CASE ResetBeat
  BY <1>0, <1>4 DEF ResetBeat, TypeOK, procVars, marks
<1>5. CASE ArmTimer
  <2>1. Armed(PMTimeout) \in Timers(PMTimeout)
    BY DurationsAssumption DEF Armed, Timers
  <2>2. pm' \in {"scan", "poll"} /\ idx' \in 1 .. N /\ pmNap' \in Nat
    BY <1>5, NextModuleTypes DEF ArmTimer
  <2> QED BY <1>0, <1>5, <2>1, <2>2 DEF ArmTimer, TypeOK, procVars, marks
<1>6. CASE StillWaiting
  <2>1. pm' \in {"scan", "poll"} /\ idx' \in 1 .. N /\ pmNap' \in Nat
    BY <1>6, NextModuleTypes DEF StillWaiting
  <2> QED BY <1>6, <2>1 DEF StillWaiting, TypeOK, procVars, marks
<1>7. CASE FailCritical \/ KeyHit \/ ManagerDies
  BY <1>7, StopTypes DEF FailCritical, KeyHit, ManagerDies
<1>8. CASE Kill
  <2>1. IsAlive(m) => Current(m) \in Procs
    BY <1>0, ProcFacts DEF IsAlive, Current, TypeOK
  <2>2. doomed' \subseteq Procs
    BY <1>8, <2>1 DEF Kill, TypeOK
  <2> QED BY <1>8, <2>2 DEF Kill, TypeOK
<1>9. CASE Restart
  BY <1>0, <1>9, StartTypes DEF Restart
<1> QED BY <1>1, <1>2, <1>3, <1>4, <1>5, <1>6, <1>7, <1>8, <1>9 DEF Manager

LEMMA NapTypes ==
    ASSUME TypeOK, NEW p \in Procs, NEW n \in Nat,
           \E d \in 0 .. n : nap' = [nap EXCEPT ![p] = d]
    PROVE  nap' \in [Procs -> Nat]
<1>1. PICK d \in 0 .. n : nap' = [nap EXCEPT ![p] = d]
  OBVIOUS
<1>2. d \in Nat
  OBVIOUS
<1> QED BY <1>1, <1>2 DEF TypeOK

LEMMA TimerTypes ==
    ASSUME TypeOK, NEW p \in Procs, NEW e \in Nat, timer' = [timer EXCEPT ![p] = Armed(e)]
    PROVE  timer' \in [Procs -> Nat \cup {Unset}]
BY DEF TypeOK, Armed

LEMMA EndTurnTypes ==
    ASSUME TypeOK, NEW p \in Procs, EndTurn(p), UNCHANGED faulty,
           p \notin leaving => timer' \in [Procs -> Nat \cup {Unset}]
    PROVE  TypeOK'
<1>1. CASE p \in leaving
  BY <1>1, GoneTypes DEF EndTurn, TypeOK
<1>2. CASE p \notin leaving
  <2>1. MaxRest[Image(p)] \in Nat
    BY ProcFacts, DurationsAssumption
  <2>2. nap' \in [Procs -> Nat]
    <3>1. PICK d \in 1 .. MaxRest[Image(p)] : nap' = [nap EXCEPT ![p] = d]
      BY <1>2 DEF EndTurn
    <3>2. d \in 0 .. MaxRest[Image(p)]
      BY <2>1
    <3> QED BY <2>1, <3>1, <3>2, NapTypes
  <2> QED BY <1>2, <2>2 DEF EndTurn, TypeOK, pmVars, marks
<1> QED BY <1>1, <1>2

LEMMA ProcessTypes ==
    ASSUME TypeOK, NEW p \in Procs, Process(p) \/ Environment(p)
    PROVE  TypeOK'
<1> DEFINE m == Image(p)
<1>0. m \in Modules
  BY ProcFacts
<1>1. CASE Load(p)
  <2>1. MaxBoot[m] \in Nat
    BY <1>0, DurationsAssumption
  <2>2. nap' \in [Procs -> Nat]
    BY <1>1, <2>1, NapTypes DEF Load
  <2>3. pc' \in [Procs -> PCs]
    BY <1>1 DEF Load, Moves, TypeOK, PCs
  <2>4. mapped' \subseteq Modules /\ blind' \subseteq Procs /\ faulty' \subseteq Procs
    BY <1>0, <1>1 DEF Load, TypeOK
  <2> QED BY <1>1, <2>2, <2>3, <2>4 DEF Load, TypeOK, pmVars, PCs
<1>2. CASE Boot(p)
  <2>1. MaxInit[m] \in Nat
    BY <1>0, DurationsAssumption
  <2>2. nap' \in [Procs -> Nat]
    BY <1>2, <2>1, NapTypes DEF Boot
  <2>3. timer' \in [Procs -> Nat \cup {Unset}]
    BY <1>2, TimerTypes, DurationsAssumption DEF Boot
  <2> QED BY <1>2, <2>2, <2>3 DEF Boot, Moves, TypeOK, pmVars, marks
<1>3. CASE TestTimer(p)
  <2>1. CASE Gone(p)
    BY <1>3, <2>1, GoneTypes DEF TestTimer, TypeOK
  <2>2. CASE ~Gone(p)
    BY <1>3, <2>2 DEF TestTimer, TypeOK, pmVars, marks
  <2> QED BY <2>1, <2>2
<1>4. CASE TestFrame(p)
  BY <1>4 DEF TestFrame, Moves, TypeOK, pmVars
<1>5. CASE CheckBeat(p)
  <2>1. CASE ~hb[m] /\ m \in TcpModules
    <3>1. MaxWork[m] \in Nat
      BY <1>0, DurationsAssumption
    <3>2. nap' \in [Procs -> Nat]
      BY <1>5, <2>1, <3>1, NapTypes DEF CheckBeat
    <3> QED BY <1>5, <2>1, <3>2 DEF CheckBeat, TypeOK, pmVars, marks
  <2>2. CASE ~hb[m] /\ m \notin TcpModules
    BY <1>5, <2>2 DEF CheckBeat, TypeOK, pmVars, marks
  <2>3. CASE hb[m]
    BY <1>5, <2>3, EndTurnTypes DEF CheckBeat, TypeOK
  <2> QED BY <2>1, <2>2, <2>3
<1>6. CASE Work(p)
  BY <1>6 DEF Work, Moves, TypeOK, pmVars, marks
<1>7. CASE Beat(p)
  BY <1>0, <1>7 DEF Beat, Moves, TypeOK, pmVars, marks
<1>8. CASE Rearm(p)
  BY <1>0, <1>8, EndTurnTypes, TimerTypes, DurationsAssumption DEF Rearm
<1>9. CASE NullFault(p) \/ Dies(p) \/ Crash(p)
  BY <1>9, GoneTypes DEF NullFault, Dies, Crash, TypeOK
<1>10. CASE BadFrame(p) \/ Stall(p) \/ Answer(p)
  BY <1>10 DEF BadFrame, Stall, Answer, TypeOK, pmVars
<1> QED BY <1>1, <1>2, <1>3, <1>4, <1>5, <1>6, <1>7, <1>8, <1>9, <1>10
        DEF Process, Environment

LEMMA TickTypes ==
    ASSUME TypeOK, Tick
    PROVE  TypeOK'
<1>1. pmNap' \in Nat
  BY ElapseFacts DEF TypeOK, Tick
<1>2. pmTimer' \in [Modules -> Timers(PMTimeout)]
  BY ElapseFacts DEF TypeOK, Tick
<1>3. nap' \in [Procs -> Nat]
  BY ElapseFacts DEF TypeOK, Tick
<1>4. timer' \in [Procs -> Nat \cup {Unset}]
  BY ElapseFacts DEF TypeOK, Tick
<1> QED BY <1>1, <1>2, <1>3, <1>4 DEF TypeOK, Tick, marks

LEMMA NextTypes == TypeOK /\ [Next]_vars => TypeOK'
<1> SUFFICES ASSUME TypeOK, [Next]_vars PROVE TypeOK'
  OBVIOUS
<1>1. CASE Manager \/ KeyHit \/ ManagerDies
  BY <1>1, ManagerTypes
<1>2. CASE \E p \in Procs : Process(p) \/ Environment(p)
  BY <1>2, ProcessTypes
<1>3. CASE Tick
  BY <1>3, TickTypes
<1>4. CASE UNCHANGED vars
  BY <1>4 DEF vars, pmVars, procVars, marks, TypeOK
<1> QED BY <1>1, <1>2, <1>3, <1>4 DEF Next, Done

\* Every variable keeps its type, whatever the modules and the durations.
THEOREM Typing == Spec => []TypeOK
<1>1. Spec => Init /\ [][Next]_vars
  BY PTL DEF Spec
<1> QED BY <1>1, InitTypes, NextTypes, PTL

(***************************************************************************)
(* One process per module.                                                 *)
(***************************************************************************)

\* A step of a process, or of its environment, moves that process alone and
\* revives none.
LEMMA ProcessEffect ==
    ASSUME TypeOK, NEW p \in Procs, Process(p) \/ Environment(p)
    PROVE  /\ UNCHANGED pmVars
           /\ \E v \in PCs : pc' = [pc EXCEPT ![p] = v] /\ (v # "dead" => Alive(p))
<1> DEFINE Effect == /\ UNCHANGED pmVars
                     /\ \E v \in PCs : pc' = [pc EXCEPT ![p] = v] /\ (v # "dead" => Alive(p))
<1>0. Gone(p) => Effect
  BY DEF Gone, PCs
<1>1. CASE Load(p)
  BY <1>1 DEF Load, Moves, PCs, Alive
<1>2. CASE Boot(p)
  BY <1>2 DEF Boot, Moves, PCs, Alive
<1>3. CASE TestTimer(p)
  BY <1>0, <1>3 DEF TestTimer, PCs, Alive
<1>4. CASE TestFrame(p)
  BY <1>4 DEF TestFrame, Moves, PCs, Alive
<1>5. CASE CheckBeat(p)
  BY <1>0, <1>5 DEF CheckBeat, EndTurn, PCs, Alive
<1>6. CASE Work(p) \/ Beat(p)
  BY <1>6 DEF Work, Beat, Moves, PCs, Alive
<1>7. CASE Rearm(p)
  BY <1>0, <1>7 DEF Rearm, EndTurn, PCs, Alive
<1>8. CASE NullFault(p) \/ Dies(p) \/ Crash(p)
  BY <1>0, <1>8 DEF NullFault, Dies, Crash
<1>9. CASE BadFrame(p) \/ Stall(p) \/ Answer(p)
  <2>1. pc' = [pc EXCEPT ![p] = pc[p]] /\ pc[p] \in PCs
    BY <1>9 DEF BadFrame, Stall, Answer, TypeOK, PCs
  <2> QED BY <1>9, <2>1 DEF BadFrame, Stall, Answer, Alive
<1> QED BY <1>1, <1>2, <1>3, <1>4, <1>5, <1>6, <1>7, <1>8, <1>9
        DEF Process, Environment

\* A step of the manager moves no process; it may create one, of the module it
\* is at, when the one it knows is gone.
Creates(m) ==
    \E s \in Slots :
        /\ ~IsAlive(m)
        /\ s # cur[m] /\ ~Alive(<<m, s>>)
        /\ cur' = [cur EXCEPT ![m] = s]
        /\ pc' = [pc EXCEPT ![<<m, s>>] = "load"]
        /\ faulty' = faulty \ {<<m, s>>}
        /\ UNCHANGED <<nap, timer, marks, hb, mapped, idx, pmNap, pmTimer>>

LEMMA StartEffect ==
    ASSUME NEW m \in Modules, NEW next, Start(m, next)
    PROVE  Creates(m) \/ UNCHANGED <<cur, pc>>
<1>1. CASE ~IsAlive(m) /\ Launch(m) /\ UNCHANGED <<hb, mapped, idx, pmNap, pmTimer>>
  <2>1. PICK s \in Slots :
            /\ s # cur[m] /\ ~Alive(<<m, s>>)
            /\ cur' = [cur EXCEPT ![m] = s]
            /\ pc' = [pc EXCEPT ![<<m, s>>] = "load"]
            /\ faulty' = faulty \ {<<m, s>>}
            /\ UNCHANGED <<nap, timer, marks>>
    BY <1>1 DEF Launch
  <2> QED BY <1>1, <2>1 DEF Creates
<1>2. CASE Stop("aborted") \/ UNCHANGED <<hb, mapped, idx, pmNap, pmTimer, cur, procVars>>
  BY <1>2 DEF Stop, procVars
<1> QED BY <1>1, <1>2 DEF Start

LEMMA ManagerEffect ==
    ASSUME TypeOK, Manager \/ KeyHit \/ ManagerDies
    PROVE  (\E m \in Modules : m = Startup[idx] /\ Creates(m)) \/ UNCHANGED <<cur, pc>>
<1>0. Startup[idx] \in Modules
  BY IndexFacts DEF TypeOK
<1>1. CASE Create \/ Restart
  BY <1>0, <1>1, StartEffect DEF Create, Restart
<1>2. CASE FailCritical \/ KeyHit \/ ManagerDies
  BY <1>2 DEF FailCritical, KeyHit, ManagerDies, Stop, procVars
<1>3. CASE CreateMapping \/ Poll \/ ReadBeat \/ ResetBeat \/ ArmTimer \/ StillWaiting \/ Kill
  BY <1>3 DEF CreateMapping, Poll, ReadBeat, ResetBeat, ArmTimer, StillWaiting, Kill, procVars
<1> QED BY <1>1, <1>2, <1>3 DEF Manager

\* Manager steps by what they do to pm.
LEMMA ManagerMoves ==
    ASSUME TypeOK, Manager \/ KeyHit \/ ManagerDies
    PROVE  /\ ~Stopped
           /\ \/ \E how \in {"exited", "killed", "failed", "aborted"} : Stop(how)
              \/ ~Stopped'
<1>1. CASE Create \/ Restart
  BY <1>1 DEF Create, Restart, Start, Stopped
<1>2. CASE FailCritical \/ KeyHit \/ ManagerDies
  BY <1>2 DEF FailCritical, KeyHit, ManagerDies, Stopped
<1>3. CASE CreateMapping \/ Poll \/ ReadBeat \/ ResetBeat \/ ArmTimer \/ StillWaiting \/ Kill
  BY <1>3 DEF CreateMapping, Poll, ReadBeat, ResetBeat, ArmTimer, StillWaiting, Kill,
              NextModule, Stopped
<1> QED BY <1>1, <1>2, <1>3 DEF Manager

LEMMA OneProcessInit == Init => OneProcess
BY DEF Init, OneProcess, Alive

LEMMA OneProcessNext ==
    ASSUME TypeOK, OneProcess, [Next]_vars
    PROVE  OneProcess'
<1>1. CASE Manager \/ KeyHit \/ ManagerDies
  <2>1. CASE UNCHANGED <<cur, pc>>
    BY <2>1 DEF OneProcess, Alive, Current
  <2>2. ASSUME NEW m \in Modules, Creates(m) PROVE OneProcess'
    <3>1. PICK s \in Slots :
              /\ ~IsAlive(m)
              /\ cur' = [cur EXCEPT ![m] = s]
              /\ pc' = [pc EXCEPT ![<<m, s>>] = "load"]
      BY <2>2 DEF Creates
    <3>2. SUFFICES ASSUME NEW p \in Procs, Alive(p)' PROVE p = Current(Image(p))'
      BY DEF OneProcess
    <3>3. Image(p) \in Modules
      BY ProcFacts
    <3>4. CASE p = <<m, s>>
      BY <3>1, <3>4, ProcFacts DEF TypeOK, Current
    <3>5. CASE p # <<m, s>>
      <4>1. Alive(p)
        BY <3>1, <3>2, <3>5, ProcFacts DEF Alive, TypeOK
      <4>2. p = Current(Image(p))
        BY <4>1 DEF OneProcess
      <4>3. cur[Image(p)] # NoSlot
        BY <4>2, ProcFacts, ModulesAssumption DEF Current
      <4>4. Image(p) # m
        BY <3>1, <4>1, <4>2, <4>3 DEF IsAlive
      <4> QED BY <3>1, <3>3, <4>2, <4>4 DEF Current, TypeOK
    <3> QED BY <3>4, <3>5
  <2> QED BY <1>1, <2>1, <2>2, ManagerEffect
<1>2. ASSUME NEW p \in Procs, Process(p) \/ Environment(p) PROVE OneProcess'
  <2>1. PICK v \in PCs : cur' = cur /\ pc' = [pc EXCEPT ![p] = v] /\ (v # "dead" => Alive(p))
    BY <1>2, ProcessEffect DEF pmVars
  <2>2. \A q \in Procs : Alive(q)' => Alive(q)
    BY <2>1 DEF TypeOK, Alive
  <2> QED BY <2>1, <2>2 DEF OneProcess, Current
<1>3. CASE Tick \/ UNCHANGED vars
  BY <1>3 DEF Tick, vars, pmVars, procVars, OneProcess, Alive, Current
<1> QED BY <1>1, <1>2, <1>3 DEF Next, Done

\* However a restart interleaves with the end of the process it replaces, at
\* most one process of a module runs: the one the manager holds.
THEOREM OneProcessAlways == Spec => []OneProcess
<1>1. Spec => Init /\ [][Next]_vars
  BY PTL DEF Spec
<1>2. TypeOK /\ TypeOK' /\ OneProcess /\ [Next]_vars => OneProcess'
  BY OneProcessNext
<1> QED BY <1>1, <1>2, Typing, OneProcessInit, PTL

(***************************************************************************)
(* Every heartbeat is owed.                                                *)
(***************************************************************************)

\* Only Beat raises a heartbeat, and only CheckBeat starts the work for one.
LEMMA BeatEffect ==
    ASSUME TypeOK, NEW p \in Procs, Process(p) \/ Environment(p)
    PROVE  /\ hb' = hb \/ Beat(p)
           /\ pc'[p] \in {"work", "beat"} => pc[p] \in {"work", "beat"} \/ ~hb[Image(p)]
<1>0. Gone(p) => hb' = hb /\ pc'[p] = "dead"
  BY DEF Gone, TypeOK
<1>1. CASE Load(p) \/ Boot(p) \/ TestFrame(p) \/ Work(p) \/ Beat(p)
  BY <1>1 DEF Load, Boot, TestFrame, Work, Beat, Moves, TypeOK
<1>2. CASE TestTimer(p)
  BY <1>0, <1>2 DEF TestTimer, TypeOK
<1>3. CASE CheckBeat(p)
  BY <1>0, <1>3 DEF CheckBeat, EndTurn, TypeOK
<1>4. CASE Rearm(p)
  BY <1>0, <1>4 DEF Rearm, EndTurn, TypeOK
<1>5. CASE NullFault(p) \/ Dies(p) \/ Crash(p)
  BY <1>0, <1>5 DEF NullFault, Dies, Crash
<1>6. CASE BadFrame(p) \/ Stall(p) \/ Answer(p)
  BY <1>6 DEF BadFrame, Stall, Answer
<1> QED BY <1>1, <1>2, <1>3, <1>4, <1>5, <1>6 DEF Process, Environment

\* The manager never raises a heartbeat.
LEMMA ManagerLowers ==
    ASSUME TypeOK, Manager \/ KeyHit \/ ManagerDies
    PROVE  \A m \in Modules : hb'[m] => hb[m]
<1>0. Startup[idx] \in Modules
  BY IndexFacts DEF TypeOK
<1>1. CASE Create \/ Restart
  BY <1>1 DEF Create, Restart, Start, Stop
<1>2. CASE FailCritical \/ KeyHit \/ ManagerDies
  BY <1>2 DEF FailCritical, KeyHit, ManagerDies, Stop
<1>3. CASE CreateMapping \/ Poll \/ ReadBeat \/ ArmTimer \/ StillWaiting \/ Kill
  BY <1>3 DEF CreateMapping, Poll, ReadBeat, ArmTimer, StillWaiting, Kill
<1>4. CASE ResetBeat
  BY <1>0, <1>4 DEF ResetBeat, TypeOK
<1> QED BY <1>1, <1>2, <1>3, <1>4 DEF Manager

LEMMA BeatIsOwedNext ==
    ASSUME TypeOK, TypeOK', OneProcess, BeatIsOwed, [Next]_vars
    PROVE  BeatIsOwed'
<1>0. SUFFICES ASSUME NEW q \in Procs, pc'[q] \in {"work", "beat"}
               PROVE  ~hb'[Image(q)]
  BY DEF BeatIsOwed
<1>q. Image(q) \in Modules /\ hb \in [Modules -> BOOLEAN] /\ hb' \in [Modules -> BOOLEAN]
  BY ProcFacts DEF TypeOK
<1>1. CASE Manager \/ KeyHit \/ ManagerDies
  <2>1. pc[q] \in {"work", "beat"}
    BY <1>0, <1>1, ManagerEffect, ProcFacts DEF Creates, TypeOK
  <2> QED BY <1>1, <1>q, <2>1, ManagerLowers DEF BeatIsOwed
<1>2. ASSUME NEW p \in Procs, Process(p) \/ Environment(p) PROVE ~hb'[Image(q)]
  <2>1. PICK v \in PCs : pc' = [pc EXCEPT ![p] = v]
    BY <1>2, ProcessEffect
  <2>2. ~hb[Image(q)]
    <3>1. CASE q = p
      BY <1>0, <1>2, <3>1, BeatEffect DEF BeatIsOwed
    <3>2. CASE q # p
      BY <1>0, <2>1, <3>2 DEF BeatIsOwed, TypeOK
    <3> QED BY <3>1, <3>2
  <2>3. CASE hb' = hb
    BY <2>2, <2>3
  <2>4. CASE Beat(p)
    <3>1. q # p
      BY <1>0, <2>4 DEF Beat, Moves, TypeOK
    <3>2. Alive(q) /\ Alive(p)
      BY <1>0, <2>1, <2>4, <3>1 DEF Beat, Moves, TypeOK, Alive
    <3>3. Image(q) # Image(p)
      BY <3>1, <3>2 DEF OneProcess
    <3> QED BY <1>q, <2>2, <2>4, <3>3, ProcFacts DEF Beat
  <2> QED BY <1>2, <2>3, <2>4, BeatEffect
<1>3. CASE Tick \/ UNCHANGED vars
  BY <1>0, <1>3 DEF Tick, vars, procVars, BeatIsOwed
<1> QED BY <1>1, <1>2, <1>3 DEF Next, Done

\* No process sends a heartbeat the manager has not asked for, or one that
\* overwrites another.
THEOREM BeatIsOwedAlways == Spec => []BeatIsOwed
<1>1. Spec => Init /\ [][Next]_vars
  BY PTL DEF Spec
<1>2. Init => BeatIsOwed
  BY DEF Init, BeatIsOwed
<1>3. TypeOK /\ TypeOK' /\ OneProcess /\ BeatIsOwed /\ [Next]_vars => BeatIsOwed'
  BY BeatIsOwedNext
<1> QED BY <1>1, <1>2, <1>3, Typing, OneProcessAlways, PTL

(***************************************************************************)
(* Where the manager is, and what it has done by then.                     *)
(***************************************************************************)

\* A lowered heartbeat has a timer, unless it is about to get one.
TimersSet ==
    /\ \A m \in Modules :
          ~hb[m] /\ ~Stopped /\ ~(pm = "arm" /\ Startup[idx] = m) => pmTimer[m] # Unset
    /\ pm = "late" => pmTimer[Startup[idx]] # Unset

\* A start-up that is under way has created, and mapped, the modules before idx
\* and not created those after it; a restart is of a non-critical module, whose
\* old process is gone or going.
Progress ==
    /\ pm = "create" => \A i \in idx .. N : cur[Startup[i]] = NoSlot
    /\ pm = "map" => \A i \in idx + 1 .. N : cur[Startup[i]] = NoSlot
    /\ pm \in {"create", "map"} => \A i \in 1 .. idx - 1 : Startup[i] \in mapped
    /\ pm \notin {"create", "map"} /\ ~Stopped => mapped = Modules
    /\ pm = "start" => Startup[idx] \notin Critical

LEMMA ArmedNext ==
    ASSUME TypeOK, TimersSet, [Next]_vars
    PROVE  TimersSet'
<1>0. Startup[idx] \in Modules
  BY IndexFacts DEF TypeOK
<1>1. ASSUME NEW how \in {"exited", "killed", "failed", "aborted"}, Stop(how) PROVE TimersSet'
  BY <1>1 DEF Stop, TimersSet, Stopped
<1>2. CASE Create \/ Restart
  <2>1. CASE Stop("aborted")
    BY <1>1, <2>1
  <2>2. CASE ~Stop("aborted")
    BY <1>2, <2>2 DEF Create, Restart, Start, TimersSet, Stopped
  <2> QED BY <2>1, <2>2
<1>3. CASE CreateMapping \/ Poll \/ ReadBeat \/ ResetBeat \/ Kill
  <2>1. CASE CreateMapping \/ Poll \/ Kill
    BY <2>1 DEF CreateMapping, Poll, Kill, TimersSet, Stopped
  <2>2. CASE ReadBeat
    BY <1>0, <2>2 DEF ReadBeat, TimersSet, Stopped
  <2>3. CASE ResetBeat
    BY <1>0, <2>3 DEF ResetBeat, TimersSet, Stopped, TypeOK
  <2> QED BY <1>3, <2>1, <2>2, <2>3
<1>4. CASE ArmTimer \/ StillWaiting
  <2>1. Armed(PMTimeout) # Unset
    BY DurationsAssumption DEF Armed, Unset
  <2>2. pm' \in {"scan", "poll"}
    BY <1>4 DEF ArmTimer, StillWaiting, NextModule
  <2>3. CASE ArmTimer
    BY <1>0, <2>1, <2>2, <2>3 DEF ArmTimer, TimersSet, Stopped, TypeOK
  <2>4. CASE StillWaiting
    BY <2>2, <2>4 DEF StillWaiting, TimersSet, Stopped
  <2> QED BY <1>4, <2>3, <2>4
<1>5. CASE FailCritical \/ KeyHit \/ ManagerDies
  BY <1>1, <1>5 DEF FailCritical, KeyHit, ManagerDies
<1>6. ASSUME NEW p \in Procs, Process(p) \/ Environment(p) PROVE TimersSet'
  <2>1. UNCHANGED pmVars
    BY <1>6, ProcessEffect
  <2>2. \A m \in Modules : hb[m] => hb'[m]
    <3>1. CASE hb' = hb
      BY <3>1
    <3>2. CASE Beat(p)
      BY <3>2, ProcFacts DEF Beat, TypeOK
    <3> QED BY <1>6, <3>1, <3>2, BeatEffect
  <2> QED BY <2>1, <2>2 DEF TimersSet, Stopped, pmVars
<1>7. CASE Tick
  <2>1. \A m \in Modules : pmTimer'[m] = Unset => pmTimer[m] = Unset
    <3>1. SUFFICES ASSUME NEW m \in Modules, pmTimer[m] # Unset
                   PROVE  Elapse(pmTimer[m]) # Unset
      BY <1>7 DEF Tick
    <3>2. pmTimer[m] \in Timers(PMTimeout)
      BY DEF TypeOK
    <3> QED BY <3>1, <3>2, DurationsAssumption DEF Elapse, Unset, Timers
  <2> QED BY <1>0, <1>7, <2>1 DEF Tick, TimersSet, Stopped
<1>8. CASE UNCHANGED vars
  BY <1>8 DEF vars, pmVars, TimersSet, Stopped
<1> QED BY <1>2, <1>3, <1>4, <1>5, <1>6, <1>7, <1>8 DEF Next, Manager, Done

\* The timers that Process's move constructor leaves indeterminate are never
\* consulted, because the heartbeats start raised.
THEOREM ArmedBeforeReadAlways == Spec => []ArmedBeforeRead
<1>1. Spec => Init /\ [][Next]_vars
  BY PTL DEF Spec
<1>2. Init => TimersSet
  BY DEF Init, TimersSet
<1>3. TypeOK /\ TimersSet /\ [Next]_vars => TimersSet'
  BY ArmedNext
<1>4. TimersSet => ArmedBeforeRead
  BY DEF TimersSet, ArmedBeforeRead
<1> QED BY <1>1, <1>2, <1>3, <1>4, Typing, PTL

LEMMA ProgressInit == Init => Progress
BY ModulesAssumption DEF Init, Progress, Stopped

\* A created process leaves the modules that are still to come uncreated.
LEMMA CreatedHere ==
    ASSUME TypeOK, pm \in {"create", "start"}, Progress, Creates(Startup[idx]),
           pm' = IF pm = "create" THEN "map" ELSE "arm"
    PROVE  Progress'
<1>0. Startup[idx] \in Modules /\ idx \in 1 .. N
  BY IndexFacts DEF TypeOK
<1>1. PICK s \in Slots :
          /\ cur' = [cur EXCEPT ![Startup[idx]] = s]
          /\ UNCHANGED <<mapped, idx>>
  BY DEF Creates
<1>2. CASE pm = "create"
  <2>1. \A i \in idx + 1 .. N : Startup[i] # Startup[idx]
    BY <1>0, ModulesAssumption
  <2>2. \A i \in idx + 1 .. N : cur[Startup[i]] = NoSlot
    BY <1>0, <1>2 DEF Progress
  <2>3. \A i \in idx + 1 .. N : cur'[Startup[i]] = NoSlot
    BY <1>0, <1>1, <2>1, <2>2, ModulesAssumption DEF TypeOK
  <2> QED BY <1>1, <1>2, <2>3 DEF Progress, Stopped
<1>3. CASE pm = "start"
  BY <1>1, <1>3 DEF Progress, Stopped
<1> QED BY <1>2, <1>3

LEMMA ProgressNext ==
    ASSUME TypeOK, Progress, [Next]_vars
    PROVE  Progress'
<1>0. Startup[idx] \in Modules /\ idx \in 1 .. N /\ N \in Nat
  BY IndexFacts, ModulesAssumption DEF TypeOK
<1>1. ASSUME NEW how \in {"exited", "killed", "failed", "aborted"}, Stop(how) PROVE Progress'
  BY <1>1 DEF Stop, Progress, Stopped
<1>2. CASE Create \/ Restart
  <2>1. CASE Stop("aborted")
    BY <1>1, <2>1
  <2>2. CASE ~Stop("aborted") /\ IsAlive(Startup[idx])
    <3>1. pm = "create" => cur[Startup[idx]] = NoSlot
      BY <1>0 DEF Progress
    <3>2. pm = "start"
      BY <1>2, <2>2, <3>1 DEF Create, Restart, IsAlive
    <3> QED BY <1>2, <2>2, <3>2 DEF Create, Restart, Start, Progress, Stopped
  <2>3. CASE ~Stop("aborted") /\ ~IsAlive(Startup[idx])
    <3>1. /\ pm \in {"create", "start"}
          /\ Launch(Startup[idx])
          /\ pm' = IF pm = "create" THEN "map" ELSE "arm"
          /\ UNCHANGED <<hb, mapped, idx, pmNap, pmTimer>>
      BY <1>2, <2>3 DEF Create, Restart, Start
    <3>2. Creates(Startup[idx])
      BY <2>3, <3>1 DEF Launch, Creates
    <3> QED BY <3>1, <3>2, CreatedHere
  <2> QED BY <2>1, <2>2, <2>3
<1>3. CASE CreateMapping
  <2>1. CASE idx < N
    <3>1. \A i \in 1 .. idx' - 1 : Startup[i] \in mapped'
      BY <1>0, <1>3, <2>1 DEF CreateMapping, Progress
    <3>2. \A i \in idx' .. N : cur'[Startup[i]] = NoSlot
      BY <1>0, <1>3, <2>1 DEF CreateMapping, Progress
    <3> QED BY <1>0, <1>3, <2>1, <3>1, <3>2 DEF CreateMapping, Progress, Stopped
  <2>2. CASE idx = N
    <3>1. \A i \in 1 .. N : Startup[i] \in mapped'
      BY <1>0, <1>3, <2>2 DEF CreateMapping, Progress
    <3>2. mapped' = Modules
      BY <1>0, <1>3, <3>1, ModulesAssumption DEF CreateMapping, TypeOK
    <3> QED BY <1>0, <1>3, <2>2, <3>2 DEF CreateMapping, Progress, Stopped
  <2> QED BY <1>0, <1>3, <2>1, <2>2 DEF CreateMapping
<1>4. CASE Poll \/ ReadBeat \/ ResetBeat \/ Kill
  BY <1>4 DEF Poll, ReadBeat, ResetBeat, Kill, Progress, Stopped
<1>5. CASE ArmTimer \/ StillWaiting
  <2>1. pm' \in {"scan", "poll"}
    BY <1>5 DEF ArmTimer, StillWaiting, NextModule
  <2> QED BY <1>5, <2>1 DEF ArmTimer, StillWaiting, Progress, Stopped
<1>6. CASE FailCritical \/ KeyHit \/ ManagerDies
  BY <1>1, <1>6 DEF FailCritical, KeyHit, ManagerDies
<1>7. ASSUME NEW p \in Procs, Process(p) \/ Environment(p) PROVE Progress'
  <2>1. UNCHANGED pmVars
    BY <1>7, ProcessEffect
  <2>2. mapped \subseteq mapped' /\ mapped' \subseteq Modules
    <3>1. mapped' = mapped \/ Load(p)
      BY <1>7 DEF Process, Environment, Boot, TestTimer, TestFrame, CheckBeat, EndTurn,
                  Work, Beat, Rearm, NullFault, Dies, Crash, BadFrame, Stall, Answer, Gone
    <3>2. mapped' \subseteq Modules
      BY <1>7, ProcessTypes DEF TypeOK
    <3> QED BY <3>1, <3>2 DEF Load
  <2> QED BY <2>1, <2>2 DEF Progress, Stopped, pmVars
<1>8. CASE Tick \/ UNCHANGED vars
  BY <1>8 DEF Tick, vars, pmVars, Progress, Stopped
<1> QED BY <1>2, <1>3, <1>4, <1>5, <1>6, <1>7, <1>8 DEF Next, Manager, Done

LEMMA ProgressAlways == Spec => []Progress
<1>1. Spec => Init /\ [][Next]_vars
  BY PTL DEF Spec
<1>2. TypeOK /\ Progress /\ [Next]_vars => Progress'
  BY ProgressNext
<1> QED BY <1>1, <1>2, Typing, ProgressInit, PTL

\* Only Load makes a process blind.
LEMMA BlindOnlyByLoad ==
    ASSUME TypeOK, Next, NEW p \in Procs, p \in blind' \ blind
    PROVE  Load(p) /\ mapped # Modules
<1>1. ~(Manager \/ KeyHit \/ ManagerDies)
  <2>1. Create \/ Restart => blind' = blind
    BY DEF Create, Restart, Start, Launch, Stop, procVars, marks
  <2>2. FailCritical \/ KeyHit \/ ManagerDies => blind' = blind
    BY DEF FailCritical, KeyHit, ManagerDies, Stop, procVars, marks
  <2>3. CreateMapping \/ Poll \/ ReadBeat \/ ResetBeat \/ ArmTimer \/ StillWaiting => blind' = blind
    BY DEF CreateMapping, Poll, ReadBeat, ResetBeat, ArmTimer, StillWaiting, procVars, marks
  <2>4. Kill => blind' = blind
    BY DEF Kill
  <2> QED BY <2>1, <2>2, <2>3, <2>4 DEF Manager
<1>2. ~Tick /\ ~Done
  BY DEF Tick, Done, vars, procVars, marks
<1>3. PICK q \in Procs : Process(q) \/ Environment(q)
  BY <1>1, <1>2 DEF Next
<1>4. Load(q)
  BY <1>3 DEF Process, Environment, Boot, TestTimer, TestFrame, CheckBeat, EndTurn, Work,
              Beat, Rearm, NullFault, Dies, Crash, BadFrame, Stall, Answer, Gone, marks
<1>5. p = q /\ \E o \in OpensMap[Image(q)] : o \notin mapped
  BY <1>4 DEF Load
<1>6. OpensMap[Image(q)] \subseteq Modules
  BY ProcFacts, ModulesAssumption
<1> QED BY <1>4, <1>5, <1>6

\* After the start-up loop no process is started without the mappings it opens.
THEOREM BlindOnlyAtStartupAlways == Spec => BlindOnlyAtStartup
<1>1. Spec => [][Next]_vars
  BY PTL DEF Spec
<1>2. TypeOK /\ Progress /\ [Next]_vars =>
          [\A p \in Procs : p \in blind' \ blind => pm \in {"create", "map"} \/ Stopped]_vars
  BY BlindOnlyByLoad DEF Progress
<1> QED BY <1>1, <1>2, Typing, ProgressAlways, PTL DEF BlindOnlyAtStartup

(***************************************************************************)
(* The supervision implements Supervisor.                                  *)
(***************************************************************************)
LEMMA SupInit == Init => Sup!Init
BY ModulesAssumption DEF Init, Sup!Init, Stopped, Launched, Up, Alive, Procs

LEMMA SupStep ==
    ASSUME TypeOK, OneProcess, Progress, [Next]_vars
    PROVE  [Sup!Next]_(Sup!vars)
<1>0. Startup[idx] \in Modules /\ idx \in 1 .. N
  BY IndexFacts DEF TypeOK
<1>1. CASE Manager \/ KeyHit \/ ManagerDies
  <2>1. CASE UNCHANGED <<cur, pc>>
    <3>1. Launched' = Launched /\ Up' = Up
      BY <2>1 DEF Launched, Up, Alive
    <3>2. ~Stopped
      BY <1>1, ManagerMoves
    <3> QED BY <3>1, <3>2 DEF Sup!Next, Sup!Stop, Sup!vars
  <2>2. CASE Creates(Startup[idx]) /\ ~UNCHANGED <<cur, pc>>
    <3> DEFINE m == Startup[idx]
    <3>1. PICK s \in Slots :
              /\ ~IsAlive(m)
              /\ cur' = [cur EXCEPT ![m] = s]
              /\ pc' = [pc EXCEPT ![<<m, s>>] = "load"]
      BY <2>2 DEF Creates
    <3>2. ~Stopped /\ ~Stopped'
      <4>1. ~Stopped
        BY <1>1, ManagerMoves
      <4>2. ~ \E how \in {"exited", "killed", "failed", "aborted"} : Stop(how)
        BY <2>2 DEF Stop, procVars
      <4> QED BY <1>1, <4>1, <4>2, ManagerMoves
    <3>3. m \notin Up
      <4>1. SUFFICES ASSUME NEW t \in Slots, Alive(<<m, t>>) PROVE FALSE
        BY DEF Up
      <4>2. <<m, t>> = Current(m)
        BY <1>0, <4>1, ProcFacts DEF OneProcess
      <4>3. cur[m] = t
        BY <1>0, <4>2, ProcFacts DEF Current
      <4> QED BY <3>1, <4>1, <4>2, <4>3, ModulesAssumption DEF IsAlive
    <3>4. m \in Critical => m \notin Launched
      <4>1. pm \in {"create", "start"}
        BY <1>1, <2>2 DEF Manager, Create, Restart, CreateMapping, Poll, ReadBeat, ResetBeat,
              ArmTimer, StillWaiting, FailCritical, Kill, KeyHit, ManagerDies, Stop, procVars
      <4>2. pm = "create" => cur[m] = NoSlot
        BY <1>0 DEF Progress
      <4> QED BY <4>1, <4>2 DEF Progress, Launched
    <3>5. Launched' = Launched \cup {m}
      BY <1>0, <3>1, ModulesAssumption DEF Launched, TypeOK
    <3>6. Up' = Up \cup {m}
      BY <1>0, <3>1, ProcFacts DEF Up, Alive, TypeOK
    <3> QED BY <1>0, <3>2, <3>3, <3>4, <3>5, <3>6 DEF Sup!Next, Sup!Launch, Sup!vars
  <2> QED BY <1>1, <2>1, <2>2, ManagerEffect
<1>2. ASSUME NEW p \in Procs, Process(p) \/ Environment(p) PROVE [Sup!Next]_(Sup!vars)
  <2>1. PICK v \in PCs : pc' = [pc EXCEPT ![p] = v] /\ (v # "dead" => Alive(p))
    BY <1>2, ProcessEffect
  <2>2. Launched' = Launched /\ Stopped' = Stopped
    BY <1>2, ProcessEffect DEF Launched, Stopped, pmVars
  <2>3. PICK s \in Slots : p = <<Image(p), s>>
    BY ProcFacts
  <2>4. CASE v # "dead" \/ ~Alive(p)
    <3>1. \A q \in Procs : Alive(q)' = Alive(q)
      BY <2>1, <2>4 DEF Alive, TypeOK
    <3>2. Up' = Up
      BY <3>1, ProcFacts DEF Up
    <3> QED BY <2>2, <3>2 DEF Sup!vars
  <2>5. CASE v = "dead" /\ Alive(p)
    <3> DEFINE m == Image(p)
    <3>0. m \in Modules
      BY ProcFacts
    <3>1. m \in Up
      BY <2>3, <2>5, <3>0 DEF Up
    <3>2. \A t \in Slots : ~Alive(<<m, t>>)'
      <4>1. SUFFICES ASSUME NEW t \in Slots PROVE ~Alive(<<m, t>>)'
        OBVIOUS
      <4>2. CASE <<m, t>> = p
        BY <2>1, <2>5, <4>2 DEF Alive, TypeOK
      <4>3. CASE <<m, t>> # p
        <5>1. ~Alive(<<m, t>>)
          BY <2>5, <3>0, <4>3, ProcFacts DEF OneProcess
        <5> QED BY <2>1, <3>0, <4>3, <5>1, ProcFacts DEF Alive, TypeOK
      <4> QED BY <4>2, <4>3
    <3>3. \A n \in Modules : n # m => \A t \in Slots : Alive(<<n, t>>)' = Alive(<<n, t>>)
      <4>1. SUFFICES ASSUME NEW n \in Modules, n # m, NEW t \in Slots
                     PROVE  Alive(<<n, t>>)' = Alive(<<n, t>>)
        OBVIOUS
      <4>2. <<n, t>> # p /\ <<n, t>> \in Procs
        BY <4>1, ProcFacts
      <4> QED BY <2>1, <4>2 DEF Alive, TypeOK
    <3>4. Up' = Up \ {m}
      BY <3>2, <3>3 DEF Up
    <3> QED BY <2>2, <3>0, <3>1, <3>4 DEF Sup!Next, Sup!Down
  <2> QED BY <2>4, <2>5
<1>3. CASE Tick \/ UNCHANGED vars
  BY <1>3 DEF Tick, vars, pmVars, procVars, Sup!vars, Launched, Up, Alive, Stopped
<1> QED BY <1>1, <1>2, <1>3 DEF Next, Done

\* The supervision implements the safety part of Supervisor: starts happen only
\* while the manager runs, on modules that are down, and once for critical ones.
THEOREM SupervisesSafely == Spec => Sup!Init /\ [][Sup!Next]_(Sup!vars)
<1>1. Spec => Init /\ [][Next]_vars
  BY PTL DEF Spec
<1>2. TypeOK /\ OneProcess /\ Progress /\ [Next]_vars => [Sup!Next]_(Sup!vars)
  BY SupStep
<1> QED BY <1>1, <1>2, SupInit, Typing, OneProcessAlways, ProgressAlways, PTL
==============================================================================
